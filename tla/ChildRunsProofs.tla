--------------------------- MODULE ChildRunsProofs ---------------------------
(***************************************************************************)
(* The parent and child protocol for any number of calls, crashes, throws  *)
(* and operator cancels.  The safety properties need to know, for every    *)
(* place a child can be reached from - a stream, a queued kick, an intent, *)
(* a published end, a boot snapshot - what the logs and rows already hold  *)
(* when that place still names the child.                                  *)
(***************************************************************************)
EXTENDS ChildRuns, TLAPS

\* What stands behind an announcement, a kick and a stream past ensure.
AnnounceInv ==
  /\ \A c \in announced : crow[c] # "none"
  /\ kicks \subseteq announced
  /\ \A c \in Calls :
       /\ stream[c] \in {"kick", "detach"} => c \in announced
       /\ stream[c] = "announce" => crow[c] # "none"
       /\ stream[c] = "detach" => c \in Detached

\* How far a row may be from its log, and what is published.
RowInv ==
  \A c \in Calls :
    /\ crow[c] = "none" => clog[c] = "empty"
    /\ crow[c] = "running" => clog[c] # "empty"
    /\ crow[c] = "over" => clog[c] # "started"
    /\ c \in dirty => clog[c] # "empty"
    /\ c \in told => Ended(c)

\* The boot passes' snapshots stay true until they are used.
BootInv ==
  \A c \in Calls : c \in todo =>
    /\ host \in {"scan", "sweep"}
    /\ host = "scan" => clog[c] # "empty"
    /\ host = "sweep" => crow[c] # "none"

\* A detached child's intent is an operator's.
AskedInv == intent \cap Detached \subseteq asked

\* Without a cancel a failed call is one whose contract is not met, or whose
\* child failed or never will be.
FailedInv ==
  \A c \in Calls : call[c] = "failure" /\ cancel = "none" =>
    \/ c \in unmet
    \/ crow[c] = "none" /\ stream[c] = "none"
    \/ c \notin Detached /\ clog[c] \in {"failure", "cancelled"}
    \/ c \notin Detached /\ clog[c] = "empty" /\ crow[c] = "over"

\* A call that succeeded met its contract, and the child it waited for succeeded.
SuccessInv == \A c \in Calls : call[c] = "success" => c \notin unmet /\ (c \in Detached \/ clog[c] = "success")

\* The inductive invariant.
ChildInv ==
  /\ TypeOK /\ AnnounceInv /\ RowInv /\ BootInv /\ AskedInv /\ FailedInv /\ SuccessInv
  /\ RunsAnnounced /\ DetachedOutlives

\* What is over stays over, as a step.
StaysOver == \A c \in Calls : crow[c] = "over" => crow'[c] = "over" /\ clog'[c] = clog[c]

-----------------------------------------------------------------------------
\* No child exists at the start.
LEMMA ChildInvInit == Init => ChildInv
  BY ChildAssumption
  DEF Init, ChildInv, TypeOK, AnnounceInv, RowInv, BootInv, AskedInv, FailedInv, SuccessInv,
      RunsAnnounced, DetachedOutlives, Ends, Ended, Live

\* The stream of a call: the child's log never moves.
LEMMA StreamKeeps ==
  ASSUME ChildInv, NEW c \in Calls, Emit(c) \/ Stream(c)
  PROVE  ChildInv' /\ StaysOver
<1> USE ChildAssumption
    DEF ChildInv, TypeOK, AnnounceInv, RowInv, BootInv, AskedInv, FailedInv, SuccessInv,
        RunsAnnounced, DetachedOutlives, Ends, Ended, StaysOver, Becomes, Returned, Result,
        logs, child, memory, process, history, Live
<1>1. CASE Emit(c)
  BY <1>1 DEF Emit
<1>2. CASE NeverStarted(c)
  BY <1>2 DEF NeverStarted
<1>3. CASE Refuse(c)
  BY <1>3 DEF Refuse
<1>4. CASE Create(c)
  BY <1>4 DEF Create
<1>5. CASE Adopt(c)
  BY <1>5 DEF Adopt
<1>6. CASE AdoptEnded(c)
  BY <1>6 DEF AdoptEnded
<1>7. CASE Announce(c)
  BY <1>7 DEF Announce
<1>8. CASE Kick(c)
  BY <1>8 DEF Kick
<1>9. CASE Detach(c)
  BY <1>9 DEF Detach
<1>10. QED
  BY <1>1, <1>2, <1>3, <1>4, <1>5, <1>6, <1>7, <1>8, <1>9 DEF Stream

\* The child's own steps, an operator's cancel among them.
LEMMA ChildKeeps ==
  ASSUME ChildInv, NEW c \in Calls,
         \/ KickRuns(c) \/ KickFails(c) \/ IntentFolds(c) \/ SyncRow(c) \/ OperatorCancels(c)
         \/ \E st \in Ends : ChildEnds(c, st)
         \/ AlarmDrives(c) \/ \E row \in {"running", "waiting"} : ChildRests(c, row)
  PROVE  ChildInv' /\ StaysOver
<1> USE ChildAssumption
    DEF ChildInv, TypeOK, AnnounceInv, RowInv, BootInv, AskedInv, FailedInv, SuccessInv,
        RunsAnnounced, DetachedOutlives, Ends, Ended, StaysOver, Logs, Returned, Result,
        Fault, logs, child, memory, process, history, Live
<1>1. CASE KickRuns(c)
  BY <1>1 DEF KickRuns, Drives, Startable, StartsCancelled, Reached
<1>2. CASE KickFails(c)
  BY <1>2 DEF KickFails, Startable
<1>3. CASE IntentFolds(c)
  BY <1>3 DEF IntentFolds
<1>4. CASE SyncRow(c)
  BY <1>4 DEF SyncRow
<1>5. CASE OperatorCancels(c)
  BY <1>5 DEF OperatorCancels
<1>6. CASE \E st \in Ends : ChildEnds(c, st)
  BY <1>6 DEF ChildEnds
<1>7. CASE AlarmDrives(c)
  BY <1>7 DEF AlarmDrives
<1>8. CASE \E row \in {"running", "waiting"} : ChildRests(c, row)
  BY <1>8 DEF ChildRests
<1>9. QED
  BY <1>1, <1>2, <1>3, <1>4, <1>5, <1>6, <1>7, <1>8

\* The tap, the parent's cancel and its end.
LEMMA ParentKeeps ==
  ASSUME ChildInv,
         \/ ParentTap \/ ParentCancelled \/ ParentEnds
         \/ \E c \in Calls : ReturnToParent(c) \/ ReturnFails(c)
  PROVE  ChildInv' /\ StaysOver
<1> USE ChildAssumption
    DEF ChildInv, TypeOK, AnnounceInv, RowInv, BootInv, AskedInv, FailedInv, SuccessInv,
        RunsAnnounced, DetachedOutlives, Ends, Ended, StaysOver, Logs, Returned, Result,
        Fault, logs, child, memory, process, history, Live
<1>1. CASE ParentTap
  BY <1>1 DEF ParentTap, StopsChildren, LiveChildren, Reached
<1>2. CASE ParentCancelled
  BY <1>2 DEF ParentCancelled, LiveChildren, Reached
<1>3. CASE ParentEnds
  BY <1>3 DEF ParentEnds
<1>4. CASE \E c \in Calls : ReturnToParent(c) \/ ReturnFails(c)
  BY <1>4 DEF ReturnToParent, ReturnFails, Delivers
<1>5. QED
  BY <1>1, <1>2, <1>3, <1>4

\* A crash, the boot passes and the reclaims.
LEMMA RepairKeeps ==
  ASSUME ChildInv,
         \/ Crash \/ Boot \/ ScanParent \/ ScanParentFails \/ StartSweep \/ BootEnds
         \/ ParentReclaimed \/ \E c \in Calls : ScanChild(c) \/ SweepOne(c) \/ ChildReclaimed(c)
  PROVE  ChildInv' /\ StaysOver
<1> USE ChildAssumption
    DEF ChildInv, TypeOK, AnnounceInv, RowInv, BootInv, AskedInv, FailedInv, SuccessInv,
        RunsAnnounced, DetachedOutlives, Ends, Ended, StaysOver, Logs, Returned, Result,
        Fault, logs, child, memory, process, history, Live
<1>1. CASE Crash
  BY <1>1 DEF Crash
<1>2. CASE Boot
  BY <1>2 DEF Boot
<1>3. CASE ScanParent
  BY <1>3 DEF ScanParent, ParentResumed
<1>4. CASE ScanParentFails
  BY <1>4 DEF ScanParentFails
<1>5. CASE StartSweep
  BY <1>5 DEF StartSweep
<1>6. CASE BootEnds
  BY <1>6 DEF BootEnds
<1>7. CASE ParentReclaimed
  BY <1>7 DEF ParentReclaimed, ParentResumed
<1>8. CASE \E c \in Calls : ScanChild(c)
  BY <1>8 DEF ScanChild, ReconcileChild, Drives
<1>9. CASE \E c \in Calls : SweepOne(c)
  BY <1>9 DEF SweepOne, SweptKick, ReconcileChild, Drives
<1>10. CASE \E c \in Calls : ChildReclaimed(c)
  BY <1>10 DEF ChildReclaimed, ReconcileChild, Drives
<1>11. QED
  BY <1>1, <1>2, <1>3, <1>4, <1>5, <1>6, <1>7, <1>8, <1>9, <1>10

\* Every step and every stutter keeps the invariant and what is over.
LEMMA ChildInvStep == ChildInv /\ [Next]_vars => ChildInv' /\ StaysOver
<1> SUFFICES ASSUME ChildInv, [Next]_vars PROVE ChildInv' /\ StaysOver
  OBVIOUS
<1>1. CASE UNCHANGED vars
  BY <1>1
  DEF vars, logs, child, memory, process, history, Live, ChildInv, TypeOK, AnnounceInv, RowInv, BootInv,
      AskedInv, FailedInv, SuccessInv, RunsAnnounced, DetachedOutlives, Ended, StaysOver
<1>2. CASE Next
  BY <1>2, StreamKeeps, ChildKeeps, ParentKeeps, RepairKeeps DEF Next, Step, ParentStep
<1>3. QED
  BY <1>1, <1>2

\* For any number of calls, output contracts, rests, crashes, throws and operator
\* cancels: a call node tells what its child did and whether the contract was
\* met, no child runs unannounced, and nothing but an operator cancels a
\* detached one.
THEOREM ChildrenSafe == Spec => [](CallTellsChild /\ RunsAnnounced /\ DetachedOutlives)
<1>1. ChildInv => CallTellsChild /\ RunsAnnounced /\ DetachedOutlives
  BY DEF ChildInv, TypeOK, CallTellsChild, AnnounceInv, RowInv, FailedInv, SuccessInv, Ends
<1>2. QED
  BY <1>1, ChildInvInit, ChildInvStep, PTL DEF Spec

\* However announcements, kicks, boot scans and crashes interleave, no child
\* runs that its parent's log does not name.
THEOREM ChildrenAnnounced == Spec => []RunsAnnounced
BY ChildrenSafe, PTL

\* The parent's cancel, end, crash and recovery never cancel a detached child.
THEOREM DetachedSurvive == Spec => []DetachedOutlives
BY ChildrenSafe, PTL

\* No queued kick, scan, sweep or reclaim starts a child that is over.
THEOREM OverStays == Spec => OverIsOver
<1>1. ChildInv /\ [Next]_vars => [StaysOver]_vars
  BY ChildInvStep
<1>2. QED
  BY <1>1, ChildInvInit, ChildInvStep, PTL DEF Spec, OverIsOver, StaysOver
=============================================================================
