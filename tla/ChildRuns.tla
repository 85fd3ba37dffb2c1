----------------------------- MODULE ChildRuns ------------------------------
(***************************************************************************)
(* A run and the child runs its call_pipeline nodes start (run/child.ts),  *)
(* one attempt per call node: the executor's startChild stream             *)
(* (run/executor.ts), the kick under the child's drive lock, the bus tap   *)
(* that brings a child's result back and stops the children of a run that  *)
(* ended, the cancel of a parent (run/cancel-service.ts), and the boot     *)
(* scan, the boot sweep and the lease reclaim that repair what a crash     *)
(* leaves (run/reconcile.ts, scheduler/lease.ts).                          *)
(*                                                                         *)
(* A child's own work is abstract: a started child may rest on an alarm    *)
(* or end in any way, and one with a cancel pending does end.  Its log and *)
(* its row are written one after the other without an await; only a crash  *)
(* separates them (`dirty`).  Parents and documents are readable           *)
(* throughout.                                                             *)
(***************************************************************************)
EXTENDS Naturals, FiniteSets

CONSTANTS Calls,                 \* the parent's call nodes
          Detached,              \* the ones with wait: false
          Contracts,             \* the ones that declare the outputs they owe
          MaxCrashes,            \* bound on the process's crashes
          MaxFaults              \* bound on throws and operator cancels together

ASSUME ChildAssumption ==
  /\ Detached \subseteq Calls /\ Contracts \subseteq Calls /\ "parent" \notin Calls
  /\ MaxCrashes \in Nat /\ MaxFaults \in Nat

VARIABLES
  parent,     \* the parent's log: "live" or "ended"
  cancel,     \* the parent's log: run.cancelRequested, "none" or "requested"
  call,       \* the parent's log: status of each call node
  announced,  \* the parent's log: calls with a call.started
  unmet,      \* the calls whose contract the outputs they get do not meet: of
              \*   its child, or none at all when it detaches
  clog,       \* each child's log: "empty", "started" or how it ended
  crow,       \* each child's row: "none", "pending", "running", "waiting" or "over"
  dirty,      \* the children whose log is written and whose row is not
  stream,     \* where the startChild stream of each call stands
  kicks,      \* the kicks queued on a child's drive lock
  driven,     \* the children with a drive
  told,       \* published ends ("parent" for its own) the tap has yet to take
  intent,     \* the children with a cancel intent
  host,       \* "up", "scan" or "sweep" (the two boot passes), or "down"
  todo,       \* the rest of the boot pass's snapshot
  asked,      \* history: the children an operator cancelled
  slept,      \* history: the attached children parked at a boot after their parent's end
  downs, faults

logs    == <<parent, cancel, call, announced>>
child   == <<clog, crow, dirty>>
memory  == <<stream, kicks, driven, told, intent>>
process == <<host, todo, downs>>
history == <<asked, slept>>
vars    == <<logs, child, memory, process, history, unmet, faults>>

\* An interrupted child is a failure to its parent.
Ends == {"success", "failure", "cancelled"}

Ended(c) == clog[c] \in Ends

\* A row that is neither missing nor over.
Live == {"pending", "running", "waiting"}

AtAwait == dirty = {} /\ host # "down"

Idle == \A c \in Calls : stream[c] = "none"

Fault == faults < MaxFaults /\ faults' = faults + 1

\* Mutant of Reached: detachment is not consulted.
ReachedAll(c) == c \in announced

\* parentCancelReachesChild, for a child the parent announced.
Reached(c) == c \in announced /\ c \notin Detached

\* cancelLiveChildren
LiveChildren == {c \in Calls : Reached(c) /\ crow[c] \in Live /\ ~Ended(c)}

\* A child's log takes an event; the row is synced next.
Logs(c, st) == clog' = [clog EXCEPT ![c] = st] /\ dirty' = {c}

\* A drive takes the child on; a row that says so needs no sync.
Drives(c) ==
  /\ clog' = [clog EXCEPT ![c] = "started"] /\ driven' = driven \cup {c}
  /\ dirty' = {d \in {c} : crow[d] # "running"}

\* result: anything but a success fails the call node; a node has no
\* cancelled status.
Result(c) == IF clog[c] = "success" THEN "success" ELSE "failure"

\* onCallReturned and onCallDetached resolve a node that waits.  Outputs that
\* break its declared contract fail it, whatever the outcome: the child's, or
\* the empty ones of a detach.
Returned(c, st) ==
  call' = [call EXCEPT ![c] = IF @ # "waiting" THEN @ ELSE IF c \in unmet THEN "failure" ELSE st]

Becomes(c, st) == stream' = [stream EXCEPT ![c] = st]

-----------------------------------------------------------------------------
(* The startChild stream.                                                  *)

Emit(c) ==
  /\ parent = "live" /\ cancel = "none" /\ host = "up" /\ call[c] = "idle"
  /\ call' = [call EXCEPT ![c] = "waiting"] /\ Becomes(c, "owed")
  /\ UNCHANGED <<parent, cancel, announced, child, kicks, driven, told, intent, process, history, unmet, faults>>

\* The cancel folded while the stream sat in the queue: no child is created.
NeverStarted(c) ==
  /\ stream[c] = "owed" /\ cancel # "none"
  /\ Returned(c, "failure") /\ Becomes(c, "none")
  /\ UNCHANGED <<parent, cancel, announced, child, kicks, driven, told, intent, process, history, unmet, faults>>

\* ensure refuses: no row is created and the call fails.
Refuse(c) ==
  /\ stream[c] = "owed" /\ cancel = "none" /\ crow[c] = "none"
  /\ Returned(c, "failure") /\ Becomes(c, "none")
  /\ UNCHANGED <<parent, cancel, announced, child, kicks, driven, told, intent, process, history, unmet, faults>>

\* ensure creates the row, or adopts one its announcement is missing for.
Create(c) ==
  /\ stream[c] = "owed" /\ cancel = "none"
  /\ crow[c] = "none" \/ (crow[c] # "over" /\ c \notin announced)
  /\ crow' = [crow EXCEPT ![c] = IF @ = "none" THEN "pending" ELSE @]
  /\ Becomes(c, "announce")
  /\ UNCHANGED <<logs, clog, dirty, kicks, driven, told, intent, process, history, unmet, faults>>

\* ensure adopts an announced child that is not over.
Adopt(c) ==
  /\ stream[c] = "owed" /\ cancel = "none"
  /\ crow[c] \in Live /\ c \in announced
  /\ Becomes(c, "kick")
  /\ UNCHANGED <<logs, child, kicks, driven, told, intent, process, history, unmet, faults>>

\* ensure finds the child over: its result, or the detach, resolves the call.
AdoptEnded(c) ==
  /\ stream[c] = "owed" /\ cancel = "none" /\ crow[c] = "over"
  /\ Returned(c, IF c \in Detached THEN "success" ELSE Result(c)) /\ Becomes(c, "none")
  /\ UNCHANGED <<parent, cancel, announced, child, kicks, driven, told, intent, process, history, unmet, faults>>

Announce(c) ==
  /\ stream[c] = "announce" /\ announced' = announced \cup {c} /\ Becomes(c, "kick")
  /\ UNCHANGED <<parent, cancel, call, child, kicks, driven, told, intent, process, history, unmet, faults>>

\* The kick is queued before the detach is offered; a parent that ended in
\* between drops the detach.
Kick(c) ==
  /\ stream[c] = "kick" /\ kicks' = kicks \cup {c}
  /\ Becomes(c, IF c \in Detached /\ parent = "live" THEN "detach" ELSE "none")
  /\ UNCHANGED <<logs, child, driven, told, intent, process, history, unmet, faults>>

Detach(c) ==
  /\ stream[c] = "detach" /\ Returned(c, "success") /\ Becomes(c, "none")
  /\ UNCHANGED <<parent, cancel, announced, child, kicks, driven, told, intent, process, history, unmet, faults>>

-----------------------------------------------------------------------------
(* The child.                                                              *)

\* Mutant of Startable: only the log is checked under the lock.
StartableByLog(c) == clog[c] = "empty"

Startable(c) == clog[c] = "empty" /\ crow[c] # "over"

\* requestCancelFromParent, or an intent that is already there.
StartsCancelled(c) == c \in intent \/ (Reached(c) /\ (parent = "ended" \/ cancel # "none"))

\* kick, under the child's drive lock.  A drive finds nothing to do in a
\* parked child.
KickRuns(c) ==
  /\ c \in kicks /\ kicks' = kicks \ {c}
  /\ CASE Startable(c) /\ StartsCancelled(c) ->
            /\ Logs(c, "cancelled") /\ told' = told \cup {c} /\ intent' = intent \ {c}
            /\ UNCHANGED driven
       [] Startable(c) /\ ~StartsCancelled(c) ->
            Drives(c) /\ UNCHANGED <<told, intent>>
       [] clog[c] = "started" /\ crow[c] \in {"pending", "running"} ->
            Drives(c) /\ UNCHANGED <<told, intent>>
       [] OTHER -> UNCHANGED <<clog, dirty, driven, told, intent>>
  /\ UNCHANGED <<logs, crow, stream, process, history, unmet, faults>>

\* startRun threw before its first event: the row is patched, nothing is
\* logged and nothing published.
KickFails(c) ==
  /\ c \in kicks /\ Startable(c) /\ Fault
  /\ kicks' = kicks \ {c} /\ crow' = [crow EXCEPT ![c] = "over"]
  /\ UNCHANGED <<logs, clog, dirty, stream, driven, told, intent, process, history, unmet>>

\* syncRunLifecycle
SyncRow(c) ==
  /\ c \in dirty /\ dirty' = {}
  /\ crow' = [crow EXCEPT ![c] = IF Ended(c) THEN "over" ELSE "running"]
  /\ UNCHANGED <<logs, clog, memory, process, history, unmet, faults>>

\* A cancelled child finishes cancelled only when it was asked to.  What a
\* successful one hands its caller may break the caller's contract.
ChildEnds(c, st) ==
  /\ c \in driven /\ clog[c] = "started" /\ (st = "cancelled" => c \in intent)
  /\ Logs(c, st) /\ told' = told \cup {c}
  /\ driven' = driven \ {c} /\ intent' = intent \ {c}
  /\ \/ UNCHANGED unmet
     \/ st = "success" /\ c \in Contracts \ Detached /\ unmet' = unmet \cup {c}
  /\ UNCHANGED <<logs, crow, stream, kicks, process, history, faults>>

\* The drive rests: parked on a wait (run.waiting), or held on a retry, which
\* leaves the row running.  A pump folds a pending cancel before it may rest.
ChildRests(c, row) ==
  /\ c \in driven \ intent /\ clog[c] = "started"
  /\ driven' = driven \ {c} /\ crow' = [crow EXCEPT ![c] = row]
  /\ UNCHANGED <<logs, clog, dirty, stream, kicks, told, intent, process, history, unmet, faults>>

\* The alarm's fold, its row and its drive: nothing here asks for the parent.
AlarmDrives(c) ==
  /\ host = "up" /\ clog[c] = "started" /\ c \notin driven /\ crow[c] \in {"running", "waiting"}
  /\ driven' = driven \cup {c} /\ crow' = [crow EXCEPT ![c] = "running"]
  /\ UNCHANGED <<logs, clog, dirty, stream, kicks, told, intent, process, history, unmet, faults>>

\* The cancel's own drive ends a child that has no other: one that never
\* started, or one at rest, which the cancel un-parks first.
IntentFolds(c) ==
  /\ c \in intent \ driven /\ ~Ended(c) /\ crow[c] \in Live
  /\ crow' = [crow EXCEPT ![c] = IF @ = "waiting" THEN "running" ELSE @]
  /\ Logs(c, "cancelled") /\ told' = told \cup {c} /\ intent' = intent \ {c}
  /\ UNCHANGED <<logs, stream, kicks, driven, process, history, unmet, faults>>

\* No request is served between two microtasks of the announcement.
OperatorCancels(c) ==
  /\ host = "up" /\ \A d \in Calls : stream[d] \notin {"announce", "kick"}
  /\ crow[c] \in Live /\ ~Ended(c) /\ Fault
  /\ intent' = intent \cup {c} /\ asked' = asked \cup {c}
  /\ UNCHANGED <<logs, child, stream, kicks, driven, told, process, slept, unmet>>

-----------------------------------------------------------------------------
(* The tap on the bus.                                                     *)

\* Mutant of Delivers: a detached child's early end resolves the call too.
DeliversDetached(c) == c \in announced /\ parent = "live"

Delivers(c) == c \in announced /\ parent = "live" /\ c \notin Detached

ReturnToParent(c) ==
  /\ c \in told /\ told' = told \ {c}
  /\ IF Delivers(c) THEN Returned(c, Result(c)) ELSE UNCHANGED call
  /\ UNCHANGED <<parent, cancel, announced, child, stream, kicks, driven, intent, process, history, unmet, faults>>

ReturnFails(c) ==
  /\ c \in told /\ Fault /\ told' = told \ {c}
  /\ UNCHANGED <<logs, child, stream, kicks, driven, intent, process, history, unmet>>

\* Mutant of StopsChildren: an ended parent leaves its children running.
LeavesChildren == told' = told \ {"parent"} /\ UNCHANGED intent

StopsChildren == told' = told \ {"parent"} /\ intent' = intent \cup LiveChildren

ParentTap ==
  /\ "parent" \in told /\ StopsChildren
  /\ UNCHANGED <<logs, child, stream, kicks, driven, process, history, unmet, faults>>

\* The cancel's fold reaches the children in the same turn.
ParentCancelled ==
  /\ host = "up" /\ parent = "live" /\ cancel = "none" /\ cancel' = "requested"
  /\ intent' = intent \cup LiveChildren
  /\ UNCHANGED <<parent, call, announced, child, stream, kicks, driven, told, process, history, unmet, faults>>

\* The parent finishes, or its pump throws; the events its streams still
\* offer are dropped, a kick already due is not.
ParentEnds ==
  /\ parent = "live" /\ parent' = "ended"
  /\ \/ (\A c \in Calls : call[c] # "waiting") /\ UNCHANGED faults
     \/ Fault
  /\ stream' = [c \in Calls |-> IF stream[c] = "kick" THEN "kick" ELSE "none"]
  /\ told' = told \cup {"parent"}
  /\ UNCHANGED <<cancel, call, announced, child, kicks, driven, intent, process, history, unmet>>

-----------------------------------------------------------------------------
(* A crash and what repairs it.                                            *)

Crash ==
  /\ host # "down" /\ downs < MaxCrashes /\ downs' = downs + 1
  /\ host' = "down" /\ todo' = {} /\ dirty' = {}
  /\ stream' = [c \in Calls |-> "none"]
  /\ kicks' = {} /\ driven' = {} /\ told' = {} /\ intent' = {}
  /\ UNCHANGED <<logs, clog, crow, history, unmet, faults>>

\* The scan takes the running rows; a parked child is left to its alarm.
Boot ==
  /\ host = "down" /\ host' = "scan"
  /\ todo' = {c \in Calls : crow[c] = "running"} \cup {p \in {"parent"} : parent = "live"}
  /\ slept' = slept \cup {c \in Calls \ Detached : crow[c] = "waiting" /\ parent = "ended"}
  /\ UNCHANGED <<logs, child, memory, downs, asked, unmet, faults>>

\* Mutant of ParentResumed: a call with a child is left to the tap.
ParentResumedNew ==
  IF cancel = "none"
    THEN /\ stream' = [c \in Calls |-> IF call[c] = "waiting" /\ c \notin announced THEN "owed" ELSE stream[c]]
         /\ UNCHANGED call
    ELSE /\ call' = [c \in Calls |-> IF call[c] = "waiting" THEN "failure" ELSE call[c]]
         /\ UNCHANGED stream

\* run.resumed: every waiting call is emitted again, or failed under a cancel.
ParentResumed ==
  IF cancel = "none"
    THEN /\ stream' = [c \in Calls |-> IF call[c] = "waiting" /\ stream[c] = "none" THEN "owed" ELSE stream[c]]
         /\ UNCHANGED call
    ELSE /\ call' = [c \in Calls |-> IF call[c] = "waiting" THEN "failure" ELSE call[c]]
         /\ UNCHANGED stream

\* The scan resumes the parent and awaits its pump.
ScanParent ==
  /\ host = "scan" /\ "parent" \in todo /\ todo' = todo \ {"parent"}
  /\ IF parent = "live" THEN ParentResumed ELSE UNCHANGED <<call, stream>>
  /\ UNCHANGED <<parent, cancel, announced, child, kicks, driven, told, intent, host, downs, history, unmet, faults>>

\* A transient fault is filed and the parent left for its lease.
ScanParentFails ==
  /\ host = "scan" /\ "parent" \in todo /\ todo' = todo \ {"parent"} /\ Fault
  /\ UNCHANGED <<logs, child, memory, host, downs, history, unmet>>

\* reconcileOne for a child with a log: the row follows a log that ended, a
\* child whose parent is over is cancelled, any other is driven.
ReconcileChild(c) ==
  IF Ended(c)
    THEN crow' = [crow EXCEPT ![c] = "over"] /\ UNCHANGED <<clog, dirty, driven, told>>
    ELSE /\ UNCHANGED crow
         /\ IF parent = "ended" /\ c \notin Detached
              THEN Logs(c, "cancelled") /\ told' = told \cup {c} /\ driven' = driven \ {c}
              ELSE Drives(c) /\ UNCHANGED told

ScanChild(c) ==
  /\ host = "scan" /\ c \in todo /\ todo' = todo \ {c}
  /\ ReconcileChild(c)
  /\ UNCHANGED <<logs, stream, kicks, intent, host, downs, history, unmet, faults>>

StartSweep ==
  /\ host = "scan" /\ todo = {} /\ Idle /\ host' = "sweep"
  /\ todo' = {c \in Calls : crow[c] = "pending"}
  /\ UNCHANGED <<logs, child, memory, downs, history, unmet, faults>>

\* Mutant of SweptKick: a never-started detached child is left pending.
SweptKickNever(c) == FALSE

\* Mutant of SweptKick: an orphan nobody announced is started too.
SweptKickAny(c) == c \in Detached

\* The announcement names the call node, the document says it detaches.
SweptKick(c) == c \in Detached /\ c \in announced

\* sweepOne, under the child's drive lock.
SweepOne(c) ==
  /\ host = "sweep" /\ c \in todo /\ todo' = todo \ {c}
  /\ IF clog[c] # "empty"
       THEN ReconcileChild(c) /\ UNCHANGED kicks
       ELSE /\ kicks' = IF SweptKick(c) THEN kicks \cup {c} ELSE kicks
            /\ crow' = IF ~SweptKick(c) /\ parent = "ended"
                         THEN [crow EXCEPT ![c] = "over"] ELSE crow
            /\ UNCHANGED <<clog, dirty, driven, told>>
  /\ UNCHANGED <<logs, stream, intent, host, downs, history, unmet, faults>>

BootEnds ==
  /\ host = "sweep" /\ todo = {} /\ host' = "up"
  /\ UNCHANGED <<logs, child, memory, todo, downs, history, unmet, faults>>

\* A parent without a drive loses its lease and is reconciled; the alarm of
\* another node resumes it the same way.
ParentReclaimed ==
  /\ host = "up" /\ parent = "live" /\ Idle /\ \E c \in Calls : call[c] = "waiting"
  /\ ParentResumed
  /\ UNCHANGED <<parent, cancel, announced, child, kicks, driven, told, intent, process, history, unmet, faults>>

ChildReclaimed(c) ==
  /\ host = "up" /\ crow[c] = "running" /\ c \notin driven /\ ReconcileChild(c)
  /\ UNCHANGED <<logs, stream, kicks, intent, process, history, unmet, faults>>

-----------------------------------------------------------------------------
Init ==
  /\ parent = "live" /\ cancel = "none" /\ call = [c \in Calls |-> "idle"] /\ announced = {}
  /\ unmet \in SUBSET (Contracts \cap Detached)
  /\ clog = [c \in Calls |-> "empty"] /\ crow = [c \in Calls |-> "none"] /\ dirty = {}
  /\ stream = [c \in Calls |-> "none"]
  /\ kicks = {} /\ driven = {} /\ told = {} /\ intent = {}
  /\ host = "up" /\ todo = {} /\ asked = {} /\ slept = {} /\ downs = 0 /\ faults = 0

Stream(c) ==
  \/ NeverStarted(c) \/ Refuse(c) \/ Create(c) \/ Adopt(c) \/ AdoptEnded(c)
  \/ Announce(c) \/ Kick(c) \/ Detach(c)

Step(c) ==
  \/ Emit(c) \/ Stream(c) \/ KickRuns(c) \/ KickFails(c) \/ IntentFolds(c)
  \/ \E st \in Ends : ChildEnds(c, st)
  \/ \E row \in {"running", "waiting"} : ChildRests(c, row)
  \/ AlarmDrives(c)
  \/ OperatorCancels(c) \/ ReturnToParent(c) \/ ReturnFails(c)
  \/ ScanChild(c) \/ SweepOne(c) \/ ChildReclaimed(c)

ParentStep ==
  ParentTap \/ ParentCancelled \/ ParentEnds \/ ScanParent \/ ScanParentFails \/ StartSweep \/ BootEnds \/ ParentReclaimed

Next ==
  \/ AtAwait /\ (ParentStep \/ \E c \in Calls : Step(c))
  \/ \E c \in Calls : SyncRow(c)
  \/ Crash \/ Boot

Spec == Init /\ [][Next]_vars

\* Streams, kicks, cancels, the tap, the boot passes and the reclaims are the
\* process's own; the operator restarts it.  A child need not end by itself,
\* one that is asked to cancel does.
Fairness ==
  /\ \A c \in Calls :
       /\ WF_vars(SyncRow(c)) /\ WF_vars(AtAwait /\ Stream(c)) /\ WF_vars(AtAwait /\ KickRuns(c))
       /\ WF_vars(AtAwait /\ IntentFolds(c)) /\ WF_vars(AtAwait /\ ChildEnds(c, "cancelled"))
       /\ WF_vars(AtAwait /\ ReturnToParent(c)) /\ WF_vars(AtAwait /\ ChildReclaimed(c))
       /\ WF_vars(AtAwait /\ (ScanChild(c) \/ SweepOne(c)))
  /\ WF_vars(AtAwait /\ ParentTap) /\ WF_vars(AtAwait /\ ParentReclaimed)
  /\ WF_vars(AtAwait /\ (ScanParent \/ StartSweep \/ BootEnds)) /\ WF_vars(Boot)

FairSpec == Spec /\ Fairness

-----------------------------------------------------------------------------

\* Every variable keeps its type.
TypeOK ==
  /\ parent \in {"live", "ended"} /\ cancel \in {"none", "requested"}
  /\ call \in [Calls -> {"idle", "waiting", "success", "failure"}]
  /\ announced \subseteq Calls /\ unmet \subseteq Contracts
  /\ clog \in [Calls -> {"empty", "started"} \cup Ends]
  /\ crow \in [Calls -> {"none", "over"} \cup Live] /\ dirty \subseteq Calls
  /\ stream \in [Calls -> {"none", "owed", "announce", "kick", "detach"}]
  /\ kicks \subseteq Calls /\ driven \subseteq Calls /\ intent \subseteq Calls
  /\ told \subseteq Calls \cup {"parent"}
  /\ host \in {"up", "scan", "sweep", "down"} /\ todo \subseteq Calls \cup {"parent"}
  /\ asked \subseteq Calls /\ slept \subseteq Calls \ Detached /\ downs \in Nat /\ faults \in Nat

\* A call node that waits for its child says what the child did: it succeeds
\* only over a child that succeeded with outputs its contract accepts, and fails
\* over one that succeeded only for that contract or under the parent's cancel.
\* A detached call takes nothing from its child: once announced it fails only
\* for those two reasons, however the child ended.
CallTellsChild ==
  /\ TypeOK
  /\ \A c \in Calls : call[c] = "success" => c \notin unmet /\ (c \in Detached \/ clog[c] = "success")
  /\ \A c \in Calls \ Detached :
       call[c] = "failure" /\ clog[c] = "success" => cancel # "none" \/ c \in unmet
  /\ \A c \in Detached : call[c] = "failure" /\ c \in announced => cancel # "none" \/ c \in unmet

\* Only an operator stops a detached child: the parent's cancel, its end and
\* the boot repair all leave it to finish.
DetachedOutlives == \A c \in Detached : clog[c] = "cancelled" => c \in asked

\* A child runs only once its parent's log says so: without the announcement
\* its result could reach no call node.
RunsAnnounced == \A c \in Calls : clog[c] \in (Ends \ {"cancelled"}) \cup {"started"} => c \in announced

\* A child that is over is never started again: not by a kick that was
\* queued before, not by the scan, the sweep or a reclaim.
OverIsOver == [][\A c \in Calls : crow[c] = "over" => crow'[c] = "over" /\ clog'[c] = clog[c]]_vars

\* The result of a child that ended reaches the call node that waits for it,
\* though its parent be down, the event come first or the delivery fail.
ResultArrives ==
  \A c \in Calls :
    (call[c] = "waiting" /\ Ended(c)) ~> (call[c] # "waiting" \/ parent = "ended")

\* Once the parent is over no attached child of it goes on working, parked
\* children and crashes included; only one that a boot found parked after that
\* end may (OrphanNeverWorks).
EndStopsChildren ==
  \A c \in Calls \ Detached :
    (parent = "ended" /\ clog[c] = "started") ~> (Ended(c) \/ c \in slept)

\* What the reconciler's comment promises: a child whose parent was over when
\* the process restarted is cancelled, never driven again.
OrphanNeverWorks == slept \cap driven = {}

\* A detached call that succeeded has its child started, or given up on the
\* record, whatever crash fell between the detach and the kick.
DetachedStarts ==
  \A c \in Detached : call[c] = "success" ~> (clog[c] # "empty" \/ crow[c] = "over")
=============================================================================
