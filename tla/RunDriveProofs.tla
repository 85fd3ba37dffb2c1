--------------------------- MODULE RunDriveProofs ---------------------------
(***************************************************************************)
(* Proofs about RunDrive for every document, retry budget, concurrency     *)
(* limit and number of crashes and thrown writes: every reachable state is *)
(* well typed, a cancel in the log stops all further work, and a pending   *)
(* cancel intent is never forgotten.                                       *)
(***************************************************************************)
EXTENDS RunDrive, RunReducerProofs

LEMMA EventTypes ==
  /\ \A t \in RunEventType : RunEvent(t) \in Event /\ RunEvent(t).type = t
  /\ \A t \in NodeEventType, n \in Nodes, k \in Nat :
       NodeEvent(t, n, k) \in Event /\ NodeEvent(t, n, k).type = t
  /\ \A n \in Nodes, k \in Nat, f \in FailureKind :
       FailedEvent(n, k, f) \in Event /\ FailedEvent(n, k, f).type = "node.failed"
  /\ \A o \in {"success", "failure", "cancelled"} :
       FinishedEvent(o) \in Event /\ FinishedEvent(o).type = "run.finished"
BY DEF RunEvent, NodeEvent, FailedEvent, FinishedEvent, Event

LEMMA SeedType == Seed \in RunState
BY DEF Seed, RunState, RunStatus, NodeState, NodeStatus

LEMMA LogsType ==
  ASSUME TypeOK, NEW e \in Event, Logs(e)
  PROVE  proj' \in RunState
BY ReduceType DEF TypeOK, Logs, FoldResult

LEMMA FoldsType ==
  ASSUME TypeOK, NEW r \in FoldResult, Folds(r)
  PROVE  mem' \in RunState /\ todo' \subseteq Command /\ ending' \in Ending
BY DEF TypeOK, Folds, FoldResult

LEMMA AppendAndFoldType ==
  ASSUME TypeOK, NEW e \in Event, AppendAndFold(e)
  PROVE  /\ proj' \in RunState /\ mem' \in RunState
         /\ todo' \subseteq Command /\ ending' \in Ending /\ dirty' \in BOOLEAN
<1>1. Reduce(mem, e) \in FoldResult
  BY ReduceType DEF TypeOK
<1> QED BY <1>1, LogsType, FoldsType DEF AppendAndFold

\* What TerminalizeInterrupted and SyncTo leave behind is typed.
LEMMA TerminalizeType ==
  ASSUME TypeOK, TerminalizeInterrupted
  PROVE  /\ proj' \in RunState /\ mem' \in RunState
         /\ fact' \in Terminal \cup {"none"} /\ ctx' \in BOOLEAN /\ row' \in RunStatus
         /\ dirty' \in BOOLEAN
         /\ pc' = "release"
<1>1. CASE UNCHANGED <<durable, mem, dirty>>
  BY <1>1 DEF TypeOK, TerminalizeInterrupted, durable
<1>2. CASE row' = "interrupted" /\ UNCHANGED <<proj, fact, ctx, mem, dirty>>
  BY <1>2 DEF TypeOK, TerminalizeInterrupted, RunStatus, Terminal
<1>3. CASE fact # "none" /\ SyncTo(fact) /\ UNCHANGED durable
  <2>1. [proj EXCEPT !.status = fact] \in RunState
    BY <1>3 DEF TypeOK, RunState, RunStatus
  <2> QED BY <1>3, <2>1 DEF TypeOK, TerminalizeInterrupted, SyncTo, durable
<1>4. CASE /\ Logs(RunEvent("run.interrupted")) /\ fact' = "interrupted"
           /\ mem' = proj' /\ dirty' = TRUE /\ UNCHANGED <<ctx, row>>
  <2>1. proj' \in RunState
    BY <1>4, LogsType, EventTypes DEF RunEventType
  <2> QED BY <1>4, <2>1 DEF TypeOK, TerminalizeInterrupted, Terminal
<1> QED BY <1>1, <1>2, <1>3, <1>4 DEF TerminalizeInterrupted
-----------------------------------------------------------------------------
(* Type correctness, one step per action.                                  *)

LEMMA StartType ==
  ASSUME TypeOK, StartSteps
  PROVE  TypeOK'
<1> USE DEF durable, alarms, queueing, pumping, cancels, history, counters
<1>1. CASE StartRefused
  BY <1>1, TerminalizeType DEF StartRefused, TypeOK, StreamsType
<1>2. CASE StartCancelled
  BY <1>2, AppendAndFoldType, EventTypes DEF StartCancelled, TypeOK, StreamsType, RunEventType
<1>3. CASE StartContext
  BY <1>3 DEF StartContext, TypeOK, StreamsType
<1>4. CASE StartRun
  BY <1>4, AppendAndFoldType, EventTypes DEF StartRun, TypeOK, StreamsType, RunEventType
<1> QED BY <1>1, <1>2, <1>3, <1>4 DEF StartSteps

LEMMA SyncToType ==
  ASSUME TypeOK, fact # "none", SyncTo(fact)
  PROVE  mem' \in RunState /\ dirty' \in BOOLEAN
<1>1. [proj EXCEPT !.status = fact] \in RunState
  BY DEF TypeOK, RunState, RunStatus
<1> QED BY <1>1 DEF SyncTo

LEMMA ResumeType ==
  ASSUME NEW s \in RunState
  PROVE  LET r == Reduce(s, RunEvent("run.resumed")) IN
         r.state \in RunState /\ r.todo \subseteq Command /\ r.end \in Ending
BY ReduceType, EventTypes DEF RunEventType, FoldResult

LEMMA LockType ==
  ASSUME TypeOK, LockSteps
  PROVE  TypeOK'
<1> USE DEF durable, alarms, queueing, pumping, cancels, history, counters
<1>1. CASE Acquire
  <2>1. lockq' \in Seq(Jobs) /\ job' \in Jobs
    BY <1>1 DEF Acquire, TypeOK
  <2>2. /\ proj' \in RunState /\ mem' \in RunState
        /\ fact' \in Terminal \cup {"none"} /\ ctx' \in BOOLEAN /\ row' \in RunStatus
        /\ dirty' \in BOOLEAN
        /\ pc' \in {"release", "enter", "reconcile"}
    BY <1>1, TerminalizeType, SyncToType DEF Acquire, TypeOK
  <2> QED BY <1>1, <2>1, <2>2 DEF Acquire, TypeOK, StreamsType
<1>2. CASE EnterCancel
  BY <1>2, AppendAndFoldType, EventTypes DEF EnterCancel, TypeOK, StreamsType, RunEventType
<1>3. CASE EnterResume
  <2>1. mem' \in RunState /\ todo' \subseteq Command /\ ending' \in Ending
    BY <1>3, ResumeType DEF EnterResume, TypeOK
  <2> QED BY <1>3, <2>1 DEF EnterResume, TypeOK, StreamsType
<1>4. CASE Release
  BY <1>4, SeedType DEF Release, TypeOK, StreamsType
<1>5. CASE SyncRow
  <2>1. row' \in RunStatus
    BY <1>5 DEF SyncRow, TypeOK, RunState
  <2> QED BY <1>5, <2>1 DEF SyncRow, TypeOK, StreamsType
<1> QED BY <1>1, <1>2, <1>3, <1>4, <1>5 DEF LockSteps

LEMMA PumpType ==
  ASSUME TypeOK, PumpSteps
  PROVE  TypeOK'
<1> USE DEF durable, alarms, queueing, pumping, cancels, history, counters
<1>0. StreamsType
  BY DEF TypeOK
<1>1. CASE AppendScheduled
  <2>1. PICK e \in Event : AppendAndFold(e)
    BY <1>1, EventTypes DEF AppendScheduled, TypeOK, Command, NodeEventType
  <2> QED BY <1>1, <2>1, AppendAndFoldType DEF AppendScheduled, TypeOK, StreamsType
<1>2. CASE Park
  BY <1>2, AppendAndFoldType, EventTypes DEF Park, TypeOK, StreamsType, RunEventType
<1>3. CASE FinishRun
  <2> DEFINE outcome == Accepted(mem, ending)
  <2>1. outcome \in {"success", "failure", "cancelled"}
    BY <1>3 DEF FinishRun, Accepted
  <2>2. AppendAndFold(FinishedEvent(outcome)) /\ fact' = outcome
    BY <1>3 DEF FinishRun
  <2>3. FinishedEvent(outcome) \in Event
    BY <2>1, EventTypes
  <2> HIDE DEF outcome
  <2>4. fact' \in Terminal
    BY <2>1, <2>2 DEF Terminal
  <2> QED BY <1>3, <2>2, <2>3, <2>4, AppendAndFoldType DEF FinishRun, TypeOK, StreamsType
<1>4. CASE FoldMarker
  <2>1. StreamsType'
    <3>1. ASSUME NEW n \in Nodes
          PROVE  /\ [streams[n] EXCEPT !.ab = @ \/ Registered(n)] \in Stream
                 /\ [streams[n] EXCEPT !.ab = @ \/ Registered(n)].ph = streams[n].ph
                 /\ [streams[n] EXCEPT !.ab = @ \/ Registered(n)].out = streams[n].out
      BY <1>0 DEF StreamsType, Stream, Registered
    <3> QED BY <1>0, <1>4, <3>1 DEF FoldMarker, AbortRun, StreamsType
  <2>2. AppendAndFold(RunEvent("run.cancelRequested"))
    BY <1>4 DEF FoldMarker
  <2>3. RunEvent("run.cancelRequested") \in Event
    BY EventTypes DEF RunEventType
  <2> QED BY <1>4, <2>1, <2>2, <2>3, AppendAndFoldType DEF FoldMarker, TypeOK
<1>5. CASE PumpEnd
  BY <1>5 DEF PumpEnd, TypeOK, StreamsType
<1>6. CASE PumpReturn
  BY <1>6, TerminalizeType DEF PumpReturn, TypeOK, StreamsType
<1>7. ASSUME NEW n \in Nodes, Spawn(n)
      PROVE  TypeOK'
  <2>1. PICK c \in todo :
          /\ todo' = todo \ {c}
          /\ streams' = [streams EXCEPT ![n] = [NoStream EXCEPT !.ph = "queued", !.att = c.att]]
    BY <1>7 DEF Spawn
  <2>2. /\ [NoStream EXCEPT !.ph = "queued", !.att = c.att] \in Stream
        /\ [NoStream EXCEPT !.ph = "queued", !.att = c.att].ph = "queued"
    BY <2>1 DEF TypeOK, Command, NoStream, Stream, Phases
  <2>3. StreamsType'
    BY <1>0, <2>1, <2>2 DEF StreamsType
  <2> QED BY <1>7, <2>1, <2>3 DEF Spawn, TypeOK
<1>8. ASSUME NEW n \in Nodes, Arm(n)
      PROVE  TypeOK'
  <2>1. PICK c \in todo : ArmAlarm(n, c.att) /\ hand' = c /\ todo' = todo \ {c}
    BY <1>8 DEF Arm
  <2>2. <<n, c.att>> \in Nodes \X Nat
    BY <2>1 DEF TypeOK, Command
  <2>3. armed' \subseteq Nodes \X Nat /\ spent' \subseteq Nodes \X Nat
    BY <2>1, <2>2 DEF ArmAlarm, TypeOK
  <2> QED BY <1>8, <2>1, <2>3 DEF Arm, TypeOK, StreamsType
<1>9. ASSUME NEW n \in Nodes, FoldStream(n)
      PROVE  TypeOK'
  <2>1. streams[n] \in Stream /\ (streams[n].ph = "offerR" => streams[n].out \in Results)
    BY <1>0 DEF StreamsType
  <2>2. OfferedEvent(n) \in Event
    BY <1>9, <2>1, EventTypes DEF FoldStream, OfferedEvent, Stream, Results, FailureKind,
                                  NodeEventType
  <2>3. StreamsType'
    <3>1. /\ [streams[n] EXCEPT !.ph = "slot"] \in Stream
          /\ [streams[n] EXCEPT !.ph = "slot"].ph = "slot"
          /\ NoStream \in Stream /\ NoStream.ph = "none"
      BY <2>1 DEF Stream, NoStream, Phases
    <3> QED BY <1>0, <1>9, <3>1 DEF FoldStream, StreamsType
  <2>4. AppendAndFold(OfferedEvent(n))
    BY <1>9 DEF FoldStream
  <2> QED BY <1>9, <2>2, <2>3, <2>4, AppendAndFoldType DEF FoldStream, TypeOK
<1> QED BY <1>1, <1>2, <1>3, <1>4, <1>5, <1>6, <1>7, <1>8, <1>9 DEF PumpSteps

LEMMA StreamStepType ==
  ASSUME TypeOK, NEW n \in Nodes, NEW from \in Phases, NEW to \in Phases,
         NEW out \in Results \cup {"none"}, to = "offerR" => out \in Results,
         StreamStep(n, from, to, out)
  PROVE  TypeOK'
<1> DEFINE next == [streams[n] EXCEPT !.ph = to, !.out = out]
<1>1. next \in Stream /\ next.ph = to /\ next.out = out
  BY DEF TypeOK, StreamsType, Stream
<1>2. StreamsType'
  <2>1. streams' = [streams EXCEPT ![n] = next]
    BY DEF StreamStep
  <2> HIDE DEF next
  <2> QED BY <1>1, <2>1 DEF TypeOK, StreamsType
<1> QED
  BY <1>2 DEF StreamStep, TypeOK, durable, alarms, queueing, pumping, cancels,
              history, counters

\* A step that clears one stream and leaves the rest of the streams alone.
LEMMA ClearStreamType ==
  ASSUME TypeOK, NEW n \in Nodes, streams' = [streams EXCEPT ![n] = NoStream]
  PROVE  StreamsType'
<1>1. NoStream \in Stream /\ NoStream.ph = "none"
  BY DEF NoStream, Stream, Phases
<1> QED BY <1>1 DEF TypeOK, StreamsType

LEMMA StreamsStepType ==
  ASSUME TypeOK, StreamSteps
  PROVE  TypeOK'
<1> USE DEF durable, alarms, queueing, pumping, cancels, history, counters
<1> SUFFICES ASSUME NEW n \in Nodes,
                    OpenStream(n) \/ Preflight(n) \/ AbortQueued(n)
                    \/ StartAdapter(n) \/ AdapterEnds(n) \/ DropStream(n)
             PROVE  TypeOK'
  BY DEF StreamSteps
<1>1. CASE OpenStream(n)
  BY <1>1, StreamStepType DEF OpenStream, Phases, Results
<1>2. CASE Preflight(n)
  BY <1>2, StreamStepType DEF Preflight, Phases, Results
<1>3. CASE AbortQueued(n)
  BY <1>3, StreamStepType DEF AbortQueued, Phases, Results
<1>4. CASE StartAdapter(n)
  <2>1. streams[n] \in Stream
    BY DEF TypeOK, StreamsType
  <2>2. /\ [streams[n] EXCEPT !.ph = "exec"] \in Stream
        /\ [streams[n] EXCEPT !.ph = "exec"].ph = "exec"
    BY <2>1 DEF Stream, Phases
  <2>3. streams' = [streams EXCEPT ![n] = [streams[n] EXCEPT !.ph = "exec"]]
    BY <1>4 DEF StartAdapter
  <2>4. StreamsType'
    BY <2>2, <2>3 DEF TypeOK, StreamsType
  <2>5. <<n, streams[n].att>> \in Nodes \X Nat
    BY <2>1 DEF Stream
  <2>6. began' \subseteq Nodes \X Nat /\ again' \subseteq began'
    BY <1>4, <2>5 DEF StartAdapter, TypeOK
  <2> QED BY <1>4, <2>4, <2>6 DEF StartAdapter, TypeOK
<1>5. CASE AdapterEnds(n)
  BY <1>5, StreamStepType DEF AdapterEnds, Phases
<1>6. CASE DropStream(n)
  BY <1>6, ClearStreamType DEF DropStream, TypeOK
<1> QED BY <1>1, <1>2, <1>3, <1>4, <1>5, <1>6

LEMMA AppendJob ==
  ASSUME TypeOK, NEW j \in Jobs
  PROVE  Append(lockq, j) \in Seq(Jobs)
BY DEF TypeOK

LEMMA AlarmType ==
  ASSUME TypeOK, AlarmSteps
  PROVE  TypeOK'
<1> USE DEF durable, alarms, queueing, pumping, cancels, history, counters
<1>1. ASSUME NEW n \in Nodes, FireAlarm(n)
      PROVE  TypeOK'
  <2>1. PICK a \in armed : a[1] = n /\ Settled(a) /\ Logs(DueEvent(n, a[2]))
    BY <1>1 DEF FireAlarm
  <2>2. a \in Nodes \X Nat /\ a[2] \in Nat
    BY <2>1 DEF TypeOK
  <2>3. armed' \subseteq Nodes \X Nat /\ spent' \subseteq Nodes \X Nat
    BY <2>1, <2>2 DEF Settled, TypeOK
  <2>4. DueEvent(n, a[2]) \in Event
    BY <2>2, EventTypes DEF DueEvent, NodeEventType
  <2>5. proj' \in RunState
    BY <2>1, <2>4, LogsType
  <2>6. row' \in RunStatus
    BY <1>1, <2>5 DEF FireAlarm, RunState
  <2>7. lockq' \in Seq(Jobs)
    BY <1>1, AppendJob DEF FireAlarm, Jobs
  <2> QED BY <1>1, <2>3, <2>5, <2>6, <2>7 DEF FireAlarm, TypeOK, StreamsType
<1>2. ASSUME NEW n \in Nodes, SuppressAlarm(n)
      PROVE  TypeOK'
  <2>1. armed' \subseteq Nodes \X Nat /\ spent' \subseteq Nodes \X Nat
    BY <1>2 DEF SuppressAlarm, Settled, TypeOK
  <2> QED BY <1>2, <2>1 DEF SuppressAlarm, TypeOK, StreamsType
<1> QED BY <1>1, <1>2 DEF AlarmSteps

LEMMA ReconcileType ==
  ASSUME TypeOK, ReconcileSteps
  PROVE  TypeOK'
<1> USE DEF durable, alarms, queueing, pumping, cancels, history, counters
<1>1. CASE RcResync
  BY <1>1, SyncToType DEF RcResync, TypeOK, StreamsType
<1>2. CASE RcCancel
  BY <1>2, AppendAndFoldType, EventTypes DEF RcCancel, TypeOK, StreamsType, RunEventType
<1>3. CASE RcFinishCancelled
  <2>1. mem' \in RunState /\ todo' \subseteq Command /\ ending' \in Ending
    BY <1>3, ResumeType DEF RcFinishCancelled, TypeOK, Ending
  <2> QED BY <1>3, <2>1 DEF RcFinishCancelled, TypeOK, StreamsType
<1>4. CASE RcInterrupt
  <2>1. RunEvent("run.interrupted") \in Event
    BY EventTypes DEF RunEventType
  <2>2. proj' \in RunState
    BY <1>4, <2>1, LogsType DEF RcInterrupt
  <2>3. mem' \in RunState
    BY <1>4, <2>1, ReduceType DEF RcInterrupt, TypeOK, FoldResult
  <2> QED BY <1>4, <2>2, <2>3 DEF RcInterrupt, TypeOK, StreamsType, Terminal
<1>5. CASE RcHold
  BY <1>5 DEF RcHold, TypeOK, StreamsType
<1>6. CASE RcResume
  <2>1. RunEvent("run.resumed") \in Event
    BY EventTypes DEF RunEventType
  <2>2. proj' \in RunState
    BY <1>6, <2>1, LogsType DEF RcResume
  <2>3. mem' \in RunState /\ todo' \subseteq Command /\ ending' \in Ending
    <3>1. Reduce(mem, RunEvent("run.resumed")) \in FoldResult
      BY <2>1, ReduceType DEF TypeOK
    <3> QED BY <1>6, <3>1, FoldsType DEF RcResume
  <2> QED BY <1>6, <2>2, <2>3 DEF RcResume, TypeOK, StreamsType
<1>7. CASE RcPump
  BY <1>7 DEF RcPump, TypeOK, StreamsType
<1>8. CASE Boot
  <2>1. <<>> \in Seq(Jobs) /\ <<"reconcile">> \in Seq(Jobs)
    BY DEF Jobs
  <2>2. lockq' \in Seq(Jobs)
    BY <1>8, <2>1 DEF Boot
  <2> QED BY <1>8, <2>2 DEF Boot, TypeOK, StreamsType
<1>9. CASE BootDone
  BY <1>9 DEF BootDone, TypeOK, StreamsType
<1>10. ASSUME NEW n \in Nodes, RcFailDispatched(n)
       PROVE  TypeOK'
  <2> DEFINE e == FailedEvent(n, mem.nodes[n].att, "cancelled")
  <2>1. e \in Event
    <3>1. mem.nodes[n].att \in Nat
      BY DEF TypeOK, RunState, NodeState
    <3> QED BY <3>1, EventTypes DEF FailureKind
  <2>2. Logs(e) /\ mem' = Reduce(mem, e).state
    BY <1>10 DEF RcFailDispatched
  <2> HIDE DEF e
  <2>3. proj' \in RunState /\ mem' \in RunState
    BY <2>1, <2>2, LogsType, ReduceType DEF TypeOK, FoldResult
  <2> QED BY <1>10, <2>3 DEF RcFailDispatched, TypeOK, StreamsType
<1>11. ASSUME NEW n \in Nodes, RcRearm(n)
       PROVE  TypeOK'
  <2>1. Alarm(n) \in Nodes \X Nat
    BY DEF Alarm, TypeOK, RunState, NodeState
  <2>2. armed' \subseteq Nodes \X Nat
    BY <1>11, <2>1 DEF RcRearm, TypeOK
  <2> QED BY <1>11, <2>2 DEF RcRearm, TypeOK, StreamsType
<1>12. ASSUME NEW n \in Nodes, RcRetry(n)
       PROVE  TypeOK'
  <2> DEFINE e == NodeEvent("node.retryRequested", n, mem.nodes[n].att)
  <2>1. e \in Event
    <3>1. mem.nodes[n].att \in Nat
      BY DEF TypeOK, RunState, NodeState
    <3> QED BY <3>1, EventTypes DEF NodeEventType
  <2>2. Logs(e) /\ Folds(Reduce(mem, e))
    BY <1>12 DEF RcRetry
  <2> HIDE DEF e
  <2>3. Reduce(mem, e) \in FoldResult
    BY <2>1, ReduceType DEF TypeOK
  <2>4. /\ proj' \in RunState /\ mem' \in RunState
        /\ todo' \subseteq Command /\ ending' \in Ending
    BY <2>1, <2>2, <2>3, LogsType, FoldsType
  <2> QED BY <1>12, <2>4 DEF RcRetry, TypeOK, StreamsType
<1> QED BY <1>1, <1>2, <1>3, <1>4, <1>5, <1>6, <1>7, <1>8, <1>9, <1>10, <1>11, <1>12
        DEF ReconcileSteps

LEMMA OtherType ==
  ASSUME TypeOK, RequestCancel \/ LeaseReclaim \/ Mishaps \/ Over
  PROVE  TypeOK'
<1> USE DEF durable, alarms, queueing, pumping, cancels, history, counters
<1>1. CASE RequestCancel
  <2>1. lockq' \in Seq(Jobs)
    BY <1>1, AppendJob DEF RequestCancel, Jobs
  <2>2. marker' \in BOOLEAN /\ intent' \in BOOLEAN
    BY <1>1 DEF RequestCancel
  <2> QED BY <1>1, <2>1, <2>2 DEF RequestCancel, TypeOK, StreamsType
<1>2. CASE LeaseReclaim
  <2>1. lockq' \in Seq(Jobs)
    BY <1>2 DEF LeaseReclaim, Jobs
  <2> QED BY <1>2, <2>1 DEF LeaseReclaim, TypeOK, StreamsType
<1>3. CASE Crash
  <2>1. StreamsType'
    BY <1>3 DEF Crash, NoStreams, NoStream, StreamsType, Stream, Phases
  <2>2. lockq' \in Seq(Jobs) /\ job' \in Jobs /\ crashes' \in 0..MaxCrashes
    BY <1>3, DriveAssumption DEF Crash, TypeOK, Jobs
  <2> QED BY <1>3, <2>1, <2>2, SeedType DEF Crash, TypeOK, Ending
<1>4. CASE WriteThrows
  <2>1. faults' \in 0..MaxFaults
    BY <1>4, DriveAssumption DEF WriteThrows, TypeOK
  <2> QED BY <1>4, <2>1 DEF WriteThrows, TypeOK, StreamsType, Ending
<1>5. ASSUME NEW n \in Nodes, StreamThrows(n)
      PROVE  TypeOK'
  <2>1. faults' \in 0..MaxFaults
    BY <1>5, DriveAssumption DEF StreamThrows, TypeOK
  <2>2. StreamsType'
    BY <1>5, ClearStreamType DEF StreamThrows
  <2> QED BY <1>5, <2>1, <2>2 DEF StreamThrows, TypeOK
<1>6. CASE Over
  BY <1>6 DEF Over, vars, TypeOK, StreamsType
<1> QED BY <1>1, <1>2, <1>3, <1>4, <1>5, <1>6 DEF Mishaps

\* A step that changes nothing keeps the types.
LEMMA TypeStutter ==
  ASSUME TypeOK, UNCHANGED vars
  PROVE  TypeOK'
BY DEF TypeOK, StreamsType, vars, durable, alarms, queueing, pumping, cancels,
       history, counters

LEMMA InitType == Init => TypeOK
<1> SUFFICES ASSUME Init PROVE TypeOK
  OBVIOUS
<1>1. StreamsType
  BY DEF Init, NoStreams, NoStream, StreamsType, Stream, Phases
<1>2. crashes \in 0..MaxCrashes /\ faults \in 0..MaxFaults
  BY DriveAssumption DEF Init
<1>3. lockq \in Seq(Jobs) /\ job \in Jobs /\ hand \in {NoCommand} /\ ending \in Ending
  BY DEF Init, Jobs, Ending
<1> QED BY <1>1, <1>2, <1>3, SeedType DEF Init, TypeOK, RunStatus

LEMMA TypeStep ==
  ASSUME TypeOK, [Next]_vars
  PROVE  TypeOK'
<1>1. CASE UNCHANGED vars
  BY <1>1, TypeStutter
<1>2. CASE Next
  BY <1>2, StartType, LockType, PumpType, StreamsStepType, AlarmType, ReconcileType,
     OtherType DEF Next
<1> QED BY <1>1, <1>2

\* Every variable of the run's drive keeps its type, whatever the document, the
\* retry budgets, the slots, and the number of crashes and thrown writes: no
\* handler of the driver, the reconciler or the alarms leaves a state another
\* one cannot take.
THEOREM TypeCorrect == Spec => []TypeOK
<1>1. Init => TypeOK
  BY InitType
<1>2. TypeOK /\ [Next]_vars => TypeOK'
  BY TypeStep
<1> QED BY <1>1, <1>2, PTL DEF Spec

-----------------------------------------------------------------------------
(* Nothing starts after the cancel is logged.  CancelStopsWork is not       *)
(* inductive by itself: it needs that every stream short of its adapter is  *)
(* aborted (CancelAborts), which a stream opened later keeps only because   *)
(* the pump's own state has seen the cancel the log holds (CancelSeen).     *)

Loaded == pc \in {"enter", "reconcile", "requeue", "pump"}

\* Only a pump, or its teardown, has live streams.
StreamsUnderPump == \A n \in Nodes : Live(n) => pc \in {"pump", "drain"}

Seen == mem.status \notin Terminal /\ proj.cancel # "none" => mem.cancel # "none"

CancelSeen == Loaded => Seen

CancelAborts ==
  proj.cancel # "none" =>
    \A n \in Nodes : streams[n].ph \in {"preflight", "offerD", "slot"} => streams[n].ab

StartUncancelled == pc = "start" => proj.cancel = "none"

CancelInv == StreamsUnderPump /\ CancelSeen /\ CancelAborts /\ StartUncancelled

LEMMA LogsKeepsCancel ==
  ASSUME TypeOK, NEW e \in Event, e.type # "run.cancelRequested", Logs(e)
  PROVE  proj'.cancel = "none" <=> proj.cancel = "none"
BY CancelFlag DEF TypeOK, Logs, SameCancel

\* A fold onto the pump's state keeps what that state has seen.
LEMMA FoldKeepsSeen ==
  ASSUME TypeOK, NEW e \in Event, Logs(e), mem' = Reduce(mem, e).state, Seen
  PROVE  Seen'
<1> SUFFICES ASSUME mem'.status \notin Terminal, proj'.cancel # "none"
             PROVE  mem'.cancel # "none"
  BY DEF Seen
<1>1. mem \in RunState
  BY DEF TypeOK
<1>2. mem.status \notin Terminal
  BY <1>1, EndedStays DEF Only
<1>3. CASE e.type = "run.cancelRequested"
  BY <1>1, <1>2, <1>3, CancelFlag
<1>4. CASE e.type # "run.cancelRequested"
  BY <1>1, <1>2, <1>4, LogsKeepsCancel, CancelFlag DEF Seen
<1> QED BY <1>3, <1>4

\* Reading the log into memory sees its cancel.
LEMMA ReadSees ==
  ASSUME mem' = proj, proj' = proj
  PROVE  Seen'
BY DEF Seen

\* A resume in memory keeps what was seen.
LEMMA ResumeKeepsSeen ==
  ASSUME TypeOK, mem' = Reduce(mem, RunEvent("run.resumed")).state, proj' = proj, Seen
  PROVE  Seen'
<1>1. mem \in RunState /\ RunEvent("run.resumed") \in Event
      /\ RunEvent("run.resumed").type # "run.cancelRequested"
  BY EventTypes DEF TypeOK, RunEventType
<1>2. mem.status \in Terminal => mem' = mem
  BY <1>1, EndedStays DEF Only
<1> QED BY <1>1, <1>2, CancelFlag DEF Seen, SameCancel

\* The logged events of the drive, none of which is a cancel.
LEMMA OtherEvents ==
  /\ \A t \in RunEventType \ {"run.cancelRequested"} :
       RunEvent(t) \in Event /\ RunEvent(t).type # "run.cancelRequested"
  /\ \A t \in NodeEventType, n \in Nodes, k \in Nat :
       NodeEvent(t, n, k) \in Event /\ NodeEvent(t, n, k).type # "run.cancelRequested"
  /\ \A n \in Nodes, k \in Nat, f \in FailureKind :
       FailedEvent(n, k, f) \in Event
       /\ FailedEvent(n, k, f).type # "run.cancelRequested"
  /\ \A o \in {"success", "failure", "cancelled"} :
       FinishedEvent(o) \in Event /\ FinishedEvent(o).type # "run.cancelRequested"
BY EventTypes DEF NodeEventType

LEMMA TerminalizeKeepsCancel ==
  ASSUME TypeOK, TerminalizeInterrupted
  PROVE  (proj'.cancel = "none" <=> proj.cancel = "none") /\ pc' = "release"
<1>1. CASE Logs(RunEvent("run.interrupted"))
  BY <1>1, OtherEvents, LogsKeepsCancel DEF RunEventType, TerminalizeInterrupted
<1>2. CASE proj' = proj
  BY <1>2 DEF TerminalizeInterrupted
<1> QED BY <1>1, <1>2 DEF TerminalizeInterrupted, durable

\* A step that leaves the streams alone, keeps whether the log holds a cancel,
\* and leaves the pump only when nothing is live.
LEMMA QuietStep ==
  ASSUME CancelInv, UNCHANGED streams,
         proj'.cancel = "none" <=> proj.cancel = "none",
         pc \in {"pump", "drain"} /\ pc' \notin {"pump", "drain"} =>
           \A n \in Nodes : ~Live(n),
         Loaded' => Seen',
         pc' = "start" => pc = "start"
  PROVE  CancelInv'
<1>1. StreamsUnderPump'
  BY DEF CancelInv, StreamsUnderPump, Live
<1>2. CancelAborts'
  BY DEF CancelInv, CancelAborts
<1>3. StartUncancelled'
  BY DEF CancelInv, StartUncancelled
<1> QED BY <1>1, <1>2, <1>3 DEF CancelInv, CancelSeen

\* A step that logs the cancel while nothing is live.
LEMMA CancelBeforePump ==
  ASSUME CancelInv, UNCHANGED streams, pc \notin {"pump", "drain"},
         Loaded' => Seen', pc' # "start"
  PROVE  CancelInv'
<1>1. \A n \in Nodes : ~Live(n)
  BY DEF CancelInv, StreamsUnderPump
<1>2. StreamsUnderPump' /\ CancelAborts' /\ StartUncancelled'
  BY <1>1 DEF StreamsUnderPump, CancelAborts, StartUncancelled, Live
<1> QED BY <1>2 DEF CancelInv, CancelSeen

LEMMA StartCancelInv ==
  ASSUME TypeOK, CancelInv, StartSteps
  PROVE  CancelInv'
<1> USE DEF durable, alarms, queueing, pumping, cancels, history, counters
<1>1. CASE StartRefused
  <2>1. (proj'.cancel = "none" <=> proj.cancel = "none") /\ pc' = "release"
    BY <1>1, TerminalizeKeepsCancel DEF StartRefused
  <2> QED BY <1>1, <2>1, QuietStep DEF StartRefused, Starting, Loaded
<1>2. CASE StartCancelled
  <2>1. RunEvent("run.cancelRequested") \in Event
    BY EventTypes DEF RunEventType
  <2>2. /\ Logs(RunEvent("run.cancelRequested"))
        /\ mem' = Reduce(mem, RunEvent("run.cancelRequested")).state
    BY <1>2 DEF StartCancelled, AppendAndFold, Folds
  <2>3. Seen
    BY <1>2 DEF CancelInv, StartUncancelled, StartCancelled, Starting, Seen
  <2>4. Seen'
    BY <2>1, <2>2, <2>3, FoldKeepsSeen
  <2> QED BY <1>2, <2>4, CancelBeforePump DEF StartCancelled, Starting
<1>3. CASE StartContext
  BY <1>3, QuietStep DEF StartContext, Starting, Loaded
<1>4. CASE StartRun
  <2>1. /\ RunEvent("run.started") \in Event
        /\ RunEvent("run.started").type # "run.cancelRequested"
    BY OtherEvents DEF RunEventType
  <2>2. proj'.cancel = "none" <=> proj.cancel = "none"
    BY <1>4, <2>1, LogsKeepsCancel DEF StartRun, AppendAndFold
  <2>3. proj.cancel = "none"
    BY <1>4 DEF CancelInv, StartUncancelled, StartRun, Starting
  <2> QED BY <1>4, <2>2, <2>3, QuietStep DEF StartRun, Starting, Seen
<1> QED BY <1>1, <1>2, <1>3, <1>4 DEF StartSteps

LEMMA LockCancelInv ==
  ASSUME TypeOK, CancelInv, LockSteps
  PROVE  CancelInv'
<1> USE DEF durable, alarms, queueing, pumping, cancels, history, counters
<1>1. CASE Acquire
  <2>1. pc = "idle" /\ UNCHANGED streams
    BY <1>1 DEF Acquire
  <2>2. CASE TerminalizeInterrupted
    BY <2>1, <2>2, TerminalizeKeepsCancel, QuietStep DEF Loaded
  <2>3. CASE pc' = "release" /\ proj' = proj
    BY <2>1, <2>3, QuietStep DEF Loaded
  <2>4. CASE pc' \in {"enter", "reconcile"} /\ mem' = proj /\ proj' = proj
    BY <2>1, <2>4, ReadSees, QuietStep DEF Loaded
  <2> QED BY <1>1, <2>2, <2>3, <2>4 DEF Acquire
<1>2. CASE EnterCancel
  <2>1. RunEvent("run.cancelRequested") \in Event
    BY EventTypes DEF RunEventType
  <2>2. /\ Logs(RunEvent("run.cancelRequested"))
        /\ mem' = Reduce(mem, RunEvent("run.cancelRequested")).state
    BY <1>2 DEF EnterCancel, AppendAndFold, Folds
  <2>3. Seen
    BY <1>2 DEF CancelInv, CancelSeen, EnterCancel, Loaded
  <2>4. Seen'
    BY <2>1, <2>2, <2>3, FoldKeepsSeen
  <2> QED BY <1>2, <2>4, CancelBeforePump DEF EnterCancel
<1>3. CASE EnterResume
  <2>1. Seen
    BY <1>3 DEF CancelInv, CancelSeen, EnterResume, Loaded
  <2>2. CASE mem' = mem
    BY <1>3, <2>1, <2>2, QuietStep DEF EnterResume, Seen
  <2>3. CASE mem' = Reduce(mem, RunEvent("run.resumed")).state
    <3>1. Seen'
      BY <1>3, <2>1, <2>3, ResumeKeepsSeen DEF EnterResume
    <3> QED BY <1>3, <3>1, QuietStep DEF EnterResume
  <2> QED BY <1>3, <2>2, <2>3 DEF EnterResume
<1>4. CASE Release
  BY <1>4, QuietStep DEF Release, Loaded
<1>5. CASE SyncRow
  <2>1. Loaded' => Seen'
    BY <1>5 DEF SyncRow, CancelInv, CancelSeen, Loaded, Seen
  <2> QED BY <1>5, <2>1, QuietStep DEF SyncRow
<1> QED BY <1>1, <1>2, <1>3, <1>4, <1>5 DEF LockSteps

\* A pump step that appends an event other than a cancel and folds it.
LEMMA FoldInPump ==
  ASSUME TypeOK, CancelInv, NEW e \in Event, e.type # "run.cancelRequested",
         AppendAndFold(e), pc = "pump", pc' = pc
  PROVE  /\ proj'.cancel = "none" <=> proj.cancel = "none"
         /\ Seen'
<1>1. Seen
  BY DEF CancelInv, CancelSeen, Loaded
<1>2. Logs(e) /\ mem' = Reduce(mem, e).state
  BY DEF AppendAndFold, Folds
<1> QED BY <1>1, <1>2, LogsKeepsCancel, FoldKeepsSeen

LEMMA PumpCancelInv ==
  ASSUME TypeOK, CancelInv, PumpSteps
  PROVE  CancelInv'
<1> USE DEF durable, alarms, queueing, pumping, cancels, history, counters
<1>0. /\ streams \in [Nodes -> Stream]
      /\ pc = "pump" => Seen
  BY DEF TypeOK, StreamsType, CancelInv, CancelSeen, Loaded
<1>1. CASE AppendScheduled
  <2>1. PICK e \in Event : e.type # "run.cancelRequested" /\ AppendAndFold(e)
    BY <1>1, OtherEvents DEF AppendScheduled, TypeOK, Command, NodeEventType
  <2>2. pc = "pump" /\ pc' = pc /\ UNCHANGED streams
    BY <1>1 DEF AppendScheduled
  <2> QED BY <2>1, <2>2, FoldInPump, QuietStep
<1>2. CASE Park
  <2>1. /\ RunEvent("run.waiting") \in Event
        /\ RunEvent("run.waiting").type # "run.cancelRequested"
    BY OtherEvents DEF RunEventType
  <2>2. pc = "pump" /\ pc' = pc /\ UNCHANGED streams
    BY <1>2 DEF Park, Working
  <2>3. AppendAndFold(RunEvent("run.waiting"))
    BY <1>2 DEF Park
  <2> QED BY <2>1, <2>2, <2>3, FoldInPump, QuietStep
<1>3. CASE FinishRun
  <2> DEFINE outcome == Accepted(mem, ending)
  <2>1. outcome \in {"success", "failure", "cancelled"}
    BY <1>3 DEF FinishRun, Accepted
  <2>2. AppendAndFold(FinishedEvent(outcome))
    BY <1>3 DEF FinishRun
  <2>3. /\ FinishedEvent(outcome) \in Event
        /\ FinishedEvent(outcome).type # "run.cancelRequested"
    BY <2>1, OtherEvents
  <2>4. pc = "pump" /\ pc' = pc /\ UNCHANGED streams
    BY <1>3 DEF FinishRun, Working
  <2> HIDE DEF outcome
  <2> QED BY <2>2, <2>3, <2>4, FoldInPump, QuietStep
<1>4. CASE FoldMarker
  <2>1. RunEvent("run.cancelRequested") \in Event
    BY EventTypes DEF RunEventType
  <2>2. /\ Logs(RunEvent("run.cancelRequested"))
        /\ mem' = Reduce(mem, RunEvent("run.cancelRequested")).state
        /\ pc = "pump" /\ pc' = pc
    BY <1>4 DEF FoldMarker, AppendAndFold, Folds, Waiting
  <2>3. Seen'
    BY <1>0, <2>1, <2>2, FoldKeepsSeen
  <2>4. ASSUME NEW n \in Nodes
        PROVE  /\ streams'[n].ph = streams[n].ph
               /\ streams[n].ph \notin {"none", "queued"} => streams'[n].ab
    BY <1>0, <1>4 DEF FoldMarker, AbortRun, Registered, Stream
  <2>5. CancelAborts'
    BY <2>4 DEF CancelAborts
  <2> QED BY <2>2, <2>3, <2>5
          DEF CancelInv, StreamsUnderPump, CancelSeen, StartUncancelled
<1>5. CASE PumpEnd
  BY <1>5, QuietStep DEF PumpEnd, Loaded
<1>6. CASE PumpReturn
  <2>1. pc = "drain" /\ UNCHANGED streams /\ \A n \in Nodes : ~Live(n)
    BY <1>6 DEF PumpReturn
  <2>2. (proj'.cancel = "none" <=> proj.cancel = "none") /\ pc' = "release"
    BY <1>6, TerminalizeKeepsCancel DEF PumpReturn
  <2> QED BY <2>1, <2>2, QuietStep DEF Loaded
<1>7. ASSUME NEW n \in Nodes, Spawn(n)
      PROVE  CancelInv'
  <2>1. /\ pc = "pump" /\ pc' = pc /\ mem' = mem /\ proj' = proj
        /\ \E k : streams' = [streams EXCEPT ![n] =
                                [NoStream EXCEPT !.ph = "queued", !.att = k]]
    BY <1>7 DEF Spawn, Working
  <2>2. \A m \in Nodes : streams'[m] = streams[m] \/ streams'[m].ph = "queued"
    BY <1>0, <2>1 DEF NoStream, Stream
  <2>3. CancelAborts'
    BY <2>1, <2>2 DEF CancelInv, CancelAborts
  <2>4. Seen'
    BY <1>0, <2>1 DEF Seen
  <2> QED BY <2>1, <2>3, <2>4
          DEF CancelInv, StreamsUnderPump, CancelSeen, StartUncancelled
<1>8. ASSUME NEW n \in Nodes, Arm(n)
      PROVE  CancelInv'
  <2>1. Seen'
    BY <1>0, <1>8 DEF Arm, Working, Seen
  <2> QED BY <1>8, <2>1, QuietStep DEF Arm, Working
<1>9. ASSUME NEW n \in Nodes, FoldStream(n)
      PROVE  CancelInv'
  <2>1. streams[n] \in Stream /\ (streams[n].ph = "offerR" => streams[n].out \in Results)
    BY DEF TypeOK, StreamsType
  <2>2. OfferedEvent(n) \in Event /\ OfferedEvent(n).type # "run.cancelRequested"
    BY <1>9, <2>1, OtherEvents DEF FoldStream, OfferedEvent, Stream, Results, FailureKind,
                                   NodeEventType
  <2>3. AppendAndFold(OfferedEvent(n)) /\ pc = "pump" /\ pc' = pc
    BY <1>9 DEF FoldStream, Waiting
  <2>4. (proj'.cancel = "none" <=> proj.cancel = "none") /\ Seen'
    BY <2>2, <2>3, FoldInPump
  <2>5. \A m \in Nodes :
           \/ streams'[m] = streams[m]
           \/ streams'[m].ph = "none"
           \/ streams[m].ph = "offerD" /\ streams'[m].ab = streams[m].ab
    <3> DEFINE next == IF streams[n].ph = "offerD" THEN [streams[n] EXCEPT !.ph = "slot"]
                       ELSE NoStream
    <3>1. streams' = [streams EXCEPT ![n] = next]
      BY <1>9 DEF FoldStream
    <3>2. next.ph = "none" \/ (streams[n].ph = "offerD" /\ next.ab = streams[n].ab)
      BY <2>1 DEF NoStream, Stream
    <3> HIDE DEF next
    <3>3. streams'[n] = next /\ \A m \in Nodes : m # n => streams'[m] = streams[m]
      BY <1>0, <3>1
    <3> QED BY <3>2, <3>3
  <2>6. CancelAborts'
    BY <2>4, <2>5 DEF CancelInv, CancelAborts
  <2> QED BY <2>3, <2>4, <2>6
          DEF CancelInv, StreamsUnderPump, CancelSeen, StartUncancelled
<1> QED BY <1>1, <1>2, <1>3, <1>4, <1>5, <1>6, <1>7, <1>8, <1>9 DEF PumpSteps

\* A stream step that opens no stream while the log holds a cancel.
LEMMA StreamStepCancelInv ==
  ASSUME TypeOK, CancelInv, NEW n \in Nodes, NEW from, NEW to, NEW out,
         StreamStep(n, from, to, out),
         from # "none",
         to \in {"preflight", "offerD", "slot"} =>
           from \in {"preflight", "offerD", "slot"} \/ proj.cancel = "none"
  PROVE  CancelInv'
<1>1. streams[n] \in Stream /\ streams \in [Nodes -> Stream]
  BY DEF TypeOK, StreamsType
<1> DEFINE next == [streams[n] EXCEPT !.ph = to, !.out = out]
<1>2. /\ streams' = [streams EXCEPT ![n] = next] /\ streams[n].ph = from
      /\ UNCHANGED <<proj, mem, pc>>
  BY DEF StreamStep, durable, pumping, queueing
<1>3. next.ph = to /\ next.ab = streams[n].ab
  BY <1>1 DEF Stream
<1> HIDE DEF next
<1>4. StreamsUnderPump'
  BY <1>1, <1>2 DEF CancelInv, StreamsUnderPump, Live
<1>5. CancelAborts'
  BY <1>1, <1>2, <1>3 DEF CancelInv, CancelAborts
<1>6. CancelSeen' /\ StartUncancelled'
  BY <1>2 DEF CancelInv, CancelSeen, Loaded, Seen, StartUncancelled
<1> QED BY <1>4, <1>5, <1>6 DEF CancelInv

LEMMA ClearStreamCancelInv ==
  ASSUME TypeOK, CancelInv, NEW n \in Nodes, Live(n),
         streams' = [streams EXCEPT ![n] = NoStream], UNCHANGED <<proj, mem, pc>>
  PROVE  CancelInv'
<1>1. streams \in [Nodes -> Stream] /\ NoStream.ph = "none"
  BY DEF TypeOK, StreamsType, NoStream
<1>2. StreamsUnderPump' /\ CancelAborts'
  BY <1>1 DEF CancelInv, StreamsUnderPump, CancelAborts, Live
<1>3. CancelSeen' /\ StartUncancelled'
  BY DEF CancelInv, CancelSeen, Loaded, Seen, StartUncancelled
<1> QED BY <1>2, <1>3 DEF CancelInv

LEMMA StreamsCancelInv ==
  ASSUME TypeOK, CancelInv, StreamSteps
  PROVE  CancelInv'
<1> USE DEF durable, alarms, queueing, pumping, cancels, history, counters
<1> SUFFICES ASSUME NEW n \in Nodes,
                    OpenStream(n) \/ Preflight(n) \/ AbortQueued(n)
                    \/ StartAdapter(n) \/ AdapterEnds(n) \/ DropStream(n)
             PROVE  CancelInv'
  BY DEF StreamSteps
<1>1. CASE OpenStream(n)
  <2>1. mem.cancel = "none" => proj.cancel = "none"
    BY <1>1 DEF OpenStream, Waiting, CancelInv, CancelSeen, Loaded, Seen
  <2> QED BY <1>1, <2>1, StreamStepCancelInv DEF OpenStream
<1>2. CASE Preflight(n)
  BY <1>2, StreamStepCancelInv DEF Preflight
<1>3. CASE AbortQueued(n)
  BY <1>3, StreamStepCancelInv DEF AbortQueued
<1>4. CASE StartAdapter(n)
  <2>1. streams[n] \in Stream /\ streams \in [Nodes -> Stream]
    BY DEF TypeOK, StreamsType
  <2>2. [streams[n] EXCEPT !.ph = "exec"].ph = "exec"
    BY <2>1 DEF Stream
  <2>3. /\ streams' = [streams EXCEPT ![n] = [streams[n] EXCEPT !.ph = "exec"]]
        /\ streams[n].ph = "slot" /\ UNCHANGED <<proj, mem, pc>>
    BY <1>4 DEF StartAdapter
  <2>4. StreamsUnderPump' /\ CancelAborts'
    BY <2>1, <2>2, <2>3 DEF CancelInv, StreamsUnderPump, CancelAborts, Live
  <2>5. CancelSeen' /\ StartUncancelled'
    BY <2>3 DEF CancelInv, CancelSeen, Loaded, Seen, StartUncancelled
  <2> QED BY <2>4, <2>5 DEF CancelInv
<1>5. CASE AdapterEnds(n)
  BY <1>5, StreamStepCancelInv DEF AdapterEnds
<1>6. CASE DropStream(n)
  BY <1>6, ClearStreamCancelInv DEF DropStream, Live
<1> QED BY <1>1, <1>2, <1>3, <1>4, <1>5, <1>6

LEMMA ReconcileCancelInv ==
  ASSUME TypeOK, CancelInv, ReconcileSteps
  PROVE  CancelInv'
<1> USE DEF durable, alarms, queueing, pumping, cancels, history, counters
<1>0. pc \in {"reconcile", "requeue"} => Seen
  BY DEF CancelInv, CancelSeen, Loaded
<1>1. CASE RcResync
  BY <1>1, QuietStep DEF RcResync, Reconciling, Loaded
<1>2. CASE RcCancel
  <2>1. RunEvent("run.cancelRequested") \in Event
    BY EventTypes DEF RunEventType
  <2>2. /\ Logs(RunEvent("run.cancelRequested"))
        /\ mem' = Reduce(mem, RunEvent("run.cancelRequested")).state
    BY <1>2 DEF RcCancel, AppendAndFold, Folds
  <2>3. Seen'
    BY <1>0, <1>2, <2>1, <2>2, FoldKeepsSeen DEF RcCancel, Reconciling
  <2> QED BY <1>2, <2>3, CancelBeforePump DEF RcCancel, Reconciling
<1>3. CASE RcFinishCancelled
  <2>1. pc = "reconcile" /\ pc' = "pump" /\ UNCHANGED <<proj, streams>>
    BY <1>3 DEF RcFinishCancelled, RcUndecided, Reconciling
  <2>2. CASE mem' = mem
    BY <1>0, <2>1, <2>2, QuietStep DEF Seen
  <2>3. CASE mem' = Reduce(mem, RunEvent("run.resumed")).state
    BY <1>0, <2>1, <2>3, ResumeKeepsSeen, QuietStep
  <2> QED BY <1>3, <2>2, <2>3 DEF RcFinishCancelled
<1>4. CASE RcInterrupt
  <2>1. proj'.cancel = "none" <=> proj.cancel = "none"
    BY <1>4, OtherEvents, LogsKeepsCancel DEF RcInterrupt, RunEventType
  <2> QED BY <1>4, <2>1, QuietStep DEF RcInterrupt, RcUndecided, Reconciling, Loaded
<1>5. CASE RcHold
  BY <1>5, QuietStep DEF RcHold, RcRecoverable, RcUndecided, Reconciling, Loaded
<1>6. CASE RcResume
  <2>1. /\ RunEvent("run.resumed") \in Event
        /\ RunEvent("run.resumed").type # "run.cancelRequested"
    BY OtherEvents DEF RunEventType
  <2>2. /\ Logs(RunEvent("run.resumed"))
        /\ mem' = Reduce(mem, RunEvent("run.resumed")).state
        /\ pc = "reconcile" /\ pc' = "requeue" /\ UNCHANGED streams
    BY <1>6 DEF RcResume, Folds, RcRecoverable, RcUndecided, Reconciling
  <2> QED BY <1>0, <2>1, <2>2, LogsKeepsCancel, FoldKeepsSeen, QuietStep
<1>7. CASE RcPump
  <2>1. Seen'
    BY <1>0, <1>7 DEF RcPump, Seen
  <2> QED BY <1>7, <2>1, QuietStep DEF RcPump
<1>8. CASE Boot \/ BootDone
  <2>1. UNCHANGED <<proj, mem, streams, pc>>
    BY <1>8 DEF Boot, BootDone
  <2>2. Loaded' => Seen'
    BY <2>1 DEF CancelInv, CancelSeen, Loaded, Seen
  <2> QED BY <2>1, <2>2, QuietStep
<1>9. ASSUME NEW n \in Nodes, RcFailDispatched(n)
      PROVE  CancelInv'
  <2> DEFINE e == FailedEvent(n, mem.nodes[n].att, "cancelled")
  <2>1. e \in Event /\ e.type # "run.cancelRequested"
    <3>1. mem.nodes[n].att \in Nat
      BY DEF TypeOK, RunState, NodeState
    <3> QED BY <3>1, OtherEvents DEF FailureKind
  <2>2. /\ Logs(e) /\ mem' = Reduce(mem, e).state
        /\ pc = "reconcile" /\ pc' = pc /\ UNCHANGED streams
    BY <1>9 DEF RcFailDispatched, RcUndecided, Reconciling
  <2> HIDE DEF e
  <2> QED BY <1>0, <2>1, <2>2, LogsKeepsCancel, FoldKeepsSeen, QuietStep
<1>10. ASSUME NEW n \in Nodes, RcRearm(n)
       PROVE  CancelInv'
  <2>1. pc = "reconcile" /\ UNCHANGED <<proj, mem, streams, pc>>
    BY <1>10 DEF RcRearm, RcRecoverable, RcUndecided, Reconciling
  <2>2. Seen'
    BY <1>0, <2>1 DEF Seen
  <2> QED BY <2>1, <2>2, QuietStep
<1>11. ASSUME NEW n \in Nodes, RcRetry(n)
       PROVE  CancelInv'
  <2> DEFINE e == NodeEvent("node.retryRequested", n, mem.nodes[n].att)
  <2>1. e \in Event /\ e.type # "run.cancelRequested"
    <3>1. mem.nodes[n].att \in Nat
      BY DEF TypeOK, RunState, NodeState
    <3> QED BY <3>1, OtherEvents DEF NodeEventType
  <2>2. /\ Logs(e) /\ mem' = Reduce(mem, e).state
        /\ pc = "requeue" /\ pc' = pc /\ UNCHANGED streams
    BY <1>11 DEF RcRetry, Folds
  <2> HIDE DEF e
  <2> QED BY <1>0, <2>1, <2>2, LogsKeepsCancel, FoldKeepsSeen, QuietStep
<1> QED BY <1>1, <1>2, <1>3, <1>4, <1>5, <1>6, <1>7, <1>8, <1>9, <1>10, <1>11
        DEF ReconcileSteps

\* A step that leaves the log, the pump's state, its streams and its place alone.
LEMMA AsideStep ==
  ASSUME CancelInv, UNCHANGED <<proj, mem, streams, pc>>
  PROVE  CancelInv'
<1>1. Loaded' => Seen'
  BY DEF CancelInv, CancelSeen, Loaded, Seen
<1> QED BY <1>1, QuietStep

LEMMA OtherCancelInv ==
  ASSUME TypeOK, CancelInv,
         AlarmSteps \/ RequestCancel \/ LeaseReclaim \/ Mishaps \/ Over
  PROVE  CancelInv'
<1> USE DEF durable, alarms, queueing, pumping, cancels, history, counters
<1>1. ASSUME NEW n \in Nodes, FireAlarm(n)
      PROVE  CancelInv'
  <2>1. PICK a \in armed : Logs(DueEvent(n, a[2])) /\ a[2] \in Nat
    BY <1>1 DEF FireAlarm, TypeOK
  <2>2. DueEvent(n, a[2]) \in Event /\ DueEvent(n, a[2]).type # "run.cancelRequested"
    BY <2>1, OtherEvents DEF DueEvent, NodeEventType
  <2>3. proj'.cancel = "none" <=> proj.cancel = "none"
    BY <2>1, <2>2, LogsKeepsCancel
  <2>4. UNCHANGED <<mem, streams, pc>>
    BY <1>1 DEF FireAlarm
  <2>5. Loaded' => Seen'
    BY <2>3, <2>4 DEF CancelInv, CancelSeen, Loaded, Seen
  <2> QED BY <2>3, <2>4, <2>5, QuietStep
<1>2. ASSUME NEW n \in Nodes, SuppressAlarm(n)
      PROVE  CancelInv'
  BY <1>2, AsideStep DEF SuppressAlarm
<1>3. CASE RequestCancel \/ LeaseReclaim
  BY <1>3, AsideStep DEF RequestCancel, LeaseReclaim
<1>4. CASE Crash
  <2>1. \A n \in Nodes : streams'[n].ph = "none"
    BY <1>4 DEF Crash, NoStreams, NoStream
  <2> QED BY <1>4, <2>1 DEF Crash, CancelInv, StreamsUnderPump, Live, CancelSeen, Loaded,
                            CancelAborts, StartUncancelled
<1>5. CASE WriteThrows
  BY <1>5, QuietStep DEF WriteThrows, Loaded
<1>6. ASSUME NEW n \in Nodes, StreamThrows(n)
      PROVE  CancelInv'
  BY <1>6, ClearStreamCancelInv DEF StreamThrows, Live
<1>7. CASE Over
  BY <1>7, AsideStep DEF Over, vars
<1> QED BY <1>1, <1>2, <1>3, <1>4, <1>5, <1>6, <1>7 DEF AlarmSteps, Mishaps

LEMMA InitCancelInv == Init => CancelInv
BY DEF Init, CancelInv, StreamsUnderPump, Live, NoStreams, NoStream, CancelSeen, Loaded,
       CancelAborts, StartUncancelled, Seed

LEMMA CancelInvStep ==
  ASSUME TypeOK, CancelInv, [Next]_vars
  PROVE  CancelInv'
<1>1. CASE UNCHANGED vars
  BY <1>1, AsideStep DEF vars, durable, queueing, pumping
<1>2. CASE Next
  BY <1>2, StartCancelInv, LockCancelInv, PumpCancelInv, StreamsCancelInv,
     ReconcileCancelInv, OtherCancelInv DEF Next
<1> QED BY <1>1, <1>2

\* An adapter is started by StartAdapter and by nothing else.
LEMMA OnlyAdaptersBegin ==
  ASSUME [Next]_vars, \A n \in Nodes : ~StartAdapter(n)
  PROVE  began' = began
<1> USE DEF durable, alarms, queueing, pumping, cancels, history, counters
<1>1. CASE UNCHANGED vars
  BY <1>1 DEF vars
<1>2. CASE StartSteps
  BY <1>2 DEF StartSteps, StartRefused, StartCancelled, StartContext, StartRun
<1>3. CASE LockSteps
  BY <1>3 DEF LockSteps, Acquire, EnterCancel, EnterResume, Release, SyncRow
<1>4. CASE PumpSteps
  BY <1>4 DEF PumpSteps, AppendScheduled, Park, FinishRun, FoldMarker, PumpEnd,
              PumpReturn, Spawn, Arm, FoldStream
<1>5. CASE StreamSteps
  BY <1>5 DEF StreamSteps, OpenStream, Preflight, AbortQueued, AdapterEnds, DropStream, StreamStep
<1>6. CASE AlarmSteps
  BY <1>6 DEF AlarmSteps, FireAlarm, SuppressAlarm
<1>7. CASE ReconcileSteps
  BY <1>7 DEF ReconcileSteps, RcResync, RcCancel, RcFinishCancelled, RcInterrupt, RcHold,
              RcResume, RcPump, Boot, BootDone, RcFailDispatched, RcRearm, RcRetry
<1>8. CASE RequestCancel \/ LeaseReclaim \/ Mishaps \/ Over
  BY <1>8 DEF RequestCancel, LeaseReclaim, Mishaps, Crash, WriteThrows, StreamThrows,
              Over, vars
<1> QED BY <1>1, <1>2, <1>3, <1>4, <1>5, <1>6, <1>7, <1>8 DEF Next

\* StartAdapter never starts an aborted stream.
LEMMA NothingBegins ==
  ASSUME CancelInv, [Next]_vars, proj.cancel # "none"
  PROVE  began' = began
<1>1. \A n \in Nodes : ~StartAdapter(n)
  BY DEF CancelInv, CancelAborts, StartAdapter
<1> QED BY <1>1, OnlyAdaptersBegin

\* Once run.cancelRequested is in the log no adapter is started, whichever of
\* the pump's marker, a queued drive or the reconciler folded it and whatever
\* streams were in flight: onCancelFolded aborts what is registered, the
\* executor drops what is queued for a slot, and spawn refuses the rest.
THEOREM CancelStops == Spec => CancelStopsWork
<1>1. Init => CancelInv
  BY InitCancelInv
<1>2. TypeOK /\ CancelInv /\ [Next]_vars => CancelInv'
  BY CancelInvStep
<1>3. CancelInv /\ [Next]_vars => [proj.cancel # "none" => began' = began]_vars
  BY NothingBegins
<1> QED BY <1>1, <1>2, <1>3, TypeCorrect, PTL DEF Spec, CancelStopsWork
-----------------------------------------------------------------------------
(* A pending intent is never forgotten.  The intent of an operator has a    *)
(* cancel job in the lock's queue or at work.  The intent a child starts    *)
(* with has only the start job, which folds it unless the start fails       *)
(* first: then the run is over with an empty log (LostStart).               *)

CancelQueued == \E i \in DOMAIN lockq : lockq[i] = "cancel"

CancelAtWork == pc # "idle" /\ job = "cancel"

LostStart ==
  /\ job = "start" /\ LogEmpty /\ lockq = <<>> /\ ~dirty
  /\ \/ row = "pending" /\ (pc = "start" \/ (pc = "drain" /\ failing))
     \/ row = "interrupted" /\ pc \in {"release", "idle"}

IntentInv ==
  /\ up = "down" => ~intent
  /\ intent => CancelQueued \/ CancelAtWork \/ LostStart

LEMMA QueueGrows ==
  ASSUME lockq \in Seq(Jobs), NEW j \in Jobs, lockq' = Append(lockq, j)
  PROVE  (CancelQueued => CancelQueued') /\ (j = "cancel" => CancelQueued')
BY DEF CancelQueued, Jobs

LEMMA QueuePops ==
  ASSUME lockq \in Seq(Jobs), lockq # <<>>, lockq' = Tail(lockq),
         CancelQueued, Head(lockq) # "cancel"
  PROVE  CancelQueued'
<1>1. PICK i \in DOMAIN lockq : lockq[i] = "cancel"
  BY DEF CancelQueued
<1>2. i \in 2..Len(lockq)
  BY <1>1
<1>3. i - 1 \in DOMAIN lockq' /\ lockq'[i - 1] = "cancel"
  BY <1>1, <1>2
<1> QED BY <1>3 DEF CancelQueued

\* A step that leaves the lock's queue and job alone keeps the taker it has.
LEMMA TakerStays ==
  ASSUME IntentInv, ~LostStart, UNCHANGED <<up, lockq, job>>, intent' => intent,
         pc' = "idle" => pc = "idle"
  PROVE  IntentInv'
BY DEF IntentInv, CancelQueued, CancelAtWork

\* A step beside the log, the row and the lock.
LEMMA BesideStep ==
  ASSUME IntentInv, UNCHANGED <<proj, ctx, row, up, lockq, job, pc, dirty, intent>>,
         failing => failing'
  PROVE  IntentInv'
BY DEF IntentInv, CancelQueued, CancelAtWork, LostStart, LogEmpty

LEMMA StartIntentInv ==
  ASSUME TypeOK, IntentInv, StartSteps
  PROVE  IntentInv'
<1> USE DEF durable, alarms, queueing, pumping, cancels, history, counters
<1>1. CASE StartRefused
  <2>1. /\ pc = "start" /\ pc' = "release" /\ UNCHANGED <<up, lockq, job, intent>>
    BY <1>1 DEF StartRefused, Starting, TerminalizeInterrupted
  <2>2. CASE LostStart
    <3>1. LostStart'
      BY <1>1, <2>1, <2>2 DEF StartRefused, TerminalizeInterrupted, LostStart, LogEmpty, Terminal
    <3> QED BY <2>1, <3>1 DEF IntentInv
  <2>3. CASE ~LostStart
    BY <2>1, <2>3, TakerStays
  <2> QED BY <2>2, <2>3
<1>2. CASE StartCancelled
  BY <1>2 DEF StartCancelled, IntentInv
<1>3. CASE StartContext \/ StartRun
  BY <1>3 DEF StartContext, StartRun, IntentInv
<1> QED BY <1>1, <1>2, <1>3 DEF StartSteps

LEMMA LockIntentInv ==
  ASSUME TypeOK, IntentInv, LockSteps
  PROVE  IntentInv'
<1> USE DEF durable, alarms, queueing, pumping, cancels, history, counters
<1>1. CASE Acquire
  <2>1. /\ pc = "idle" /\ lockq # <<>> /\ lockq' = Tail(lockq) /\ job' = Head(lockq)
        /\ pc' # "idle" /\ UNCHANGED <<up, intent>>
    BY <1>1 DEF Acquire, TerminalizeInterrupted
  <2>2. SUFFICES ASSUME intent PROVE CancelQueued' \/ CancelAtWork'
    BY <2>1 DEF IntentInv
  <2>3. CancelQueued
    BY <2>1, <2>2 DEF IntentInv, CancelAtWork, LostStart
  <2>4. CASE Head(lockq) = "cancel"
    BY <2>1, <2>4 DEF CancelAtWork
  <2>5. CASE Head(lockq) # "cancel"
    BY <2>1, <2>3, <2>5, QueuePops DEF TypeOK
  <2> QED BY <2>4, <2>5
<1>2. CASE EnterCancel
  BY <1>2 DEF EnterCancel, IntentInv
<1>3. CASE EnterResume
  BY <1>3, TakerStays DEF EnterResume, LostStart
<1>4. CASE Release
  <2>1. CASE job = "cancel"
    BY <1>4, <2>1 DEF Release, IntentInv
  <2>2. CASE job # "cancel"
    BY <1>4, <2>2 DEF Release, IntentInv, CancelQueued, CancelAtWork, LostStart, LogEmpty
  <2> QED BY <2>1, <2>2
<1>5. CASE SyncRow
  BY <1>5, TakerStays DEF SyncRow, LostStart
<1> QED BY <1>1, <1>2, <1>3, <1>4, <1>5 DEF LockSteps

LEMMA PumpIntentInv ==
  ASSUME TypeOK, IntentInv, PumpSteps
  PROVE  IntentInv'
<1> USE DEF durable, alarms, queueing, pumping, cancels, history, counters
<1>1. CASE PumpReturn
  <2>1. /\ pc = "drain" /\ pc' = "release" /\ UNCHANGED <<up, lockq, job, intent>>
    BY <1>1 DEF PumpReturn, TerminalizeInterrupted
  <2>2. CASE LostStart
    <3>1. TerminalizeInterrupted
      BY <1>1, <2>1, <2>2 DEF PumpReturn, LostStart
    <3>2. LostStart'
      BY <2>1, <2>2, <3>1 DEF TerminalizeInterrupted, LostStart, LogEmpty, Terminal
    <3> QED BY <2>1, <3>2 DEF IntentInv
  <2>3. CASE ~LostStart
    BY <2>1, <2>3, TakerStays
  <2> QED BY <2>2, <2>3
<1>2. CASE pc = "pump" /\ pc' # "idle" /\ UNCHANGED <<up, lockq, job>> /\ (intent' => intent)
  BY <1>2, TakerStays DEF LostStart
<1>3. CASE AppendScheduled \/ Park \/ FinishRun \/ PumpEnd
  BY <1>2, <1>3 DEF AppendScheduled, Park, FinishRun, PumpEnd, Working
<1>4. CASE FoldMarker
  BY <1>4 DEF FoldMarker, IntentInv
<1>5. ASSUME NEW n \in Nodes, Spawn(n) \/ Arm(n) \/ FoldStream(n)
      PROVE  IntentInv'
  BY <1>2, <1>5 DEF Spawn, Arm, FoldStream, Working, Waiting
<1> QED BY <1>1, <1>3, <1>4, <1>5 DEF PumpSteps

LEMMA StreamsIntentInv ==
  ASSUME IntentInv, StreamSteps
  PROVE  IntentInv'
<1> USE DEF durable, alarms, queueing, pumping, cancels, history, counters
<1>1. UNCHANGED <<proj, ctx, row, up, lockq, job, pc, dirty, intent, failing>>
  BY DEF StreamSteps, OpenStream, Preflight, AbortQueued, StartAdapter, AdapterEnds,
         DropStream, StreamStep
<1> QED BY <1>1, BesideStep

LEMMA ReconcileIntentInv ==
  ASSUME IntentInv, ReconcileSteps
  PROVE  IntentInv'
<1> USE DEF durable, alarms, queueing, pumping, cancels, history, counters
<1>1. CASE Boot
  BY <1>1 DEF Boot, IntentInv
<1>2. CASE BootDone
  BY <1>2 DEF BootDone, IntentInv, CancelQueued, CancelAtWork, LostStart, LogEmpty
<1>3. CASE /\ pc \in {"reconcile", "requeue"} /\ pc' # "idle"
           /\ UNCHANGED <<up, lockq, job>> /\ (intent' => intent)
  BY <1>3, TakerStays DEF LostStart
<1> QED BY <1>1, <1>2, <1>3
        DEF ReconcileSteps, RcResync, RcCancel, RcFinishCancelled, RcInterrupt, RcHold,
            RcResume, RcPump, RcFailDispatched, RcRearm, RcRetry, RcRecoverable,
            RcUndecided, Reconciling

LEMMA OtherIntentInv ==
  ASSUME TypeOK, IntentInv,
         AlarmSteps \/ RequestCancel \/ LeaseReclaim \/ Mishaps \/ Over
  PROVE  IntentInv'
<1> USE DEF durable, alarms, queueing, pumping, cancels, history, counters
<1>1. ASSUME NEW n \in Nodes, FireAlarm(n)
      PROVE  IntentInv'
  <2>1. proj # Seed
    BY <1>1 DEF FireAlarm, Fresh, Seed
  <2>2. CancelQueued => CancelQueued'
    BY <1>1, QueueGrows DEF FireAlarm, TypeOK, Jobs
  <2> QED BY <1>1, <2>1, <2>2 DEF FireAlarm, IntentInv, CancelAtWork, LostStart, LogEmpty
<1>2. ASSUME NEW n \in Nodes, SuppressAlarm(n)
      PROVE  IntentInv'
  BY <1>2, BesideStep DEF SuppressAlarm
<1>3. CASE RequestCancel
  <2>1. CancelQueued'
    BY <1>3, QueueGrows DEF RequestCancel, TypeOK, Jobs
  <2> QED BY <1>3, <2>1 DEF RequestCancel, IntentInv
<1>4. CASE LeaseReclaim
  BY <1>4 DEF LeaseReclaim, IntentInv, CancelQueued, CancelAtWork, LostStart
<1>5. CASE Crash
  BY <1>5 DEF Crash, IntentInv
<1>6. CASE WriteThrows
  BY <1>6 DEF WriteThrows, IntentInv, CancelQueued, CancelAtWork, LostStart, LogEmpty
<1>7. ASSUME NEW n \in Nodes, StreamThrows(n)
      PROVE  IntentInv'
  BY <1>7, BesideStep DEF StreamThrows
<1>8. CASE Over
  BY <1>8, BesideStep DEF Over, vars
<1> QED BY <1>1, <1>2, <1>3, <1>4, <1>5, <1>6, <1>7, <1>8 DEF AlarmSteps, Mishaps

LEMMA IntentInvStep ==
  ASSUME TypeOK, IntentInv, [Next]_vars
  PROVE  IntentInv'
<1>1. CASE UNCHANGED vars
  BY <1>1, BesideStep DEF vars, durable, queueing, pumping, cancels
<1>2. CASE Next
  BY <1>2, StartIntentInv, LockIntentInv, PumpIntentInv, StreamsIntentInv,
     ReconcileIntentInv, OtherIntentInv DEF Next
<1> QED BY <1>1, <1>2

\* A cancel intent always has a job queued behind the drive lock, or holding
\* it, that will fold or drop it, however requests, alarms, throws and crashes
\* interleave; only a run that ended before its start could fold it keeps one.
THEOREM IntentTaken == Spec => []IntentHasTaker
<1>1. Init => IntentInv
  BY DEF Init, IntentInv, LostStart, LogEmpty
<1>2. TypeOK /\ IntentInv /\ [Next]_vars => IntentInv'
  BY IntentInvStep
<1>3. IntentInv => IntentHasTaker
  BY DEF IntentInv, IntentHasTaker, CancelQueued, CancelAtWork, LostStart, Terminal
<1> QED BY <1>1, <1>2, <1>3, TypeCorrect, PTL DEF Spec
=============================================================================
