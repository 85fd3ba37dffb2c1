--------------------------- MODULE RunLifeProofs ---------------------------
(***************************************************************************)
(* What RunDrive guarantees about the life of a run, for every document,   *)
(* limit and number of crashes and thrown writes: the row shows no end the *)
(* log does not hold, the run behaves as RunLifecycle says, and an         *)
(* activity that is not idempotent is not executed more often than its     *)
(* retry policy granted.                                                   *)
(***************************************************************************)
EXTENDS RunDriveProofs, FiniteSetTheorems

-----------------------------------------------------------------------------
(* The pump: what it has queued and what its streams work on is what its    *)
(* own state of the run waits for.                                          *)

\* A queued command names a node that is waiting for it.
Asked(c) ==
  /\ mem.status = "running" /\ mem.nodes[c.node].att = c.att
  /\ \/ c.type = "scheduleRetry" /\ mem.nodes[c.node].st = "retry_pending"
     \/ c.type = "scheduleWait" /\ mem.nodes[c.node].st = "ready" /\ c.node \in Waits
     \/ /\ c.type = "dispatchNode" /\ mem.nodes[c.node].st = "ready" /\ c.node \notin Waits
        /\ ~Live(c.node)

QueueInv ==
  /\ pc \notin {"requeue", "pump"} => todo = {}
  /\ pc # "pump" \/ dirty => hand = NoCommand
  /\ ~Loaded => ending = "none"
  /\ pc = "reconcile" /\ ending # "none" => mem.cancel # "none" /\ fact = "none"
  /\ \A c \in todo : Asked(c) /\ (hand # NoCommand => c.node # hand.node)
  /\ hand # NoCommand => Asked(hand) /\ hand.type # "dispatchNode"
  /\ EndMove(mem, ending)

StreamInv ==
  pc = "pump" => \A n \in Nodes : Live(n) =>
    /\ mem.status = "running" /\ n \notin Waits
    /\ mem.nodes[n].st \in {"ready", "dispatched"}
    /\ mem.nodes[n].att = streams[n].att

PumpInv == Sound(proj) /\ Sound(mem) /\ QueueInv /\ StreamInv

\* What an append does to the log's projection.
LEMMA LogFacts ==
  ASSUME TypeOK, Sound(proj), NEW e \in Event, Proper(e), Logs(e)
  PROVE  /\ Sound(proj') /\ proj' \in RunState
         /\ \A n \in Nodes : NodeMove(proj, e, proj', n)
         /\ StatusMove(proj, e, proj')
BY SoundStep, ReduceMoves, StatusMoves, LogsType DEF TypeOK, Logs

\* What a fold does to the pump's state and queue.
LEMMA FoldFacts ==
  ASSUME TypeOK, Sound(mem), NEW e \in Event, Proper(e), mem' = Reduce(mem, e).state
  PROVE  /\ Sound(mem') /\ mem' \in RunState
         /\ \A n \in Nodes : NodeMove(mem, e, mem', n)
         /\ StatusMove(mem, e, mem')
         /\ Answered(mem, e) => /\ \A c \in Reduce(mem, e).todo : TodoMove(mem, e, mem', c)
                                /\ EndMove(mem', Reduce(mem, e).end)
<1>1. mem \in RunState
  BY DEF TypeOK
<1>2. Reduce(mem, e).state \in RunState
  BY <1>1, ReduceType DEF FoldResult
<1> QED BY <1>1, <1>2, SoundStep, ReduceMoves, StatusMoves DEF Moves

\* Nothing is queued and no pump runs.
LEMMA QuietPump ==
  ASSUME Sound(proj'), Sound(mem'), todo' = {}, hand' = NoCommand, ending' = "none", pc' # "pump"
  PROVE  PumpInv'
BY DEF PumpInv, QueueInv, StreamInv, EndMove

\* The pump's queue and what it is about stay as they are.
LEMMA AsidePump ==
  ASSUME PumpInv, Sound(proj'), UNCHANGED <<mem, todo, ending, hand, pc>>, dirty' => dirty,
         pc = "reconcile" => UNCHANGED fact,
         \A n \in Nodes : Live(n)' => Live(n) /\ streams'[n].att = streams[n].att,
         TypeOK
  PROVE  PumpInv'
<1>1. \A c \in todo : c.node \in Nodes
  BY DEF TypeOK, Command
<1>2. hand # NoCommand => hand.node \in Nodes
  BY DEF TypeOK, Command
<1>3. \A c \in todo : Asked(c)'
  BY <1>1 DEF PumpInv, QueueInv, Asked
<1>4. hand # NoCommand => Asked(hand)'
  BY <1>2 DEF PumpInv, QueueInv, Asked
<1>5. QueueInv'
  BY <1>3, <1>4 DEF PumpInv, QueueInv, Loaded
<1> QED BY <1>5 DEF PumpInv, StreamInv

\* A fold that leaves alone what is queued and what the streams work on.
LEMMA FoldPump ==
  ASSUME TypeOK, PumpInv, NEW e \in Event, Proper(e), Answered(mem, e),
         Folds(Reduce(mem, e)), hand' = NoCommand, Sound(proj'),
         \A c \in todo : mem'.status = "running" /\ mem'.nodes[c.node] = mem.nodes[c.node],
         \A n \in Nodes : Live(n)' => /\ Live(n) /\ mem'.status = "running" /\ n \notin Waits
                                      /\ mem'.nodes[n].st \in {"ready", "dispatched"}
                                      /\ mem'.nodes[n].att = streams'[n].att,
         \A c \in Reduce(mem, e).todo : c.type = "dispatchNode" => ~Live(c.node)',
         Loaded', pc' \notin {"requeue", "pump"} => todo' = {},
         pc' = "reconcile" /\ ending' # "none" => mem'.cancel # "none" /\ fact' = "none"
  PROVE  PumpInv'
<1>1. mem' = Reduce(mem, e).state /\ todo' = todo \cup Reduce(mem, e).todo
      /\ ending' = Reduce(mem, e).end
  BY DEF Folds
<1>2. /\ Sound(mem') /\ EndMove(mem', ending')
      /\ \A c \in Reduce(mem, e).todo : TodoMove(mem, e, mem', c)
  BY <1>1, FoldFacts DEF PumpInv
<1>3. \A c \in Reduce(mem, e).todo : Asked(c)'
  BY <1>2 DEF TodoMove, Asked
<1>4. \A c \in todo : c.node \in Nodes /\ Asked(c)
  BY DEF PumpInv, QueueInv, TypeOK, Command
<1>5. \A c \in todo : Asked(c)'
  BY <1>4 DEF Asked
<1>6. QueueInv'
  BY <1>1, <1>2, <1>3, <1>5 DEF QueueInv
<1> QED BY <1>2, <1>6 DEF PumpInv, StreamInv

\* No pump runs before the fold, so there is no stream and nothing in hand.
LEMMA FoldBefore ==
  ASSUME TypeOK, PumpInv, StreamsUnderPump, pc \in {"start", "enter", "reconcile"},
         NEW e \in Event, Proper(e), Answered(mem, e), Folds(Reduce(mem, e)),
         UNCHANGED <<hand, streams>>, Sound(proj'), Loaded',
         pc' \notin {"requeue", "pump"} => todo' = {},
         pc' = "reconcile" /\ ending' # "none" => mem'.cancel # "none" /\ fact' = "none"
  PROVE  PumpInv'
<1>1. todo = {} /\ hand' = NoCommand
  BY DEF PumpInv, QueueInv
<1>2. \A n \in Nodes : ~Live(n)'
  BY DEF StreamsUnderPump, Live
<1>3. \A c \in Reduce(mem, e).todo : c.node \in Nodes
  BY ReduceType DEF FoldResult, Command, TypeOK
<1> QED BY <1>1, <1>2, <1>3, FoldPump

LEMMA SyncToSound ==
  ASSUME TypeOK, Sound(proj), fact # "none", SyncTo(fact)
  PROVE  Sound(mem')
<1>1. /\ mem'.status = fact /\ mem'.nodes = proj.nodes /\ mem'.cancel = proj.cancel
  BY DEF SyncTo, TypeOK, RunState
<1>2. fact # "pending"
  BY DEF TypeOK, Terminal
<1> QED BY <1>1, <1>2 DEF Sound, NoneHeld

LEMMA RunEventFacts ==
  ASSUME NEW t \in RunEventType
  PROVE  /\ RunEvent(t) \in Event /\ RunEvent(t).type = t
         /\ Proper(RunEvent(t)) /\ \A s : Answered(s, RunEvent(t))
BY EventTypes DEF Proper, Answered, RunEventType

LEMMA TerminalizeSound ==
  ASSUME TypeOK, Sound(proj), Sound(mem), TerminalizeInterrupted
  PROVE  Sound(proj') /\ Sound(mem')
<1>1. CASE UNCHANGED <<proj, mem>>
  BY <1>1
<1>2. CASE fact # "none" /\ SyncTo(fact) /\ UNCHANGED durable
  BY <1>2, SyncToSound DEF durable
<1>3. CASE Logs(RunEvent("run.interrupted")) /\ mem' = proj'
  BY <1>3, LogFacts, RunEventFacts DEF RunEventType
<1> QED BY <1>1, <1>2, <1>3 DEF TerminalizeInterrupted, durable

LEMMA StartPumpInv ==
  ASSUME TypeOK, CancelInv, PumpInv, StartSteps
  PROVE  PumpInv'
<1> USE DEF durable, alarms, queueing, pumping, cancels, history, counters
<1>0. pc = "start" /\ StreamsUnderPump /\ todo = {} /\ hand = NoCommand /\ ending = "none"
  BY DEF StartSteps, StartRefused, StartCancelled, StartContext, StartRun, Starting,
         CancelInv, PumpInv, QueueInv, Loaded
<1>1. CASE StartRefused
  <2>1. TerminalizeInterrupted /\ pc' = "release" /\ UNCHANGED <<todo, ending, hand>>
    BY <1>1 DEF StartRefused, TerminalizeInterrupted
  <2> QED BY <1>0, <2>1, TerminalizeSound, QuietPump DEF PumpInv
<1>2. CASE StartCancelled
  <2>1. Sound(proj')
    BY <1>2, LogFacts, RunEventFacts DEF StartCancelled, AppendAndFold, RunEventType, PumpInv
  <2> QED BY <1>0, <1>2, <2>1, FoldBefore, RunEventFacts
          DEF StartCancelled, AppendAndFold, RunEventType, Loaded
<1>3. CASE StartContext
  BY <1>3, AsidePump DEF StartContext, Live, PumpInv
<1>4. CASE StartRun
  <2>1. Sound(proj')
    BY <1>4, LogFacts, RunEventFacts DEF StartRun, AppendAndFold, RunEventType, PumpInv
  <2> QED BY <1>0, <1>4, <2>1, FoldBefore, RunEventFacts
          DEF StartRun, AppendAndFold, RunEventType, Loaded
<1> QED BY <1>1, <1>2, <1>3, <1>4 DEF StartSteps

LEMMA SeedSound == Sound(Seed)
BY DEF Sound, Seed, NoneHeld

LEMMA ResumePump ==
  ASSUME TypeOK, PumpInv, StreamsUnderPump, pc \in {"enter", "reconcile"},
         LET r == Reduce(mem, RunEvent("run.resumed")) IN
           mem' = r.state /\ todo' = r.todo /\ ending' = r.end,
         UNCHANGED <<hand, streams, proj>>, pc' = "pump"
  PROVE  PumpInv'
<1>1. Folds(Reduce(mem, RunEvent("run.resumed")))
  BY DEF Folds, PumpInv, QueueInv
<1> QED BY <1>1, FoldBefore, RunEventFacts DEF RunEventType, Loaded, PumpInv

LEMMA LockPumpInv ==
  ASSUME TypeOK, CancelInv, PumpInv, LockSteps
  PROVE  PumpInv'
<1> USE DEF durable, alarms, queueing, pumping, cancels, history, counters
<1>0. StreamsUnderPump /\ Sound(proj) /\ Sound(mem)
  BY DEF CancelInv, PumpInv
<1>1. CASE Acquire
  <2>1. todo' = {} /\ hand' = NoCommand /\ ending' = "none" /\ pc' # "pump"
    BY <1>1 DEF Acquire, TerminalizeInterrupted, PumpInv, QueueInv, Loaded
  <2>2. Sound(proj') /\ Sound(mem')
    <3>1. CASE UNCHANGED <<proj, mem>>
      BY <1>0, <3>1
    <3>2. CASE fact # "none" /\ SyncTo(fact) /\ UNCHANGED durable
      BY <1>0, <3>2, SyncToSound
    <3>3. CASE mem' = proj /\ UNCHANGED durable
      BY <1>0, <3>3
    <3>4. CASE TerminalizeInterrupted
      BY <1>0, <3>4, TerminalizeSound
    <3> QED BY <1>1, <3>1, <3>2, <3>3, <3>4 DEF Acquire
  <2> QED BY <2>1, <2>2, QuietPump
<1>2. CASE EnterCancel
  <2>1. Sound(proj')
    BY <1>0, <1>2, LogFacts, RunEventFacts DEF EnterCancel, AppendAndFold, RunEventType
  <2>2. todo' = {}
    <3>1. todo = {} /\ Reduce(mem, RunEvent("run.cancelRequested")).todo = {}
      BY <1>2, CancelQueuesNothing, RunEventFacts
         DEF EnterCancel, PumpInv, QueueInv, TypeOK, RunEventType
    <3> QED BY <1>2, <3>1 DEF EnterCancel, AppendAndFold, Folds
  <2> QED BY <1>0, <1>2, <2>1, <2>2, FoldBefore, RunEventFacts
          DEF EnterCancel, AppendAndFold, RunEventType, Loaded
<1>3. CASE EnterResume
  <2>1. CASE mem.status = "pending"
    <3>1. /\ UNCHANGED <<proj, mem, todo, ending, hand, streams>> /\ pc = "enter" /\ pc' = "pump"
      BY <1>3, <2>1 DEF EnterResume
    <3>2. todo = {} /\ hand = NoCommand /\ EndMove(mem, ending)
      BY <3>1 DEF PumpInv, QueueInv
    <3>3. \A n \in Nodes : ~Live(n)'
      BY <1>0, <3>1 DEF StreamsUnderPump, Live
    <3> QED BY <1>0, <3>1, <3>2, <3>3 DEF PumpInv, QueueInv, StreamInv, Loaded
  <2>2. CASE mem.status # "pending"
    BY <1>0, <1>3, <2>2, ResumePump DEF EnterResume
  <2> QED BY <2>1, <2>2
<1>4. CASE Release
  <2>1. todo' = {} /\ hand' = NoCommand /\ ending' = "none" /\ pc' = "idle"
    BY <1>4 DEF Release, PumpInv, QueueInv, Loaded
  <2> QED BY <1>0, <1>4, <2>1, QuietPump, SeedSound DEF Release
<1>5. CASE SyncRow
  BY <1>0, <1>5, AsidePump DEF SyncRow, Live
<1> QED BY <1>1, <1>2, <1>3, <1>4, <1>5 DEF LockSteps

\* The pump never queues two commands for one node.
LEMMA OneCommand ==
  ASSUME TypeOK, PumpInv, NEW c \in todo, NEW d \in todo, c.node = d.node
  PROVE  c = d
<1>1. c \in Command /\ d \in Command
  BY DEF TypeOK
<1>2. Asked(c) /\ Asked(d)
  BY DEF PumpInv, QueueInv
<1>3. c.type = d.type /\ c.att = d.att
  BY <1>1, <1>2 DEF Asked, Command
<1> QED BY <1>1, <1>3 DEF Command

\* The events a pump folds.
PumpEvents == {"timer.waitScheduled", "node.retryScheduled", "node.dispatched", "node.succeeded",
               "node.failed", "run.waiting", "run.finished", "run.cancelRequested"}

NodeEvents == {"timer.waitScheduled", "node.retryScheduled", "node.dispatched", "node.succeeded",
               "node.failed"}

LEMMA PumpFold ==
  ASSUME TypeOK, PumpInv, pc = "pump", UNCHANGED pc, NEW e \in Event, e.type \in PumpEvents,
         Proper(e), Answered(mem, e), Folds(Reduce(mem, e)), hand' = NoCommand, Sound(proj'),
         \A c \in todo : e.type \in NodeEvents /\ c.node # e.node,
         \A n \in Nodes : Live(n)' => /\ Live(n) /\ streams'[n].att = streams[n].att
                                      /\ e.type \notin {"run.waiting", "run.finished"}
                                      /\ e.type \in NodeEvents /\ e.node = n =>
                                           e.type = "node.dispatched"
  PROVE  PumpInv'
<1>1. mem' = Reduce(mem, e).state
  BY DEF Folds
<1>2. /\ \A n \in Nodes : NodeMove(mem, e, mem', n)
      /\ StatusMove(mem, e, mem')
      /\ \A c \in Reduce(mem, e).todo : TodoMove(mem, e, mem', c)
  BY <1>1, FoldFacts DEF PumpInv
<1>3. \A c \in todo : mem'.status = "running" /\ mem'.nodes[c.node] = mem.nodes[c.node]
  <2> SUFFICES ASSUME NEW c \in todo
               PROVE  mem'.status = "running" /\ mem'.nodes[c.node] = mem.nodes[c.node]
    OBVIOUS
  <2>1. c.node \in Nodes /\ Asked(c)
    BY DEF PumpInv, QueueInv, TypeOK, Command
  <2>2. NodeMove(mem, e, mem', c.node) /\ c.node # e.node /\ e.type \in NodeEvents
    BY <1>2, <2>1
  <2>3. mem.status = "running" /\ mem.nodes[c.node].st \in {"ready", "retry_pending"}
    BY <2>1 DEF Asked
  <2>4. mem'.nodes[c.node] = mem.nodes[c.node]
    BY <2>2, <2>3 DEF NodeMove, OwnMove, WalkMove, RunMove, NodeEvents
  <2>5. mem'.status = "running"
    BY <1>2, <2>2, <2>3 DEF StatusMove, NodeEvents
  <2> QED BY <2>4, <2>5
<1>4. ASSUME NEW n \in Nodes, Live(n)'
      PROVE  /\ Live(n) /\ mem'.status = "running" /\ n \notin Waits
             /\ mem'.nodes[n].st \in {"ready", "dispatched"}
             /\ mem'.nodes[n].att = streams'[n].att
  <2>1. /\ Live(n) /\ mem.status = "running" /\ n \notin Waits
        /\ mem.nodes[n].st \in {"ready", "dispatched"} /\ mem.nodes[n].att = streams'[n].att
    BY <1>4 DEF PumpInv, StreamInv
  <2>2. NodeMove(mem, e, mem', n)
    BY <1>2
  <2>3. /\ e.type \notin {"run.waiting", "run.finished", "run.resumed"}
        /\ e.type \in NodeEvents /\ e.node = n => e.type = "node.dispatched"
    BY <1>4 DEF PumpEvents
  <2>4. mem'.status = "running"
    BY <1>2, <2>1, <2>3 DEF StatusMove, PumpEvents
  <2>5. /\ mem'.nodes[n].st \in {"ready", "dispatched"}
        /\ mem'.nodes[n].att = mem.nodes[n].att
    BY <2>1, <2>2, <2>3 DEF NodeMove, OwnMove, WalkMove, RunMove, PumpEvents, NodeEvents, Turns
  <2> QED BY <2>1, <2>4, <2>5
<1>5. ASSUME NEW c \in Reduce(mem, e).todo, c.type = "dispatchNode"
      PROVE  ~Live(c.node)'
  <2>1. c.node \in Nodes
    BY ReduceType DEF FoldResult, Command, TypeOK
  <2>2. mem.nodes[c.node].st = "pending"
    BY <1>2, <1>5 DEF TodoMove, PumpEvents
  <2>3. ~Live(c.node)
    BY <2>1, <2>2 DEF PumpInv, StreamInv
  <2> QED BY <2>1, <2>3
<1> QED BY <1>3, <1>4, <1>5, FoldPump DEF Loaded

\* What a stream offers.
LEMMA OfferedEventFacts ==
  ASSUME TypeOK, NEW n \in Nodes, streams[n].ph \in {"offerD", "offerR"}
  PROVE  /\ OfferedEvent(n) \in Event /\ OfferedEvent(n).node = n
         /\ OfferedEvent(n).att = streams[n].att
         /\ OfferedEvent(n).type \in {"node.dispatched", "node.succeeded", "node.failed"}
         /\ OfferedEvent(n).type = "node.dispatched" <=> streams[n].ph = "offerD"
<1>1. streams[n].att \in Nat /\ (streams[n].ph = "offerR" => streams[n].out \in Results)
  BY DEF TypeOK, StreamsType, Stream
<1>2. CASE streams[n].ph = "offerD"
  BY <1>1, <1>2, EventTypes DEF OfferedEvent, NodeEvent, NodeEventType
<1>3. CASE streams[n].ph = "offerR" /\ streams[n].out = "success"
  BY <1>1, <1>3, EventTypes DEF OfferedEvent, NodeEvent, NodeEventType
<1>4. CASE streams[n].ph = "offerR" /\ streams[n].out # "success"
  BY <1>1, <1>4, EventTypes DEF OfferedEvent, FailedEvent, Results, FailureKind
<1> QED BY <1>2, <1>3, <1>4

\* The outcome a pump logs is one its own state accepts.
LEMMA AcceptedOutcome ==
  ASSUME TypeOK, PumpInv, ending \in {"success", "failure", "cancelled"}, pc = "pump",
         NEW o, o = Accepted(mem, ending)
  PROVE  /\ o \in {"success", "failure", "cancelled"}
         /\ Reduce(mem, FinishedEvent(o)).state.status = o
         /\ mem.status \in {"pending", "running"}
<1>0. mem \in RunState
  BY DEF TypeOK
<1>1. EndMove(mem, ending)
  BY DEF PumpInv, QueueInv
<1>2. mem.status = "running" => Reduce(mem, FinishedEvent("failure")).state.status = "failure"
  BY <1>0 DEF Reduce, ReduceLive, OnFinished, FinishedEvent, Only, RunState
<1>3. mem.status = "pending" /\ mem.cancel # "none" =>
        Reduce(mem, FinishedEvent("cancelled")).state.status = "cancelled"
  BY <1>0 DEF Reduce, ReducePending, FinishedEvent, Only, RunState
<1>4. /\ o \in {"success", "failure", "cancelled"} /\ mem.status \in {"pending", "running"}
      /\ Reduce(mem, FinishedEvent(o)).state.status \in Terminal
  BY <1>1, <1>2, <1>3 DEF EndMove, Accepted, Terminal
<1>5. FinishedEvent(o) \in Event /\ FinishedEvent(o).type = "run.finished" /\ FinishedEvent(o).kind = o
  BY <1>4, EventTypes DEF FinishedEvent
<1>6. StatusMove(mem, FinishedEvent(o), Reduce(mem, FinishedEvent(o)).state)
  BY <1>0, <1>5, StatusMoves
<1> QED BY <1>4, <1>5, <1>6 DEF StatusMove, Terminal, UnparkEvents

LEMMA PumpPumpInv ==
  ASSUME TypeOK, CancelInv, PumpInv, PumpSteps
  PROVE  PumpInv'
<1> USE DEF durable, alarms, queueing, pumping, cancels, history, counters
<1>0. StreamsUnderPump /\ Sound(proj) /\ Sound(mem) /\ mem \in RunState
  BY DEF CancelInv, PumpInv, TypeOK
<1>1. CASE AppendScheduled
  <2> DEFINE e == NodeEvent(IF hand.type = "scheduleWait" THEN "timer.waitScheduled"
                            ELSE "node.retryScheduled", hand.node, hand.att)
  <2>1. hand \in Command /\ Asked(hand) /\ hand.type # "dispatchNode"
    BY <1>1 DEF AppendScheduled, TypeOK, PumpInv, QueueInv
  <2>2. /\ e \in Event /\ e.type \in {"timer.waitScheduled", "node.retryScheduled"}
        /\ e.node = hand.node
    <3>1. hand.node \in Nodes /\ hand.att \in Nat
      BY <2>1 DEF Command
    <3> QED BY <3>1, EventTypes DEF NodeEventType, NodeEvent
  <2>3. /\ pc = "pump" /\ AppendAndFold(e) /\ hand # NoCommand /\ hand' = NoCommand
        /\ UNCHANGED <<pc, streams>>
    BY <1>1 DEF AppendScheduled
  <2> HIDE DEF e
  <2>4. Proper(e) /\ Answered(mem, e)
    BY <2>2 DEF Proper, Answered
  <2>5. Sound(proj')
    BY <1>0, <2>2, <2>3, <2>4, LogFacts DEF AppendAndFold
  <2>6. \A c \in todo : c.node # hand.node
    BY <2>3 DEF PumpInv, QueueInv
  <2>7. \A n \in Nodes : Live(n) => n # hand.node
    BY <2>1, <2>3 DEF PumpInv, StreamInv, Asked
  <2> QED BY <2>2, <2>3, <2>4, <2>5, <2>6, <2>7, PumpFold
          DEF AppendAndFold, PumpEvents, NodeEvents, Live
<1>2. CASE Park
  <2>1. /\ pc = "pump" /\ AppendAndFold(RunEvent("run.waiting")) /\ hand' = NoCommand
        /\ UNCHANGED <<pc, streams>> /\ todo = {} /\ ending = "park"
    BY <1>2 DEF Park, Working
  <2>2. \A n \in Nodes : ~Live(n)
    BY <2>1 DEF PumpInv, QueueInv, EndMove, StreamInv, InFlight
  <2>3. Sound(proj')
    BY <1>0, <2>1, LogFacts, RunEventFacts DEF AppendAndFold, RunEventType
  <2> QED BY <2>1, <2>2, <2>3, PumpFold, RunEventFacts
          DEF AppendAndFold, PumpEvents, Live, RunEventType
<1>3. CASE FinishRun
  <2> DEFINE o == Accepted(mem, ending)
  <2>1. /\ pc = "pump" /\ AppendAndFold(FinishedEvent(o)) /\ hand' = NoCommand
        /\ UNCHANGED <<pc, streams>> /\ todo = {} /\ ending \in {"success", "failure", "cancelled"}
    BY <1>3 DEF FinishRun, Working
  <2>2. \A n \in Nodes : ~Live(n)
    BY <2>1 DEF PumpInv, QueueInv, EndMove, StreamInv, InFlight
  <2>3. /\ o \in {"success", "failure", "cancelled"}
        /\ Reduce(mem, FinishedEvent(o)).state.status \in Terminal
    BY <2>1, AcceptedOutcome DEF Terminal
  <2> HIDE DEF o
  <2>4. /\ FinishedEvent(o) \in Event /\ FinishedEvent(o).type = "run.finished"
        /\ Proper(FinishedEvent(o)) /\ Answered(mem, FinishedEvent(o))
    BY <2>3, EventTypes DEF Proper, Answered
  <2>5. Sound(proj')
    BY <1>0, <2>1, <2>4, LogFacts DEF AppendAndFold
  <2> QED BY <2>1, <2>2, <2>4, <2>5, PumpFold DEF AppendAndFold, PumpEvents, Live
<1>4. CASE FoldMarker
  <2>1. /\ pc = "pump" /\ AppendAndFold(RunEvent("run.cancelRequested")) /\ hand' = NoCommand
        /\ UNCHANGED pc /\ todo = {} /\ AbortRun
    BY <1>4 DEF FoldMarker, Waiting, QueueEmpty
  <2>2. \A n \in Nodes : streams'[n].ph = streams[n].ph /\ streams'[n].att = streams[n].att
    BY <2>1 DEF AbortRun, TypeOK, StreamsType, Stream
  <2>3. Sound(proj')
    BY <1>0, <2>1, LogFacts, RunEventFacts DEF AppendAndFold, RunEventType
  <2> QED BY <2>1, <2>2, <2>3, PumpFold, RunEventFacts
          DEF AppendAndFold, PumpEvents, NodeEvents, Live, RunEventType
<1>5. CASE PumpEnd
  <2>1. /\ todo' = {} /\ hand' = NoCommand /\ ending' = "none" /\ pc' = "drain"
        /\ UNCHANGED <<proj, mem>>
    BY <1>5 DEF PumpEnd, QueueEmpty
  <2> QED BY <1>0, <2>1, QuietPump
<1>6. CASE PumpReturn
  <2>1. todo' = {} /\ hand' = NoCommand /\ ending' = "none" /\ pc' = "release"
    BY <1>6 DEF PumpReturn, TerminalizeInterrupted, PumpInv, QueueInv, Loaded
  <2>2. Sound(proj') /\ Sound(mem')
    BY <1>0, <1>6, TerminalizeSound DEF PumpReturn
  <2> QED BY <2>1, <2>2, QuietPump
<1>7. ASSUME NEW n \in Nodes, Spawn(n)
      PROVE  PumpInv'
  <2>1. PICK c \in todo : /\ c.type = "dispatchNode" /\ c.node = n
                          /\ todo' = todo \ {c}
                          /\ streams' = [streams EXCEPT ![n] = [NoStream EXCEPT !.ph = "queued", !.att = c.att]]
    BY <1>7 DEF Spawn
  <2>2. /\ pc = "pump" /\ hand = NoCommand /\ UNCHANGED <<proj, mem, ending, hand, pc, fact, dirty>>
    BY <1>7 DEF Spawn, Working
  <2>3. Asked(c)
    BY DEF PumpInv, QueueInv
  <2>4. /\ streams'[n].att = c.att /\ streams'[n].ph = "queued"
        /\ \A m \in Nodes \ {n} : streams'[m] = streams[m]
    BY <2>1 DEF TypeOK, StreamsType, NoStream
  <2>5. \A d \in todo' : d \in todo /\ d.node # n /\ d.node \in Nodes
    BY <2>1, OneCommand DEF TypeOK, Command
  <2>6. \A d \in todo' : Asked(d)'
    BY <2>2, <2>4, <2>5 DEF PumpInv, QueueInv, Asked, Live
  <2>7. StreamInv'
    BY <2>1, <2>2, <2>3, <2>4 DEF PumpInv, StreamInv, Asked, Live
  <2>8. QueueInv'
    BY <2>2, <2>6 DEF PumpInv, QueueInv, Loaded
  <2> QED BY <1>0, <2>2, <2>7, <2>8 DEF PumpInv
<1>8. ASSUME NEW n \in Nodes, Arm(n)
      PROVE  PumpInv'
  <2>1. PICK c \in todo : c.type # "dispatchNode" /\ c.node = n /\ hand' = c /\ todo' = todo \ {c}
    BY <1>8 DEF Arm
  <2>2. /\ pc = "pump" /\ ~dirty /\ UNCHANGED <<proj, mem, ending, pc, fact, streams, dirty>>
    BY <1>8 DEF Arm, Working
  <2>3. \A d \in todo : Asked(d)'
    BY <2>2 DEF PumpInv, QueueInv, Asked, Live
  <2>4. \A d \in todo' : d \in todo /\ d.node # n
    BY <2>1, OneCommand
  <2>5. QueueInv'
    BY <2>1, <2>2, <2>3, <2>4 DEF PumpInv, QueueInv, Loaded
  <2>6. StreamInv'
    BY <2>2 DEF PumpInv, StreamInv, Live
  <2> QED BY <1>0, <2>2, <2>5, <2>6 DEF PumpInv
<1>9. ASSUME NEW n \in Nodes, FoldStream(n)
      PROVE  PumpInv'
  <2> DEFINE e == OfferedEvent(n)
  <2>1. /\ pc = "pump" /\ AppendAndFold(e) /\ hand' = NoCommand /\ UNCHANGED pc /\ todo = {}
        /\ streams[n].ph \in {"offerD", "offerR"}
        /\ streams' = [streams EXCEPT ![n] = IF @.ph = "offerD" THEN [@ EXCEPT !.ph = "slot"]
                                             ELSE NoStream]
    BY <1>9 DEF FoldStream, Waiting, QueueEmpty
  <2>2. n \notin Waits /\ mem.nodes[n].st # "pending"
    BY <2>1 DEF PumpInv, StreamInv, Live
  <2>3. /\ e \in Event /\ e.node = n /\ e.att = streams[n].att
        /\ e.type \in {"node.dispatched", "node.succeeded", "node.failed"}
        /\ e.type = "node.dispatched" <=> streams[n].ph = "offerD"
    BY <2>1, OfferedEventFacts
  <2> HIDE DEF e
  <2>4. Proper(e) /\ Answered(mem, e)
    BY <2>2, <2>3 DEF Proper, Answered
  <2>5. Sound(proj')
    BY <1>0, <2>1, <2>3, <2>4, LogFacts DEF AppendAndFold
  <2>6. \A m \in Nodes : Live(m)' => /\ Live(m) /\ streams'[m].att = streams[m].att
                                     /\ m = n => streams[n].ph = "offerD"
    BY <2>1 DEF TypeOK, StreamsType, Stream, Live, NoStream
  <2> QED BY <2>1, <2>3, <2>4, <2>5, <2>6, PumpFold DEF AppendAndFold, PumpEvents, NodeEvents
<1> QED BY <1>1, <1>2, <1>3, <1>4, <1>5, <1>6, <1>7, <1>8, <1>9 DEF PumpSteps

\* A stream that goes on keeps its attempt.
LEMMA StreamsGoOn ==
  ASSUME TypeOK, StreamSteps
  PROVE  /\ \A m \in Nodes : Live(m)' => Live(m) /\ streams'[m].att = streams[m].att
         /\ UNCHANGED <<durable, alarms, up, queueing, pumping, failing, cancels, counters>>
<1> USE DEF durable, alarms, queueing, pumping, cancels, history, counters
<1>1. PICK n \in Nodes : \/ OpenStream(n) \/ Preflight(n) \/ AbortQueued(n)
                         \/ StartAdapter(n) \/ AdapterEnds(n) \/ DropStream(n)
  BY DEF StreamSteps
<1>2. ASSUME NEW from, NEW to, NEW out, StreamStep(n, from, to, out), from # "none"
      PROVE  /\ \A m \in Nodes : Live(m)' => Live(m) /\ streams'[m].att = streams[m].att
             /\ UNCHANGED <<durable, alarms, up, queueing, pumping, failing, cancels, counters>>
  BY <1>2 DEF StreamStep, Live, TypeOK, StreamsType, Stream
<1>3. CASE StartAdapter(n)
  BY <1>3 DEF StartAdapter, Live, TypeOK, StreamsType, Stream
<1>4. CASE DropStream(n)
  BY <1>4 DEF DropStream, Live, TypeOK, StreamsType, Stream, NoStream
<1>5. CASE OpenStream(n) \/ Preflight(n)
  BY <1>2, <1>5 DEF OpenStream, Preflight
<1>6. CASE AbortQueued(n) \/ AdapterEnds(n)
  BY <1>2, <1>6 DEF AbortQueued, AdapterEnds
<1> QED BY <1>1, <1>3, <1>4, <1>5, <1>6

LEMMA StreamsPumpInv ==
  ASSUME TypeOK, PumpInv, StreamSteps
  PROVE  PumpInv'
<1>1. UNCHANGED <<proj, fact, mem, todo, ending, hand, pc, dirty>>
  BY StreamsGoOn DEF durable, pumping, queueing
<1> QED BY <1>1, StreamsGoOn, AsidePump DEF PumpInv

LEMMA FailedEventFacts ==
  ASSUME TypeOK, NEW s \in RunState, Sound(s), NEW n \in InState(s, "dispatched"),
         NEW e, e = FailedEvent(n, s.nodes[n].att, "cancelled")
                \/ e = NodeEvent("node.retryRequested", n, s.nodes[n].att)
  PROVE  /\ e \in Event /\ Proper(e) /\ e.node = n /\ e.att = s.nodes[n].att /\ n \in Nodes
         /\ e = FailedEvent(n, s.nodes[n].att, "cancelled") => e.type = "node.failed"
         /\ e = NodeEvent("node.retryRequested", n, s.nodes[n].att) =>
              e.type = "node.retryRequested"
<1>1. n \in Nodes /\ n \notin Waits /\ s.nodes[n].att \in Nat
  BY DEF InState, Sound, RunState, NodeState
<1>2. CASE e = FailedEvent(n, s.nodes[n].att, "cancelled")
  BY <1>1, <1>2, EventTypes DEF FailureKind, FailedEvent, NodeEvent, Proper
<1>3. CASE e = NodeEvent("node.retryRequested", n, s.nodes[n].att)
  BY <1>1, <1>3, EventTypes DEF NodeEventType, NodeEvent, FailedEvent, Proper
<1> QED BY <1>2, <1>3

LEMMA ReconcilePumpInv ==
  ASSUME TypeOK, CancelInv, PumpInv, ReconcileSteps
  PROVE  PumpInv'
<1> USE DEF durable, alarms, queueing, pumping, cancels, history, counters
<1>0. StreamsUnderPump /\ Sound(proj) /\ Sound(mem) /\ mem \in RunState
  BY DEF CancelInv, PumpInv, TypeOK
<1>a. pc = "reconcile" => todo = {} /\ hand = NoCommand /\ (ending # "none" => mem.cancel # "none" /\ fact = "none")
  BY DEF PumpInv, QueueInv
<1>1. CASE RcResync
  <2>1. /\ pc = "reconcile" /\ fact # "none" /\ SyncTo(fact) /\ pc' = "release"
        /\ UNCHANGED <<proj, todo, ending, hand>>
    BY <1>1 DEF RcResync, Reconciling
  <2> QED BY <1>0, <1>a, <2>1, SyncToSound, QuietPump
<1>2. CASE RcCancel
  <2> DEFINE e == RunEvent("run.cancelRequested")
  <2>0. /\ e \in Event /\ e.type = "run.cancelRequested" /\ Proper(e) /\ Answered(mem, e)
    BY RunEventFacts DEF RunEventType
  <2>1. /\ pc = "reconcile" /\ pc' = "reconcile" /\ fact = "none" /\ UNCHANGED <<hand, streams, fact>>
        /\ Logs(e) /\ Folds(Reduce(mem, e))
    BY <1>2 DEF RcCancel, Reconciling, AppendAndFold
  <2> HIDE DEF e
  <2>2. Sound(proj')
    BY <1>0, <2>0, <2>1, LogFacts
  <2>3. todo' = {}
    BY <1>0, <1>a, <2>0, <2>1, CancelQueuesNothing DEF Folds
  <2>4. ending' # "none" => mem'.cancel # "none"
    <3>1. CASE mem.status \in Terminal
      BY <1>0, <2>0, <2>1, <3>1, EndedStays DEF Folds, Only
    <3>2. CASE mem.status \notin Terminal
      BY <1>0, <2>0, <2>1, <3>2, CancelFlag DEF Folds
    <3> QED BY <3>1, <3>2
  <2> QED BY <1>0, <2>0, <2>1, <2>2, <2>3, <2>4, FoldBefore DEF Loaded
<1>3. CASE RcFinishCancelled
  <2>1. CASE mem.status = "pending"
    <3>1. /\ UNCHANGED <<proj, mem, todo, hand, streams>> /\ pc = "reconcile" /\ pc' = "pump"
          /\ ending' = "cancelled" /\ mem.cancel # "none"
      BY <1>3, <2>1 DEF RcFinishCancelled, RcUndecided, Reconciling
    <3>2. EndMove(mem, "cancelled")
      BY <1>0, <2>1, <3>1 DEF EndMove, Sound, InFlight
    <3>3. \A n \in Nodes : ~Live(n)'
      BY <1>0, <3>1 DEF StreamsUnderPump, Live
    <3> QED BY <1>0, <1>a, <3>1, <3>2, <3>3 DEF PumpInv, QueueInv, StreamInv, Loaded
  <2>2. CASE mem.status # "pending"
    BY <1>0, <1>3, <2>2, ResumePump DEF RcFinishCancelled, RcUndecided, Reconciling
  <2> QED BY <2>1, <2>2
<1>4. CASE RcInterrupt
  <2>1. /\ pc = "reconcile" /\ mem.cancel = "none" /\ pc' = "release"
        /\ Logs(RunEvent("run.interrupted"))
        /\ mem' = Reduce(mem, RunEvent("run.interrupted")).state
        /\ UNCHANGED <<todo, ending, hand>>
    BY <1>4 DEF RcInterrupt, RcUndecided, Reconciling
  <2>2. Sound(proj') /\ Sound(mem')
    BY <1>0, <2>1, LogFacts, FoldFacts, RunEventFacts DEF RunEventType
  <2> QED BY <1>a, <2>1, <2>2, QuietPump
<1>5. CASE RcHold
  <2>1. /\ pc = "reconcile" /\ mem.cancel = "none" /\ pc' = "release"
        /\ UNCHANGED <<proj, mem, todo, ending, hand>>
    BY <1>5 DEF RcHold, RcRecoverable, RcUndecided, Reconciling
  <2> QED BY <1>0, <1>a, <2>1, QuietPump
<1>6. CASE RcResume
  <2>1. /\ pc = "reconcile" /\ pc' = "requeue" /\ UNCHANGED <<hand, streams>>
        /\ Logs(RunEvent("run.resumed")) /\ Folds(Reduce(mem, RunEvent("run.resumed")))
    BY <1>6 DEF RcResume, RcRecoverable, RcUndecided, Reconciling
  <2>2. Sound(proj')
    BY <1>0, <2>1, LogFacts, RunEventFacts DEF RunEventType
  <2> QED BY <1>0, <2>1, <2>2, FoldBefore, RunEventFacts DEF RunEventType, Loaded
<1>7. CASE RcPump
  <2>1. /\ pc = "requeue" /\ pc' = "pump" /\ UNCHANGED <<proj, fact, mem, todo, ending, hand, streams>>
    BY <1>7 DEF RcPump
  <2>2. \A n \in Nodes : ~Live(n)'
    BY <1>0, <2>1 DEF StreamsUnderPump, Live
  <2>3. \A c \in todo : Asked(c)'
    BY <2>1 DEF PumpInv, QueueInv, Asked, Live
  <2>4. QueueInv'
    BY <2>1, <2>3 DEF PumpInv, QueueInv, Loaded
  <2> QED BY <1>0, <2>1, <2>2, <2>4 DEF PumpInv, StreamInv
<1>8. CASE Boot
  BY <1>0, <1>8, AsidePump DEF Boot, Live
<1>9. CASE BootDone
  BY <1>0, <1>9, AsidePump DEF BootDone, Live
<1>10. ASSUME NEW n \in Nodes, RcFailDispatched(n)
       PROVE  PumpInv'
  <2> DEFINE e == FailedEvent(n, mem.nodes[n].att, "cancelled")
  <2>1. /\ pc = "reconcile" /\ n \in InState(mem, "dispatched") /\ UNCHANGED <<pc, todo, ending, hand>>
        /\ Logs(e) /\ mem' = Reduce(mem, e).state
    BY <1>10 DEF RcFailDispatched, RcUndecided, Reconciling
  <2>2. e \in Event /\ Proper(e)
    BY <1>0, <2>1, FailedEventFacts
  <2> HIDE DEF e
  <2>3. Sound(proj') /\ Sound(mem')
    BY <1>0, <2>1, <2>2, LogFacts, FoldFacts
  <2>4. ending = "none"
    BY <2>1 DEF PumpInv, QueueInv, EndMove, InState, InFlight
  <2> QED BY <1>a, <2>1, <2>3, <2>4, QuietPump
<1>11. ASSUME NEW n \in Nodes, RcRearm(n)
       PROVE  PumpInv'
  BY <1>0, <1>11, AsidePump DEF RcRearm, Live
<1>12. ASSUME NEW n \in Nodes, RcRetry(n)
       PROVE  PumpInv'
  <2> DEFINE e == NodeEvent("node.retryRequested", n, mem.nodes[n].att)
  <2>1. /\ pc = "requeue" /\ n \in InState(mem, "dispatched") /\ UNCHANGED <<pc, hand, streams>>
        /\ Logs(e) /\ Folds(Reduce(mem, e))
    BY <1>12 DEF RcRetry
  <2>2. e \in Event /\ Proper(e) /\ e.type = "node.retryRequested" /\ e.node = n
    BY <1>0, <2>1, FailedEventFacts
  <2> HIDE DEF e
  <2>3. Sound(proj')
    BY <1>0, <2>1, <2>2, LogFacts
  <2>4. /\ \A m \in Nodes : NodeMove(mem, e, mem', m)
        /\ StatusMove(mem, e, mem') /\ Answered(mem, e)
    BY <1>0, <2>1, <2>2, FoldFacts DEF Folds, Answered
  <2>5. ASSUME NEW c \in todo
        PROVE  mem'.status = "running" /\ mem'.nodes[c.node] = mem.nodes[c.node]
    <3>1. c.node \in Nodes /\ Asked(c)
      BY DEF PumpInv, QueueInv, TypeOK, Command
    <3>2. mem.status = "running" /\ mem.nodes[c.node].st \in {"ready", "retry_pending"}
      BY <3>1 DEF Asked
    <3>3. c.node # n
      BY <2>1, <3>2 DEF InState
    <3>4. NodeMove(mem, e, mem', c.node)
      BY <2>4, <3>1
    <3>5. mem'.nodes[c.node] = mem.nodes[c.node]
      BY <2>2, <3>2, <3>3, <3>4 DEF NodeMove, OwnMove, WalkMove, RunMove
    <3> QED BY <2>2, <2>4, <3>2, <3>5 DEF StatusMove, UnparkEvents
  <2>6. \A m \in Nodes : ~Live(m)'
    BY <1>0, <2>1 DEF StreamsUnderPump, Live
  <2>7. \A c \in Reduce(mem, e).todo : c.node \in Nodes
    BY <1>0, <2>2, ReduceType DEF FoldResult, Command
  <2>8. hand' = NoCommand /\ Loaded' /\ pc' = "requeue"
    BY <2>1 DEF PumpInv, QueueInv, Loaded
  <2> QED BY <2>1, <2>2, <2>3, <2>4, <2>5, <2>6, <2>7, <2>8, FoldPump
<1> QED BY <1>1, <1>2, <1>3, <1>4, <1>5, <1>6, <1>7, <1>8, <1>9, <1>10, <1>11, <1>12
        DEF ReconcileSteps

LEMMA DueEventFacts ==
  ASSUME NEW n \in Nodes, NEW k \in Nat
  PROVE  /\ DueEvent(n, k) \in Event /\ Proper(DueEvent(n, k))
         /\ DueEvent(n, k).node = n /\ DueEvent(n, k).att = k
         /\ DueEvent(n, k).type = IF n \in Waits THEN "timer.due" ELSE "node.retryDue"
<1>1. DueEvent(n, k) \in Event
  BY EventTypes DEF DueEvent, NodeEventType
<1> QED BY <1>1 DEF DueEvent, NodeEvent, Proper

LEMMA OtherPumpInv ==
  ASSUME TypeOK, PumpInv, AlarmSteps \/ RequestCancel \/ LeaseReclaim \/ Mishaps \/ Over
  PROVE  PumpInv'
<1> USE DEF durable, alarms, queueing, pumping, cancels, history, counters
<1>0. Sound(proj) /\ Sound(mem)
  BY DEF PumpInv
<1>1. ASSUME NEW n \in Nodes, FireAlarm(n)
      PROVE  PumpInv'
  <2>1. PICK a \in armed : Logs(DueEvent(n, a[2])) /\ a[2] \in Nat
    BY <1>1 DEF FireAlarm, TypeOK
  <2>2. Sound(proj')
    BY <1>0, <2>1, LogFacts, DueEventFacts
  <2> QED BY <1>1, <2>2, AsidePump DEF FireAlarm, Live
<1>2. ASSUME NEW n \in Nodes, SuppressAlarm(n)
      PROVE  PumpInv'
  BY <1>0, <1>2, AsidePump DEF SuppressAlarm, Live
<1>3. CASE RequestCancel \/ LeaseReclaim \/ Over
  BY <1>0, <1>3, AsidePump DEF RequestCancel, LeaseReclaim, Over, vars, Live
<1>4. CASE Crash
  BY <1>0, <1>4, SeedSound, QuietPump DEF Crash
<1>5. CASE WriteThrows
  BY <1>0, <1>5, QuietPump DEF WriteThrows
<1>6. ASSUME NEW n \in Nodes, StreamThrows(n)
      PROVE  PumpInv'
  <2>1. \A m \in Nodes : Live(m)' => Live(m) /\ streams'[m].att = streams[m].att
    BY <1>6 DEF StreamThrows, Live, TypeOK, StreamsType, Stream, NoStream
  <2> QED BY <1>0, <1>6, <2>1, AsidePump DEF StreamThrows
<1> QED BY <1>1, <1>2, <1>3, <1>4, <1>5, <1>6 DEF AlarmSteps, Mishaps

LEMMA PumpInvStep ==
  ASSUME TypeOK, CancelInv, PumpInv, [Next]_vars
  PROVE  PumpInv'
<1>1. CASE UNCHANGED vars
  <2>1. UNCHANGED <<proj, fact, mem, todo, ending, hand, pc, streams, dirty>>
    BY <1>1 DEF vars, durable, pumping, queueing
  <2> QED BY <2>1, AsidePump DEF Live, PumpInv
<1>2. CASE Next
  BY <1>2, StartPumpInv, LockPumpInv, PumpPumpInv, StreamsPumpInv, ReconcilePumpInv, OtherPumpInv
     DEF Next
<1> QED BY <1>1, <1>2

LEMMA InitPumpInv == Init => PumpInv
BY SeedSound DEF Init, PumpInv, QueueInv, StreamInv, Loaded, EndMove

-----------------------------------------------------------------------------
(* The log, its end, the row and the pump's state.                          *)

Unborn == NeverStarted /\ fact = "none"

\* Where a run nothing is on record of may be: refused, about to start, or
\* left by a crash for the reconciler of the next boot.
Cradle ==
  /\ ~dirty /\ \A n \in Nodes : ~Live(n)
  /\ \/ row = "interrupted" /\ ~ctx /\ lockq = <<>> /\ pc \in {"release", "idle"}
     \/ /\ row = "pending" /\ lockq = <<>> /\ up = "up" /\ job = "start"
        /\ pc = "start" \/ (pc = "drain" /\ failing)
     \/ row = "pending" /\ pc = "idle" /\ up = "down" /\ lockq = <<>>
     \/ row = "pending" /\ pc = "idle" /\ up = "boot" /\ lockq = <<"reconcile">>

UnbornInv ==
  /\ pc = "start" => Unborn /\ mem = Seed
  /\ Unborn => Cradle

\* Where the log's end shows.
FactInv ==
  /\ fact # "none" => ~NeverStarted
  /\ proj.status \in Terminal => fact = proj.status
  /\ pc \in {"enter", "requeue"} => fact = "none"
  /\ pc = "pump" => IF mem.status \in Terminal THEN fact = mem.status ELSE fact = "none"
  /\ fact = "cancelled" => proj.cancel # "none"

Leads(s, t) == s = t \/ Lifecycle!Follows(s, t)

\* The row is at most one legal move behind the log's end and the pump.
RowInv ==
  /\ fact # "none" => Leads(row, fact)
  /\ fact = "none" /\ row \in Terminal => Unborn
  /\ fact = "none" /\ proj.status = "pending" => row \in {"pending", "interrupted"}
  /\ proj.status = "waiting" => row # "pending"
  /\ pc = "pump" /\ ~dirty => row = mem.status
  /\ \A n \in Nodes : Live(n) => row = "running"

DirtyInv ==
  dirty =>
    /\ pc \in {"enter", "reconcile", "pump", "release"}
    /\ Leads(row, mem.status)
    /\ mem.status \in Terminal => fact = mem.status
    /\ fact # "none" => Leads(mem.status, fact)
    /\ pc = "release" => fact # "none"

\* How a node of the pump's state, x, may differ from the log's, y.
Agrees(x, y) ==
  /\ x.att = y.att => x.retries = y.retries
  /\ y.st = "retry_pending" => x.st = "retry_pending" /\ x.att = y.att

\* How the pump's state may differ from the log's projection.
ViewInv ==
  /\ pc \in {"enter", "reconcile", "requeue"} => mem = proj
  /\ proj.status = "waiting" /\ fact = "none" => NoneHeld(proj)
  /\ pc = "pump" /\ fact = "none" =>
       /\ proj.status = "pending" => mem.status = "pending"
       /\ mem.cancel # "none" => proj.cancel # "none"
       /\ \A n \in Nodes : Agrees(mem.nodes[n], proj.nodes[n])

LifeInv == UnbornInv /\ FactInv /\ RowInv /\ DirtyInv /\ ViewInv

-----------------------------------------------------------------------------
(* What the steps of the drive do to the log, the row and the pump's state. *)

NoNewStream == \A n \in Nodes : Live(n)' => Live(n)

Beside ==
  /\ UNCHANGED <<proj, fact, row, mem, ending, dirty, pc>>
  /\ \A n \in Nodes : Live(n)' => Live(n) \/ (pc = "pump" /\ ~dirty /\ mem.status = "running")

Leaves ==
  /\ UNCHANGED <<proj, fact, row>> /\ ~dirty' /\ pc' \in {"idle", "release", "drain"}
  /\ NoNewStream

Loads ==
  /\ UNCHANGED <<proj, fact, row, ending>> /\ ~dirty' /\ mem' = proj /\ pc = "idle"
  /\ pc' = "reconcile" \/ (pc' = "enter" /\ fact = "none")
  /\ NoNewStream

Resyncs ==
  /\ UNCHANGED <<proj, fact, row>> /\ fact # "none" /\ SyncTo(fact) /\ pc' = "release"
  /\ NoNewStream

FoldsOn(e) ==
  /\ e \in Event /\ Proper(e) /\ Logs(e) /\ mem' = Reduce(mem, e).state
  /\ ending' = Reduce(mem, e).end \/ (mem.cancel # "none" /\ UNCHANGED ending)
  /\ fact = "none" /\ UNCHANGED <<fact, row>>
  /\ NoNewStream

PumpFolds(e) ==
  /\ FoldsOn(e) /\ e.type \in PumpEvents \ {"run.finished"}
  /\ pc = "pump" /\ pc' = "pump" /\ ~dirty /\ dirty'
  /\ e.type \in {"node.dispatched", "node.succeeded", "node.failed"} =>
       e.node \in Nodes /\ Live(e.node) /\ streams[e.node].att = e.att
  /\ e.type = "timer.waitScheduled" => hand = [type |-> "scheduleWait", node |-> e.node, att |-> e.att]
  /\ e.type = "run.waiting" <=> ending = "park"

JobFolds(e) ==
  /\ FoldsOn(e)
  /\ e.type \in {"run.cancelRequested", "run.resumed", "node.failed", "node.retryRequested"}
  /\ e.type = "node.retryRequested" => pc = "requeue" /\ e.node \in InState(mem, "dispatched")
  /\ pc \in {"enter", "reconcile", "requeue"} /\ pc' \in {"enter", "reconcile", "requeue"}
  /\ pc' = "requeue" => pc = "requeue" \/ NotProvablyIdempotent = {}
  /\ dirty' => pc' \in {"enter", "reconcile"}

StartFolds(e) ==
  /\ FoldsOn(e) /\ e.type \in {"run.started", "run.cancelRequested"}
  /\ pc = "start" /\ pc' = "pump" /\ dirty'

Resumes ==
  /\ UNCHANGED <<proj, fact, row>> /\ pc \in {"enter", "reconcile"} /\ fact = "none"
  /\ pc' = "pump" /\ dirty' /\ NoNewStream
  /\ IF mem.status = "pending" THEN UNCHANGED mem /\ ending' \in {ending, "cancelled"}
     ELSE LET r == Reduce(mem, RunEvent("run.resumed")) IN mem' = r.state /\ ending' = r.end

Requeued ==
  /\ UNCHANGED <<proj, fact, row, mem, ending>> /\ pc = "requeue" /\ pc' = "pump" /\ dirty'
  /\ NoNewStream

Finishes(o) ==
  /\ o \in {"success", "failure", "cancelled"}
  /\ Logs(FinishedEvent(o)) /\ mem' = Reduce(mem, FinishedEvent(o)).state
  /\ fact = "none" /\ mem'.status = o /\ fact' = o /\ UNCHANGED row
  /\ pc = "pump" /\ pc' = "pump" /\ ~dirty /\ dirty' /\ NoNewStream

Interrupts ==
  /\ Logs(RunEvent("run.interrupted")) /\ mem' = proj'
  /\ fact = "none" /\ fact' = "interrupted"
  /\ row \notin Terminal /\ UNCHANGED row
  /\ pc' = "release" /\ dirty' /\ NoNewStream

Refuses ==
  /\ LogEmpty /\ row \notin Terminal /\ row' = "interrupted"
  /\ UNCHANGED <<proj, fact, mem>> /\ pc' = "release" /\ ~dirty' /\ NoNewStream

Fires(n, k) ==
  /\ n \in Nodes /\ k \in Nat /\ Fresh(n, k) /\ Logs(DueEvent(n, k)) /\ row' = proj'.status
  /\ UNCHANGED <<fact, mem, ending, dirty, pc>> /\ ~dirty /\ lockq' = Append(lockq, "drive")
  /\ pc \in {"idle", "pump", "drain"}
  /\ pc = "pump" => mem.status = "running" /\ \E m \in Nodes : Live(m)
  /\ NoNewStream

Syncs ==
  /\ UNCHANGED <<proj, fact, mem, ending, pc>> /\ dirty /\ ~dirty' /\ row' = mem.status
  /\ NoNewStream

Step ==
  \/ Beside \/ Leaves \/ Loads \/ Resyncs \/ Resumes \/ Requeued \/ Interrupts \/ Refuses \/ Syncs
  \/ \E e \in Event : PumpFolds(e) \/ JobFolds(e) \/ StartFolds(e)
  \/ \E o \in {"success", "failure", "cancelled"} : Finishes(o)
  \/ \E n \in Nodes, k \in Nat : Fires(n, k)

LEMMA TerminalizeKinds ==
  ASSUME TypeOK, LifeInv, TerminalizeInterrupted, ~dirty, UNCHANGED streams
  PROVE  Leaves \/ Resyncs \/ Interrupts \/ Refuses
<1>0. NoNewStream
  BY DEF NoNewStream, Live
<1>1. CASE row \in Terminal
  BY <1>0, <1>1 DEF TerminalizeInterrupted, Leaves, durable
<1>2. CASE row \notin Terminal
  BY <1>0, <1>2 DEF TerminalizeInterrupted, Resyncs, Interrupts, Refuses, durable
<1> QED BY <1>1, <1>2

\* A run on record is not over until its log says so.
LEMMA OpenRow ==
  ASSUME LifeInv, fact = "none", pc \in {"enter", "reconcile", "requeue", "pump"}
  PROVE  /\ ~Unborn /\ row \notin Terminal
         /\ proj.status \notin Terminal
BY DEF LifeInv, UnbornInv, Cradle, RowInv, FactInv, Terminal

LEMMA StartKinds ==
  ASSUME TypeOK, LifeInv, StartSteps
  PROVE  Step
<1> USE DEF durable, alarms, queueing, pumping, cancels, history, counters
<1>0. pc = "start" /\ ~dirty /\ fact = "none"
  BY DEF StartSteps, StartRefused, StartCancelled, StartContext, StartRun, Starting,
         LifeInv, UnbornInv, Cradle, Unborn
<1>1. CASE StartRefused
  BY <1>0, <1>1, TerminalizeKinds DEF StartRefused, Step
<1>2. CASE StartCancelled
  <2>1. StartFolds(RunEvent("run.cancelRequested"))
    BY <1>0, <1>2, RunEventFacts DEF StartCancelled, AppendAndFold, Folds, StartFolds, FoldsOn,
       RunEventType, NoNewStream, Live
  <2> QED BY <2>1 DEF Step, StartFolds, FoldsOn
<1>3. CASE StartContext
  BY <1>3 DEF StartContext, Step, Beside, Live
<1>4. CASE StartRun
  <2>1. StartFolds(RunEvent("run.started"))
    BY <1>0, <1>4, RunEventFacts DEF StartRun, AppendAndFold, Folds, StartFolds, FoldsOn,
       RunEventType, NoNewStream, Live
  <2> QED BY <2>1 DEF Step, StartFolds, FoldsOn
<1> QED BY <1>1, <1>2, <1>3, <1>4 DEF StartSteps

LEMMA LockKinds ==
  ASSUME TypeOK, LifeInv, LockSteps
  PROVE  Step
<1> USE DEF durable, alarms, queueing, pumping, cancels, history, counters
<1>1. CASE Acquire
  <2>1. pc = "idle" /\ ~dirty /\ UNCHANGED streams
    BY <1>1 DEF Acquire, LifeInv, DirtyInv
  <2>2. NoNewStream
    BY <2>1 DEF NoNewStream, Live
  <2>3. CASE TerminalizeInterrupted
    BY <2>1, <2>3, TerminalizeKinds DEF Step
  <2>4. CASE ~TerminalizeInterrupted
    BY <1>1, <2>1, <2>2, <2>4 DEF Acquire, Step, Leaves, Loads, Resyncs
  <2> QED BY <2>3, <2>4
<1>2. CASE EnterCancel
  <2>1. JobFolds(RunEvent("run.cancelRequested"))
    <3>1. pc = "enter" /\ fact = "none"
      BY <1>2 DEF EnterCancel, LifeInv, FactInv
    <3> QED BY <1>2, <3>1, RunEventFacts DEF EnterCancel, AppendAndFold, Folds, JobFolds, FoldsOn,
       RunEventType, NoNewStream, Live
  <2> QED BY <2>1 DEF Step, JobFolds, FoldsOn
<1>3. CASE EnterResume
  <2>1. pc = "enter" /\ fact = "none"
    BY <1>3 DEF EnterResume, LifeInv, FactInv
  <2>2. Resumes
    BY <1>3, <2>1 DEF EnterResume, Resumes, NoNewStream, Live
  <2> QED BY <2>2 DEF Step
<1>4. CASE Release
  BY <1>4 DEF Release, Step, Leaves, NoNewStream, Live
<1>5. CASE SyncRow
  BY <1>5 DEF SyncRow, Step, Syncs, NoNewStream, Live
<1> QED BY <1>1, <1>2, <1>3, <1>4, <1>5 DEF LockSteps

LEMMA PumpKinds ==
  ASSUME TypeOK, PumpInv, LifeInv, PumpSteps
  PROVE  Step
<1> USE DEF durable, alarms, queueing, pumping, cancels, history, counters
<1>0. pc = "pump" /\ mem.status \notin Terminal => fact = "none"
  BY DEF LifeInv, FactInv
<1>1. CASE AppendScheduled
  <2> DEFINE e == NodeEvent(IF hand.type = "scheduleWait" THEN "timer.waitScheduled"
                            ELSE "node.retryScheduled", hand.node, hand.att)
  <2>1. hand \in Command /\ Asked(hand)
    BY <1>1 DEF AppendScheduled, TypeOK, PumpInv, QueueInv
  <2>2. /\ e \in Event /\ e.type \in {"timer.waitScheduled", "node.retryScheduled"}
        /\ e.type = "timer.waitScheduled" => hand = [type |-> "scheduleWait", node |-> e.node, att |-> e.att]
    <3>1. /\ hand.node \in Nodes /\ hand.att \in Nat
          /\ hand = [type |-> hand.type, node |-> hand.node, att |-> hand.att]
      BY <2>1 DEF Command
    <3> QED BY <3>1, EventTypes DEF NodeEventType, NodeEvent
  <2>3. /\ pc = "pump" /\ pc' = "pump" /\ AppendAndFold(e) /\ UNCHANGED <<fact, row, streams>>
        /\ hand # NoCommand
    BY <1>1 DEF AppendScheduled
  <2> HIDE DEF e
  <2>4. ~dirty /\ fact = "none" /\ ending # "park"
    <3>1. mem.nodes[hand.node].st \in {"ready", "retry_pending"} /\ hand.node \in Nodes
      BY <2>1, <2>3 DEF Asked, PumpInv, QueueInv, Command
    <3> QED BY <1>0, <2>1, <2>3, <3>1 DEF PumpInv, QueueInv, Asked, Terminal, EndMove, InFlight
  <2>5. PumpFolds(e)
    BY <2>2, <2>3, <2>4 DEF PumpFolds, FoldsOn, AppendAndFold, Folds, PumpEvents, Proper,
       NoNewStream, Live
  <2> QED BY <2>2, <2>5 DEF Step
<1>2. CASE Park
  <2>1. /\ pc = "pump" /\ ending = "park" /\ AppendAndFold(RunEvent("run.waiting"))
        /\ UNCHANGED <<fact, row, streams, pc>> /\ ~dirty
    BY <1>2 DEF Park, Working
  <2>2. fact = "none"
    BY <1>0, <2>1 DEF PumpInv, QueueInv, EndMove, Terminal
  <2>3. PumpFolds(RunEvent("run.waiting"))
    BY <2>1, <2>2, RunEventFacts DEF PumpFolds, FoldsOn, AppendAndFold, Folds, PumpEvents,
       NoNewStream, Live, RunEventType
  <2> QED BY <2>3 DEF Step, PumpFolds, FoldsOn
<1>3. CASE FinishRun
  <2> DEFINE o == Accepted(mem, ending)
  <2>1. /\ pc = "pump" /\ ending \in {"success", "failure", "cancelled"} /\ ~dirty
        /\ AppendAndFold(FinishedEvent(o)) /\ fact' = o
        /\ UNCHANGED <<row, streams, pc>>
    BY <1>3 DEF FinishRun, Working
  <2>2. /\ o \in {"success", "failure", "cancelled"}
        /\ Reduce(mem, FinishedEvent(o)).state.status = o
        /\ mem.status \in {"pending", "running"}
    BY <2>1, AcceptedOutcome
  <2> HIDE DEF o
  <2>3. fact = "none"
    BY <1>0, <2>1, <2>2 DEF Terminal
  <2>4. Finishes(o)
    BY <2>1, <2>2, <2>3 DEF Finishes, AppendAndFold, Folds, NoNewStream, Live
  <2> QED BY <2>2, <2>4 DEF Step
<1>4. CASE FoldMarker
  <2>1. /\ pc = "pump" /\ ~dirty /\ mem.status \notin Terminal /\ ending = "none"
        /\ AppendAndFold(RunEvent("run.cancelRequested"))
        /\ UNCHANGED <<fact, row, pc>> /\ AbortRun
    BY <1>4 DEF FoldMarker, Waiting, QueueEmpty
  <2>2. NoNewStream
    BY <2>1 DEF AbortRun, TypeOK, StreamsType, Stream, NoNewStream, Live
  <2>3. PumpFolds(RunEvent("run.cancelRequested"))
    BY <1>0, <2>1, <2>2, RunEventFacts DEF PumpFolds, FoldsOn, AppendAndFold, Folds, PumpEvents,
       RunEventType
  <2> QED BY <2>3 DEF Step, PumpFolds, FoldsOn
<1>5. CASE PumpEnd
  BY <1>5 DEF PumpEnd, QueueEmpty, Step, Leaves, NoNewStream, Live
<1>6. CASE PumpReturn
  <2>1. pc = "drain" /\ ~dirty /\ UNCHANGED streams
    BY <1>6 DEF PumpReturn, LifeInv, DirtyInv
  <2>2. NoNewStream
    BY <2>1 DEF NoNewStream, Live
  <2>3. CASE TerminalizeInterrupted
    BY <2>1, <2>3, TerminalizeKinds DEF Step
  <2>4. CASE ~TerminalizeInterrupted
    BY <1>6, <2>1, <2>2, <2>4 DEF PumpReturn, Step, Leaves
  <2> QED BY <2>3, <2>4
<1>7. ASSUME NEW n \in Nodes, Spawn(n)
      PROVE  Step
  <2>1. PICK c \in todo : /\ c.node = n
                          /\ streams' = [streams EXCEPT ![n] = [NoStream EXCEPT !.ph = "queued", !.att = c.att]]
    BY <1>7 DEF Spawn
  <2>2. /\ pc = "pump" /\ ~dirty /\ UNCHANGED <<proj, fact, row, mem, ending, dirty, pc>>
    BY <1>7 DEF Spawn, Working
  <2>3. mem.status = "running"
    BY DEF PumpInv, QueueInv, Asked
  <2> QED BY <2>2, <2>3 DEF Step, Beside
<1>8. ASSUME NEW n \in Nodes, Arm(n)
      PROVE  Step
  BY <1>8 DEF Arm, Step, Beside, Live
<1>9. ASSUME NEW n \in Nodes, FoldStream(n)
      PROVE  Step
  <2> DEFINE e == OfferedEvent(n)
  <2>1. /\ pc = "pump" /\ AppendAndFold(e) /\ UNCHANGED <<fact, row, pc>> /\ ~dirty
        /\ streams[n].ph \in {"offerD", "offerR"} /\ mem.status \notin Terminal /\ ending = "none"
        /\ streams' = [streams EXCEPT ![n] = IF @.ph = "offerD" THEN [@ EXCEPT !.ph = "slot"]
                                             ELSE NoStream]
    BY <1>9 DEF FoldStream, Waiting, QueueEmpty
  <2>2. n \notin Waits /\ Live(n)
    BY <2>1 DEF PumpInv, StreamInv, Live
  <2>3. /\ e \in Event /\ e.node = n /\ e.att = streams[n].att
        /\ e.type \in {"node.dispatched", "node.succeeded", "node.failed"}
    BY <2>1, OfferedEventFacts
  <2> HIDE DEF e
  <2>4. NoNewStream
    BY <2>1 DEF TypeOK, StreamsType, Stream, Live, NoStream, NoNewStream
  <2>5. PumpFolds(e)
    BY <1>0, <2>1, <2>2, <2>3, <2>4 DEF PumpFolds, FoldsOn, AppendAndFold, Folds, PumpEvents, Proper
  <2> QED BY <2>3, <2>5 DEF Step
<1> QED BY <1>1, <1>2, <1>3, <1>4, <1>5, <1>6, <1>7, <1>8, <1>9 DEF PumpSteps

LEMMA StreamsKinds ==
  ASSUME TypeOK, StreamSteps
  PROVE  Step
<1>1. UNCHANGED <<proj, fact, row, mem, ending, dirty, pc>>
  BY StreamsGoOn DEF durable, pumping, queueing
<1> QED BY <1>1, StreamsGoOn DEF Step, Beside

LEMMA ReconcileKinds ==
  ASSUME TypeOK, PumpInv, LifeInv, ReconcileSteps
  PROVE  Step
<1> USE DEF durable, alarms, queueing, pumping, cancels, history, counters
<1>0. /\ Sound(mem) /\ mem \in RunState
      /\ pc \in {"reconcile", "requeue"} => mem = proj
      /\ pc = "requeue" => fact = "none" /\ ~dirty
      /\ UNCHANGED streams => NoNewStream
  BY DEF PumpInv, TypeOK, LifeInv, ViewInv, FactInv, DirtyInv, NoNewStream, Live
<1>1. CASE RcResync
  BY <1>0, <1>1 DEF RcResync, Step, Resyncs
<1>2. CASE RcCancel
  <2>1. JobFolds(RunEvent("run.cancelRequested"))
    BY <1>0, <1>2, RunEventFacts DEF RcCancel, Reconciling, AppendAndFold, Folds, JobFolds, FoldsOn,
       RunEventType
  <2> QED BY <2>1 DEF Step, JobFolds, FoldsOn
<1>3. CASE RcFinishCancelled
  <2>1. Resumes
    BY <1>0, <1>3 DEF RcFinishCancelled, RcUndecided, Reconciling, Resumes
  <2> QED BY <2>1 DEF Step
<1>4. CASE RcInterrupt
  <2>1. /\ pc = "reconcile" /\ fact = "none" /\ Logs(RunEvent("run.interrupted"))
        /\ mem' = Reduce(mem, RunEvent("run.interrupted")).state /\ fact' = "interrupted"
        /\ dirty' /\ pc' = "release" /\ UNCHANGED <<row, streams>>
    BY <1>4 DEF RcInterrupt, RcUndecided, Reconciling
  <2>2. mem' = proj' /\ row \notin Terminal
    BY <1>0, <2>1, OpenRow DEF Logs
  <2> QED BY <1>0, <2>1, <2>2 DEF Step, Interrupts
<1>5. CASE RcHold
  BY <1>0, <1>5 DEF RcHold, RcRecoverable, RcUndecided, Reconciling, Step, Leaves
<1>6. CASE RcResume
  <2>1. JobFolds(RunEvent("run.resumed"))
    BY <1>0, <1>6, RunEventFacts DEF RcResume, RcRecoverable, RcUndecided, Reconciling, Folds,
       JobFolds, FoldsOn, RunEventType
  <2> QED BY <2>1 DEF Step, JobFolds, FoldsOn
<1>7. CASE RcPump
  BY <1>0, <1>7 DEF RcPump, Step, Requeued
<1>8. CASE Boot \/ BootDone
  BY <1>8 DEF Boot, BootDone, Step, Beside, Live
<1>10. ASSUME NEW n \in Nodes, RcFailDispatched(n)
       PROVE  Step
  <2> DEFINE e == FailedEvent(n, mem.nodes[n].att, "cancelled")
  <2>1. /\ pc = "reconcile" /\ n \in InState(mem, "dispatched")
        /\ UNCHANGED <<fact, row, pc, dirty, streams, ending>> /\ mem.cancel # "none"
        /\ Logs(e) /\ mem' = Reduce(mem, e).state /\ ~dirty /\ fact = "none"
    BY <1>10 DEF RcFailDispatched, RcUndecided, Reconciling
  <2>2. e \in Event /\ Proper(e) /\ e.type = "node.failed"
    BY <1>0, <2>1, FailedEventFacts
  <2> HIDE DEF e
  <2>3. JobFolds(e)
    BY <1>0, <2>1, <2>2 DEF JobFolds, FoldsOn
  <2> QED BY <2>2, <2>3 DEF Step
<1>11. ASSUME NEW n \in Nodes, RcRearm(n)
       PROVE  Step
  BY <1>11 DEF RcRearm, Step, Beside, Live
<1>12. ASSUME NEW n \in Nodes, RcRetry(n)
       PROVE  Step
  <2> DEFINE e == NodeEvent("node.retryRequested", n, mem.nodes[n].att)
  <2>1. /\ pc = "requeue" /\ n \in InState(mem, "dispatched") /\ UNCHANGED <<fact, row, pc, dirty, streams>>
        /\ Logs(e) /\ mem' = Reduce(mem, e).state /\ ending' = Reduce(mem, e).end
    BY <1>12 DEF RcRetry, Folds
  <2>2. e \in Event /\ Proper(e) /\ e.type = "node.retryRequested" /\ e.node = n
    BY <1>0, <2>1, FailedEventFacts
  <2> HIDE DEF e
  <2>3. JobFolds(e)
    BY <1>0, <2>1, <2>2 DEF JobFolds, FoldsOn
  <2> QED BY <2>2, <2>3 DEF Step
<1> QED BY <1>1, <1>2, <1>3, <1>4, <1>5, <1>6, <1>7, <1>8, <1>10, <1>11, <1>12
        DEF ReconcileSteps

LEMMA OtherKinds ==
  ASSUME TypeOK, PumpInv, LifeInv, AlarmSteps \/ RequestCancel \/ LeaseReclaim \/ Mishaps \/ Over
  PROVE  Step
<1> USE DEF durable, alarms, queueing, pumping, cancels, history, counters
<1>1. ASSUME NEW n \in Nodes, FireAlarm(n)
      PROVE  Step
  <2>1. PICK a \in armed : Logs(DueEvent(n, a[2])) /\ a[2] \in Nat /\ Fresh(n, a[2])
    BY <1>1 DEF FireAlarm, TypeOK
  <2>2. /\ AtAwait /\ row' = proj'.status /\ UNCHANGED <<fact, mem, ending, dirty, pc, streams>>
        /\ lockq' = Append(lockq, "drive")
    BY <1>1 DEF FireAlarm
  <2>3. /\ pc \in {"idle", "pump", "drain"} /\ ~dirty
        /\ pc = "pump" => mem.status = "running" /\ \E m \in Nodes : Live(m)
    BY <2>2 DEF AtAwait, Waiting, QueueEmpty, LifeInv, DirtyInv, PumpInv, StreamInv
  <2>4. Fires(n, a[2])
    BY <2>1, <2>2, <2>3 DEF Fires, NoNewStream, Live
  <2> QED BY <2>1, <2>4 DEF Step
<1>2. ASSUME NEW n \in Nodes, SuppressAlarm(n)
      PROVE  Step
  BY <1>2 DEF SuppressAlarm, Step, Beside, Live
<1>3. CASE RequestCancel \/ LeaseReclaim \/ Over
  BY <1>3 DEF RequestCancel, LeaseReclaim, Over, vars, Step, Beside, Live
<1>4. CASE Crash
  <2>1. NoNewStream
    BY <1>4 DEF Crash, NoNewStream, Live, NoStreams, NoStream
  <2> QED BY <1>4, <2>1 DEF Crash, Step, Leaves
<1>5. CASE WriteThrows
  BY <1>5 DEF WriteThrows, Step, Leaves, NoNewStream, Live
<1>6. ASSUME NEW n \in Nodes, StreamThrows(n)
      PROVE  Step
  <2>1. \A m \in Nodes : Live(m)' => Live(m)
    BY <1>6 DEF StreamThrows, Live, TypeOK, StreamsType, Stream, NoStream
  <2> QED BY <1>6, <2>1 DEF StreamThrows, Step, Beside
<1> QED BY <1>1, <1>2, <1>3, <1>4, <1>5, <1>6 DEF AlarmSteps, Mishaps

LEMMA StepKinds ==
  ASSUME TypeOK, PumpInv, LifeInv, [Next]_vars
  PROVE  Step
<1>1. CASE UNCHANGED vars
  BY <1>1 DEF vars, durable, pumping, queueing, Step, Beside, Live
<1>2. CASE Next
  BY <1>2, StartKinds, LockKinds, PumpKinds, StreamsKinds, ReconcileKinds, OtherKinds DEF Next
<1> QED BY <1>1, <1>2

-----------------------------------------------------------------------------
(* Facts about single folds that the invariants below need.                 *)

\* What is on record stays on record.
LEMMA LogStays ==
  ASSUME TypeOK, NEW e \in Event, Logs(e)
  PROVE  /\ proj'.status = "pending" => proj.status = "pending"
         /\ proj.cancel # "none" => proj'.cancel # "none"
         /\ NeverStarted' => NeverStarted
<1>1. StatusMove(proj, e, proj')
  BY StatusMoves DEF Logs, TypeOK
<1>2. e.type = "run.finished" => e.kind # "pending"
  BY DEF Event, RunEventType, NodeEventType
<1>3. proj'.status = "pending" => proj.status = "pending"
  BY <1>1, <1>2 DEF StatusMove
<1>4. proj.cancel # "none" => proj'.cancel # "none"
  BY CancelFlag DEF Logs, TypeOK
<1> QED BY <1>3, <1>4 DEF NeverStarted

LEMMA WaitingStays ==
  ASSUME NEW s, NEW e, s.status = "waiting", e.type \notin UnparkEvents
  PROVE  Reduce(s, e).state = s
BY DEF Reduce, Only

LEMMA StartedRuns ==
  ASSUME NEW s \in RunState, s.status = "pending"
  PROVE  Reduce(s, RunEvent("run.started")).state.status = "running"
<1>1. [s EXCEPT !.status = "running"] \in RunState /\ [s EXCEPT !.status = "running"].status = "running"
  BY DEF RunState, RunStatus
<1>2. Settle([s EXCEPT !.status = "running"]).state.status = "running"
  BY <1>1, SettleCancel
<1> QED BY <1>2 DEF Reduce, ReducePending, RunEvent

\* A state that nothing was folded onto is the seed.
LEMMA OnlySeed ==
  ASSUME NEW s \in RunState, Sound(s), s.status = "pending", s.cancel = "none"
  PROVE  s = Seed
<1>1. \A n \in Nodes : s.nodes[n] = [st |-> "pending", att |-> 0, retries |-> 0]
  <2> SUFFICES ASSUME NEW n \in Nodes PROVE s.nodes[n] = [st |-> "pending", att |-> 0, retries |-> 0]
    OBVIOUS
  <2>1. s.nodes[n].st = "pending" /\ s.nodes[n].att = 0
    BY DEF Sound
  <2>2. s.nodes[n] \in NodeState /\ s.nodes[n].retries = 0
    BY <2>1 DEF Sound, RunState, NodeState
  <2> QED BY <2>1, <2>2 DEF NodeState
<1>2. s.nodes = [n \in Nodes |-> [st |-> "pending", att |-> 0, retries |-> 0]]
  BY <1>1 DEF RunState
<1> QED BY <1>2 DEF Seed, RunState

\* Two states that agree about a failing attempt agree on holding its retry.
LEMMA SameRetry ==
  ASSUME NEW s \in RunState, NEW t \in RunState, NEW n \in Nodes,
         NEW e \in Event, e.type = "node.failed", e.node = n,
         s.status = "running", t.status = "running", s.cancel = "none", t.cancel = "none",
         s.nodes[n].st \in {"ready", "dispatched"}, s.nodes[n].att = e.att,
         t.nodes[n].st \in {"ready", "dispatched"}, t.nodes[n].att = e.att,
         s.nodes[n].retries = t.nodes[n].retries,
         Reduce(s, e).state.nodes[n].st = "retry_pending"
  PROVE  /\ Reduce(t, e).state.nodes[n].st = "retry_pending"
         /\ Reduce(t, e).state.nodes[n].att = t.nodes[n].att
<1>1. Reduce(s, e) = OnFailed(s, n, e.att, e.kind) /\ Reduce(t, e) = OnFailed(t, n, e.att, e.kind)
  BY DEF Reduce, ReduceLive
<1>2. RetryEligible(s, n, e.kind)
  <2> SUFFICES ASSUME ~RetryEligible(s, n, e.kind) PROVE FALSE
    OBVIOUS
  <2>1. Reduce(s, e) = Settle(WithNode(s, n, "failure"))
    BY <1>1 DEF OnFailed, Current
  <2>2. WithNode(s, n, "failure") \in RunState /\ WithNode(s, n, "failure").nodes[n].st = "failure"
    BY WithNodeTurns DEF NodeStatus, Turns
  <2>3. Settle(WithNode(s, n, "failure")).state.nodes[n].st = "failure"
    BY <2>2 DEF Settle, Walk, Dead, Startable, RunState
  <2> QED BY <2>1, <2>3
<1>3. RetryEligible(t, n, e.kind)
  BY <1>2 DEF RetryEligible
<1>4. Reduce(t, e).state = WithNode(t, n, "retry_pending")
  BY <1>1, <1>3 DEF OnFailed, Current
<1> QED BY <1>4, WithNodeTurns DEF NodeStatus, Turns

-----------------------------------------------------------------------------

LEMMA FactStep ==
  ASSUME TypeOK, PumpInv, LifeInv, Step
  PROVE  FactInv'
<1>0. /\ proj \in RunState /\ mem \in RunState /\ Sound(proj) /\ Sound(mem)
      /\ FactInv /\ ViewInv /\ UnbornInv /\ RowInv
  BY DEF TypeOK, PumpInv, LifeInv
<1>1. CASE Beside \/ Leaves \/ Loads \/ Resyncs \/ Refuses \/ Syncs
  BY <1>0, <1>1 DEF Beside, Leaves, Loads, Resyncs, Refuses, Syncs, FactInv, NeverStarted
<1>2. ASSUME NEW e \in Event, FoldsOn(e), e.type \notin {"run.finished", "run.interrupted"}
      PROVE  /\ proj'.status \notin Terminal
             /\ mem.status \notin Terminal => mem'.status \notin Terminal
  <2>1. StatusMove(proj, e, proj') /\ StatusMove(mem, e, mem')
    BY <1>0, <1>2, LogFacts, FoldFacts DEF FoldsOn
  <2>2. proj.status \notin Terminal
    BY <1>0, <1>2 DEF FoldsOn, FactInv, Terminal
  <2> QED BY <1>2, <2>1, <2>2 DEF StatusMove, Terminal
<1>3. ASSUME NEW e \in Event, PumpFolds(e)
      PROVE  FactInv'
  <2>1. FoldsOn(e) /\ e.type \notin {"run.finished", "run.interrupted"} /\ fact = "none" /\ fact' = "none"
    BY <1>3 DEF PumpFolds, PumpEvents, FoldsOn
  <2>2. mem.status \notin Terminal
    BY <1>0, <1>3, <2>1 DEF PumpFolds, FactInv, Terminal
  <2> QED BY <1>2, <1>3, <2>1, <2>2 DEF PumpFolds, FactInv
<1>4. ASSUME NEW e \in Event, JobFolds(e)
      PROVE  FactInv'
  <2>1. FoldsOn(e) /\ e.type \notin {"run.finished", "run.interrupted"} /\ fact' = "none"
    BY <1>4 DEF JobFolds, FoldsOn
  <2> QED BY <1>2, <1>4, <2>1 DEF JobFolds, FactInv
<1>5. ASSUME NEW e \in Event, StartFolds(e)
      PROVE  FactInv'
  <2>1. FoldsOn(e) /\ e.type \notin {"run.finished", "run.interrupted"} /\ fact' = "none"
    BY <1>5 DEF StartFolds, FoldsOn
  <2>2. mem.status \notin Terminal
    BY <1>0, <1>5 DEF StartFolds, UnbornInv, Cradle, Seed, Terminal
  <2> QED BY <1>2, <1>5, <2>1, <2>2 DEF StartFolds, FactInv
<1>6. CASE Resumes
  <2>1. mem = proj /\ fact = "none" /\ UNCHANGED <<proj, fact>> /\ pc' = "pump"
    BY <1>0, <1>6 DEF Resumes, ViewInv
  <2>2. mem.status \notin Terminal
    BY <1>0, <2>1 DEF FactInv, Terminal
  <2>3. mem'.status \notin Terminal
    <3>1. CASE mem' = mem
      BY <2>2, <3>1
    <3>2. CASE mem' = Reduce(mem, RunEvent("run.resumed")).state
      <4>1. StatusMove(mem, RunEvent("run.resumed"), mem') /\ RunEvent("run.resumed").type = "run.resumed"
        BY <1>0, <3>2, StatusMoves, RunEventFacts DEF RunEventType
      <4> QED BY <2>2, <4>1 DEF StatusMove, Terminal
    <3> QED BY <1>6, <3>1, <3>2 DEF Resumes
  <2> QED BY <1>0, <2>1, <2>3 DEF FactInv, NeverStarted
<1>7. CASE Requeued
  <2>1. mem = proj /\ fact = "none" /\ UNCHANGED <<proj, fact, mem>> /\ pc' = "pump"
    BY <1>0, <1>7 DEF Requeued, ViewInv, FactInv
  <2> QED BY <1>0, <2>1 DEF FactInv, NeverStarted, Terminal
<1>8. CASE Interrupts
  <2>1. StatusMove(proj, RunEvent("run.interrupted"), proj') /\ RunEvent("run.interrupted").type = "run.interrupted"
    BY <1>0, <1>8, StatusMoves, RunEventFacts DEF Interrupts, Logs, RunEventType
  <2>2. proj.status = "pending" => proj'.status = "interrupted"
    BY <1>0, <1>8 DEF Interrupts, Logs, Reduce, ReducePending, RunEvent, Only, RunState
  <2>3. proj'.status # "pending"
    BY <1>8, <2>1, <2>2, LogStays, RunEventFacts DEF Interrupts, RunEventType
  <2>4. fact' = "interrupted" /\ pc' = "release" /\ proj.status \notin Terminal
    BY <1>0, <1>8 DEF Interrupts, FactInv, Terminal
  <2> QED BY <2>1, <2>3, <2>4 DEF FactInv, NeverStarted, StatusMove, Terminal, UnparkEvents
<1>9. ASSUME NEW o \in {"success", "failure", "cancelled"}, Finishes(o)
      PROVE  FactInv'
  <2>1. /\ FinishedEvent(o) \in Event /\ FinishedEvent(o).type = "run.finished" /\ FinishedEvent(o).kind = o
        /\ Proper(FinishedEvent(o))
    BY EventTypes DEF FinishedEvent, Proper
  <2>2. StatusMove(proj, FinishedEvent(o), proj') /\ StatusMove(mem, FinishedEvent(o), mem')
    BY <1>0, <1>9, <2>1, StatusMoves DEF Finishes, Logs
  <2>3. fact = "none" /\ pc = "pump" /\ mem'.status = o /\ fact' = o /\ pc' = "pump"
    BY <1>9 DEF Finishes
  <2>4. proj.status \notin Terminal /\ mem.status \notin Terminal
    BY <1>0, <2>3 DEF FactInv, Terminal
  <2>5. proj'.status \in Terminal => proj'.status = o
    BY <2>1, <2>2, <2>4 DEF StatusMove, Terminal, UnparkEvents
  <2>6. /\ mem.status = "pending" => mem.cancel # "none" /\ o = "cancelled"
        /\ o = "cancelled" => mem.cancel # "none"
    BY <2>1, <2>2, <2>3, <2>4 DEF StatusMove, Terminal, UnparkEvents
  <2>7. mem.cancel # "none" => proj.cancel # "none"
    BY <1>0, <2>3 DEF ViewInv
  <2>8. proj.status = "pending" => mem.status = "pending"
    BY <1>0, <2>3 DEF ViewInv
  <2>9. /\ proj'.status = "pending" => proj.status = "pending"
        /\ proj.cancel # "none" => proj'.cancel # "none"
    BY <1>9, <2>1, LogStays DEF Finishes
  <2> QED BY <2>3, <2>5, <2>6, <2>7, <2>8, <2>9 DEF FactInv, NeverStarted, Terminal
<1>10. ASSUME NEW n \in Nodes, NEW k \in Nat, Fires(n, k)
       PROVE  FactInv'
  <2>1. /\ DueEvent(n, k) \in Event /\ DueEvent(n, k).type \in {"timer.due", "node.retryDue"}
    BY DueEventFacts
  <2>2. StatusMove(proj, DueEvent(n, k), proj')
    BY <1>0, <1>10, <2>1, StatusMoves DEF Fires, Logs
  <2>3. fact = "none" /\ UNCHANGED <<fact, mem, pc>>
    BY <1>10 DEF Fires, Fresh
  <2>4. proj'.status \notin Terminal
    BY <1>0, <2>1, <2>2, <2>3 DEF StatusMove, Terminal, FactInv
  <2> QED BY <1>0, <2>3, <2>4 DEF FactInv
<1> QED BY <1>1, <1>3, <1>4, <1>5, <1>6, <1>7, <1>8, <1>9, <1>10 DEF Step

LEMMA ParkStays ==
  ASSUME TypeOK, Sound(proj), NEW e \in Event, Proper(e), Logs(e),
         proj.status = "waiting" => NoneHeld(proj), e.type # "run.waiting",
         proj'.status = "waiting"
  PROVE  NoneHeld(proj')
<1>1. /\ StatusMove(proj, e, proj') /\ \A n \in Nodes : NodeMove(proj, e, proj', n)
  BY LogFacts
<1>2. proj.status = "waiting"
  <2>1. e.type = "run.finished" => e.kind # "waiting"
    BY DEF Event, RunEventType, NodeEventType
  <2> QED BY <1>1, <2>1 DEF StatusMove
<1>3. CASE e.type \notin UnparkEvents
  BY <1>2, <1>3, WaitingStays DEF Logs, NoneHeld
<1>4. CASE e.type \in UnparkEvents
  <2> SUFFICES ASSUME NEW n \in Nodes PROVE proj'.nodes[n].st # "retry_pending"
    BY DEF NoneHeld
  <2>1. NodeMove(proj, e, proj', n) /\ proj.nodes[n].st # "retry_pending"
    BY <1>1, <1>2 DEF NoneHeld
  <2> QED BY <1>4, <2>1 DEF NodeMove, OwnMove, WalkMove, RunMove, Turns, Renews, UnparkEvents
<1> QED BY <1>3, <1>4

\* One event folded onto both states.
LEMMA BothFold ==
  ASSUME TypeOK, PumpInv, NEW e \in Event, Proper(e), Logs(e), mem' = Reduce(mem, e).state,
         e.type \in PumpEvents, mem.cancel # "none" => proj.cancel # "none",
         proj.status \notin Terminal, NEW n \in Nodes, Agrees(mem.nodes[n], proj.nodes[n]),
         e.type = "node.failed" /\ e.node = n =>
           /\ mem.status = "running" /\ mem.nodes[n].att = e.att
           /\ mem.nodes[n].st \in {"ready", "dispatched"}
  PROVE  Agrees(mem'.nodes[n], proj'.nodes[n])
<1> DEFINE x == mem.nodes[n]
           y == proj.nodes[n]
           x1 == mem'.nodes[n]
           y1 == proj'.nodes[n]
<1>0. /\ NodeMove(mem, e, mem', n) /\ NodeMove(proj, e, proj', n)
      /\ Sound(mem') /\ Sound(proj') /\ proj' \in RunState /\ mem' \in RunState
      /\ proj \in RunState /\ mem \in RunState /\ Sound(mem) /\ Sound(proj)
  BY LogFacts, FoldFacts DEF PumpInv, TypeOK
<1>1. /\ x \in NodeState /\ y \in NodeState /\ x1 \in NodeState /\ y1 \in NodeState
      /\ x.retries < x.att \/ (x.att = 0 /\ x.retries = 0)
      /\ y.retries < y.att \/ (y.att = 0 /\ y.retries = 0)
      /\ x1.retries < x1.att \/ (x1.att = 0 /\ x1.retries = 0)
      /\ y1.retries < y1.att \/ (y1.att = 0 /\ y1.retries = 0)
      /\ x.st = "pending" => x.att = 0
      /\ y.st = "pending" => y.att = 0
  BY <1>0 DEF Sound, RunState
<1>2. /\ (x1.att = x.att /\ x1.retries = x.retries) \/ x1.att = 1
      /\ (y1.att = y.att /\ y1.retries = y.retries) \/ y1.att = 1
  BY <1>0, <1>1 DEF NodeMove, WalkMove, OwnMove, RunMove, Turns, Renews, PumpEvents
<1>3. x1.att = y1.att => x1.retries = y1.retries
  <2> SUFFICES ASSUME x1.att = y1.att PROVE x1.retries = y1.retries
    OBVIOUS
  <2>1. CASE x1.att = 1
    <3>1. x1.retries = 0 /\ y1.retries = 0
      BY <1>1, <2>1 DEF NodeState
    <3> QED BY <3>1
  <2>2. CASE x1.att # 1
    BY <1>2, <2>2 DEF Agrees
  <2> QED BY <2>1, <2>2
<1>4. ASSUME y1.st = "retry_pending"
      PROVE  x1.st = "retry_pending" /\ x1.att = y1.att
  <2>1. CASE y1 = y
    <3>1. x.st = "retry_pending" /\ x.att = y.att
      BY <1>4, <2>1 DEF Agrees
    <3>2. e.type # "run.cancelRequested"
      <4> SUFFICES ASSUME e.type = "run.cancelRequested" PROVE FALSE
        OBVIOUS
      <4>1. proj'.cancel # "none"
        BY <1>0, CancelFlag DEF Logs
      <4> QED BY <1>0, <1>4, <4>1 DEF Sound, NoneHeld
    <3>3. x1 = x
      BY <1>0, <3>1, <3>2 DEF NodeMove, WalkMove, OwnMove, RunMove, PumpEvents
    <3> QED BY <2>1, <3>1, <3>3
  <2>2. CASE y1 # y
    <3>1. /\ e.type = "node.failed" /\ e.node = n /\ y.att = e.att
          /\ y.st \in {"ready", "dispatched"} /\ proj.cancel = "none" /\ y1.att = y.att
      BY <1>0, <1>4, <2>2 DEF NodeMove, WalkMove, OwnMove, RunMove, Turns, Renews
    <3>2. proj.status = "running"
      <4>1. proj.status # "pending"
        BY <1>0, <3>1 DEF Sound
      <4>2. proj.status # "waiting"
        BY <2>2, <3>1, WaitingStays DEF Logs, UnparkEvents
      <4> QED BY <1>0, <4>1, <4>2 DEF RunState, RunStatus
    <3>3. x.retries = y.retries /\ mem.cancel = "none" /\ mem.status = "running"
          /\ x.att = e.att /\ x.st \in {"ready", "dispatched"}
      BY <3>1 DEF Agrees
    <3> QED BY <1>0, <1>4, <3>1, <3>2, <3>3, SameRetry DEF Logs
  <2> QED BY <2>1, <2>2
<1> QED BY <1>3, <1>4 DEF Agrees

LEMMA ViewStep ==
  ASSUME TypeOK, PumpInv, LifeInv, Step
  PROVE  ViewInv'
<1>0. /\ proj \in RunState /\ mem \in RunState /\ Sound(proj) /\ Sound(mem)
      /\ FactInv /\ ViewInv /\ UnbornInv
  BY DEF TypeOK, PumpInv, LifeInv
<1>1. CASE Beside \/ Leaves \/ Loads \/ Resyncs \/ Refuses \/ Syncs
  BY <1>0, <1>1 DEF Beside, Leaves, Loads, Resyncs, Refuses, Syncs, ViewInv
<1>3. ASSUME NEW e \in Event, PumpFolds(e)
      PROVE  ViewInv'
  <2>1. /\ Proper(e) /\ Logs(e) /\ mem' = Reduce(mem, e).state /\ fact = "none" /\ fact' = "none"
        /\ pc = "pump" /\ pc' = "pump" /\ e.type \in PumpEvents \ {"run.finished"}
    BY <1>3 DEF PumpFolds, FoldsOn
  <2>2. /\ proj.status \notin Terminal /\ mem.status \notin Terminal
        /\ proj.status = "pending" => mem.status = "pending"
        /\ mem.cancel # "none" => proj.cancel # "none"
        /\ \A n \in Nodes : Agrees(mem.nodes[n], proj.nodes[n])
    BY <1>0, <2>1 DEF FactInv, ViewInv, Terminal
  <2>3. \A n \in Nodes : Agrees(mem'.nodes[n], proj'.nodes[n])
    <3>1. e.type = "node.failed" =>
            /\ mem.status = "running" /\ mem.nodes[e.node].att = e.att
            /\ mem.nodes[e.node].st \in {"ready", "dispatched"}
      BY <1>3, <2>1 DEF PumpFolds, PumpInv, StreamInv
    <3> QED BY <2>1, <2>2, <3>1, BothFold
  <2>4. proj'.status = "pending" => mem'.status = "pending"
    <3>1. StatusMove(mem, e, mem') /\ (proj'.status = "pending" => proj.status = "pending")
      BY <1>0, <2>1, StatusMoves, LogStays
    <3> QED BY <2>1, <2>2, <3>1 DEF StatusMove, PumpEvents
  <2>5. mem'.cancel # "none" => proj'.cancel # "none"
    <3>1. CASE e.type = "run.cancelRequested"
      BY <1>0, <2>1, <2>2, <3>1, CancelFlag DEF Logs
    <3>2. CASE e.type # "run.cancelRequested"
      BY <1>0, <2>1, <2>2, <3>2, CancelFlag DEF Logs, SameCancel
    <3> QED BY <3>1, <3>2
  <2>6. proj'.status = "waiting" => NoneHeld(proj')
    <3>1. CASE e.type # "run.waiting"
      BY <1>0, <2>1, <3>1, ParkStays DEF ViewInv
    <3>2. CASE e.type = "run.waiting"
      <4> SUFFICES ASSUME NEW n \in Nodes PROVE proj'.nodes[n].st # "retry_pending"
        BY DEF NoneHeld
      <4>1. NodeMove(proj, e, proj', n)
        BY <1>0, <2>1, LogFacts
      <4>2. mem.nodes[n].st # "retry_pending"
        BY <1>3, <3>2 DEF PumpFolds, PumpInv, QueueInv, EndMove, InFlight
      <4>3. proj.nodes[n].st # "retry_pending"
        BY <2>2, <4>2 DEF Agrees
      <4> QED BY <3>2, <4>1, <4>3 DEF NodeMove, OwnMove, WalkMove, RunMove, Turns, Renews
    <3> QED BY <3>1, <3>2
  <2> QED BY <2>1, <2>3, <2>4, <2>5, <2>6 DEF ViewInv
<1>4. ASSUME NEW e \in Event, JobFolds(e)
      PROVE  ViewInv'
  <2>1. /\ Proper(e) /\ Logs(e) /\ mem' = Reduce(mem, e).state /\ fact = "none"
        /\ pc \in {"enter", "reconcile", "requeue"} /\ pc' # "pump" /\ e.type # "run.waiting"
    BY <1>4 DEF JobFolds, FoldsOn
  <2>2. mem' = proj'
    BY <1>0, <2>1 DEF ViewInv, Logs
  <2>3. proj'.status = "waiting" => NoneHeld(proj')
    BY <1>0, <2>1, ParkStays DEF ViewInv
  <2> QED BY <2>1, <2>2, <2>3 DEF ViewInv
<1>5. ASSUME NEW e \in Event, StartFolds(e)
      PROVE  ViewInv'
  <2>1. /\ Proper(e) /\ Logs(e) /\ mem' = Reduce(mem, e).state /\ fact = "none"
        /\ pc = "start" /\ pc' = "pump" /\ e.type # "run.waiting"
    BY <1>5 DEF StartFolds, FoldsOn
  <2>2. mem = Seed /\ proj = Seed
    BY <1>0, <2>1, OnlySeed DEF UnbornInv, Cradle, Unborn, NeverStarted
  <2>3. mem' = proj'
    BY <2>1, <2>2 DEF Logs
  <2>4. proj'.status = "waiting" => NoneHeld(proj')
    BY <1>0, <2>1, ParkStays DEF ViewInv
  <2> QED BY <2>1, <2>3, <2>4 DEF ViewInv, Agrees
<1>6. CASE Resumes
  <2>1. mem = proj /\ fact = "none" /\ UNCHANGED <<proj, fact>> /\ pc' = "pump"
    BY <1>0, <1>6 DEF Resumes, ViewInv
  <2>2. CASE mem.status = "pending"
    BY <1>0, <1>6, <2>1, <2>2 DEF ViewInv, Resumes, Agrees
  <2>3. CASE mem.status # "pending"
    <3> DEFINE e == RunEvent("run.resumed")
    <3>1. e \in Event /\ e.type = "run.resumed" /\ Proper(e)
      BY RunEventFacts DEF RunEventType
    <3>2. mem' = Reduce(mem, e).state
      BY <1>6, <2>3 DEF Resumes
    <3> HIDE DEF e
    <3>3. /\ \A n \in Nodes : NodeMove(mem, e, mem', n)
          /\ Sound(mem') /\ mem' \in RunState
      BY <1>0, <3>1, <3>2, FoldFacts
    <3>4. mem'.cancel # "none" => proj.cancel # "none"
      BY <1>0, <2>1, <3>1, <3>2, CancelFlag DEF SameCancel
    <3>5. ASSUME NEW n \in Nodes
          PROVE  Agrees(mem'.nodes[n], proj.nodes[n])
      <4>1. NodeMove(mem, e, mem', n) /\ mem.nodes[n] \in NodeState /\ mem'.nodes[n] \in NodeState
        BY <1>0, <3>3 DEF RunState
      <4>2. mem.nodes[n].st = "pending" => mem.nodes[n].att = 0
        BY <1>0 DEF Sound
      <4> QED BY <2>1, <3>1, <4>1, <4>2
              DEF NodeMove, OwnMove, WalkMove, RunMove, Turns, Renews, Agrees, NodeState, NodeEventType
    <3> QED BY <1>0, <2>1, <2>3, <3>4, <3>5 DEF ViewInv
  <2> QED BY <2>2, <2>3
<1>7. CASE Requeued
  <2>1. mem = proj /\ fact = "none" /\ UNCHANGED <<proj, fact, mem>> /\ pc' = "pump"
    BY <1>0, <1>7 DEF Requeued, ViewInv, FactInv
  <2> QED BY <1>0, <2>1 DEF ViewInv, Agrees
<1>8. CASE Interrupts
  BY <1>8 DEF Interrupts, ViewInv
<1>9. ASSUME NEW o \in {"success", "failure", "cancelled"}, Finishes(o)
      PROVE  ViewInv'
  BY <1>9 DEF Finishes, ViewInv
<1>10. ASSUME NEW n \in Nodes, NEW k \in Nat, Fires(n, k)
       PROVE  ViewInv'
  <2> DEFINE e == DueEvent(n, k)
  <2>1. /\ e \in Event /\ Proper(e) /\ e.node = n /\ e.att = k
        /\ e.type = IF n \in Waits THEN "timer.due" ELSE "node.retryDue"
    BY DueEventFacts
  <2>2. /\ Logs(e) /\ fact = "none" /\ UNCHANGED <<fact, mem, pc>>
        /\ pc \in {"idle", "pump", "drain"} /\ (pc = "pump" => mem.status = "running")
    BY <1>10 DEF Fires, Fresh
  <2> HIDE DEF e
  <2>3. /\ \A m \in Nodes : NodeMove(proj, e, proj', m)
        /\ Sound(proj') /\ proj' \in RunState
        /\ (proj'.status = "pending" => proj.status = "pending")
        /\ proj.cancel # "none" => proj'.cancel # "none"
    BY <1>0, <2>1, <2>2, LogFacts, LogStays
  <2>4. proj'.status = "waiting" => NoneHeld(proj')
    BY <1>0, <2>1, <2>2, ParkStays DEF ViewInv
  <2>5. ASSUME NEW m \in Nodes, pc = "pump"
        PROVE  Agrees(mem.nodes[m], proj'.nodes[m])
    <3>1. Agrees(mem.nodes[m], proj.nodes[m])
      BY <1>0, <2>2, <2>5 DEF ViewInv
    <3>2. /\ NodeMove(proj, e, proj', m) /\ proj.nodes[m] \in NodeState /\ proj'.nodes[m] \in NodeState
          /\ mem.nodes[m] \in NodeState
      BY <1>0, <2>3 DEF RunState
    <3>3. /\ proj.nodes[m].st = "pending" => proj.nodes[m].att = 0
          /\ mem.nodes[m].retries < mem.nodes[m].att \/ (mem.nodes[m].att = 0 /\ mem.nodes[m].retries = 0)
          /\ proj'.nodes[m].retries < proj'.nodes[m].att \/ (proj'.nodes[m].att = 0 /\ proj'.nodes[m].retries = 0)
      BY <1>0, <2>3 DEF Sound
    <3> QED BY <2>1, <3>1, <3>2, <3>3
            DEF NodeMove, OwnMove, WalkMove, RunMove, Turns, Renews, Agrees, NodeState
  <2> QED BY <1>0, <2>2, <2>3, <2>4, <2>5 DEF ViewInv
<1> QED BY <1>1, <1>3, <1>4, <1>5, <1>6, <1>7, <1>8, <1>9, <1>10 DEF Step

-----------------------------------------------------------------------------

\* An open run's row leads to what its log says.
LEMMA OpenLeads ==
  ASSUME NEW r \in RunStatus, NEW s \in RunStatus, r \notin Terminal, s \notin Terminal,
         s = "pending" => r = "pending", s = "waiting" => r # "pending"
  PROVE  Leads(r, s)
BY DEF RunStatus, Terminal, Leads, Lifecycle!Follows, Lifecycle!Ended

\* A fold moves the status along the lifecycle.
LEMMA StatusLeads ==
  ASSUME NEW s, NEW e, NEW t, StatusMove(s, e, t),
         e.type = "run.finished" => e.kind \in {"success", "failure", "cancelled"}
  PROVE  Leads(s.status, t.status)
BY DEF StatusMove, Leads, Lifecycle!Follows, Lifecycle!Ended

LEMMA FinishedFacts ==
  ASSUME NEW o \in {"success", "failure", "cancelled"}
  PROVE  /\ FinishedEvent(o) \in Event /\ Proper(FinishedEvent(o))
         /\ FinishedEvent(o).type = "run.finished" /\ FinishedEvent(o).kind = o
BY EventTypes DEF FinishedEvent, Proper

\* A due alarm finds the run running, or wakes it.
LEMMA FiresRun ==
  ASSUME TypeOK, PumpInv, LifeInv, NEW n \in Nodes, NEW k \in Nat, Fires(n, k)
  PROVE  proj'.status = "running"
<1>1. /\ fact = "none" /\ Current(proj, n, k)
      /\ proj.nodes[n].st = IF n \in Waits THEN "wait_pending" ELSE "retry_pending"
      /\ proj' = Reduce(proj, DueEvent(n, k)).state
  BY DEF Fires, Fresh, Logs
<1>2. /\ DueEvent(n, k) \in Event /\ DueEvent(n, k).node = n /\ DueEvent(n, k).att = k
      /\ DueEvent(n, k).type = IF n \in Waits THEN "timer.due" ELSE "node.retryDue"
  BY DueEventFacts
<1>3. /\ proj \in RunState /\ Sound(proj) /\ proj.status \notin Terminal
      /\ proj.status = "waiting" => NoneHeld(proj)
  BY <1>1 DEF TypeOK, PumpInv, LifeInv, FactInv, ViewInv, Terminal
<1>4. proj.status \in {"running", "waiting"}
  BY <1>1, <1>3 DEF Sound, RunState, RunStatus
<1>5. CASE n \in Waits
  <2>1. Reduce(proj, DueEvent(n, k)) = OnWaitDue(proj, n, k)
    BY <1>2, <1>4, <1>5 DEF Reduce, ReduceLive, UnparkEvents
  <2>2. OnWaitDue(proj, n, k).state.status = UnparkIfWaiting(proj).status
    BY <1>1, <1>3, <1>5, NodeHandlersStatus DEF FailureKind
  <2> QED BY <1>1, <1>3, <1>4, <2>1, <2>2, UnparkStatus
<1>6. CASE n \notin Waits
  <2>1. proj.status = "running"
    BY <1>1, <1>3, <1>4, <1>6 DEF NoneHeld
  <2>2. StatusMove(proj, DueEvent(n, k), proj')
    BY <1>1, <1>2, <1>3, StatusMoves
  <2> QED BY <1>2, <1>6, <2>1, <2>2 DEF StatusMove
<1> QED BY <1>5, <1>6

LEMMA RowStep ==
  ASSUME TypeOK, CancelInv, PumpInv, LifeInv, Step
  PROVE  RowInv'
<1>0. /\ proj \in RunState /\ mem \in RunState /\ Sound(proj) /\ Sound(mem) /\ row \in RunStatus
      /\ FactInv /\ ViewInv /\ UnbornInv /\ RowInv /\ DirtyInv /\ StreamsUnderPump
  BY DEF TypeOK, PumpInv, LifeInv, CancelInv
<1>a. ASSUME NEW e \in Event, Logs(e), e.type # "run.waiting"
      PROVE  /\ proj'.status = "pending" => proj.status = "pending"
             /\ proj'.status = "waiting" => proj.status = "waiting"
  <2>1. StatusMove(proj, e, proj')
    BY <1>0, <1>a, StatusMoves DEF Logs
  <2>2. e.type = "run.finished" => e.kind # "waiting"
    BY DEF Event, RunEventType, NodeEventType
  <2>3. proj'.status = "waiting" => proj.status = "waiting"
    BY <1>a, <2>1, <2>2 DEF StatusMove
  <2> QED BY <1>a, <2>3, LogStays
<1>1. CASE Beside
  BY <1>0, <1>1 DEF Beside, RowInv, Unborn, NeverStarted
<1>2. CASE Leaves \/ Loads \/ Resyncs \/ Resumes \/ Requeued
  <2>1. /\ UNCHANGED <<proj, fact, row>> /\ NoNewStream /\ (pc' = "pump" => dirty')
    BY <1>2 DEF Leaves, Loads, Resyncs, Resumes, Requeued
  <2> QED BY <1>0, <2>1 DEF RowInv, Unborn, NeverStarted, NoNewStream
<1>3. ASSUME NEW e \in Event, PumpFolds(e)
      PROVE  RowInv'
  <2>1. /\ Logs(e) /\ fact = "none" /\ fact' = "none" /\ row' = row /\ NoNewStream /\ dirty'
        /\ pc = "pump" /\ ~dirty
    BY <1>3 DEF PumpFolds, FoldsOn
  <2>2. row \notin Terminal
    BY <2>1, OpenRow
  <2>3. e.type = "run.waiting" => row = "running"
    BY <1>0, <1>3, <2>1 DEF PumpFolds, RowInv, PumpInv, QueueInv, EndMove
  <2>4. /\ proj'.status = "pending" => proj.status = "pending"
        /\ e.type # "run.waiting" /\ proj'.status = "waiting" => proj.status = "waiting"
    BY <1>a, <2>1, LogStays
  <2> QED BY <1>0, <2>1, <2>2, <2>3, <2>4 DEF RowInv, NoNewStream
<1>4. ASSUME NEW e \in Event, JobFolds(e)
      PROVE  RowInv'
  <2>1. /\ Logs(e) /\ fact = "none" /\ fact' = "none" /\ row' = row /\ NoNewStream
        /\ pc \in {"enter", "reconcile", "requeue"} /\ pc' # "pump" /\ e.type # "run.waiting"
    BY <1>4 DEF JobFolds, FoldsOn
  <2>2. row \notin Terminal
    BY <2>1, OpenRow
  <2> QED BY <1>0, <1>a, <2>1, <2>2 DEF RowInv, NoNewStream
<1>5. ASSUME NEW e \in Event, StartFolds(e)
      PROVE  RowInv'
  <2>1. /\ Logs(e) /\ fact = "none" /\ fact' = "none" /\ row' = row /\ NoNewStream /\ dirty'
        /\ pc = "start" /\ e.type # "run.waiting"
    BY <1>5 DEF StartFolds, FoldsOn
  <2>2. row = "pending" /\ proj.status = "pending"
    BY <1>0, <2>1 DEF UnbornInv, Cradle, Unborn, NeverStarted
  <2> QED BY <1>0, <1>a, <2>1, <2>2 DEF RowInv, NoNewStream, Terminal
<1>6. CASE Interrupts
  <2>1. /\ Logs(RunEvent("run.interrupted")) /\ fact' = "interrupted" /\ row \notin Terminal
        /\ row' = row /\ NoNewStream /\ pc' = "release"
    BY <1>6 DEF Interrupts
  <2>2. Leads(row, "interrupted")
    BY <1>0, <2>1 DEF RunStatus, Terminal, Leads, Lifecycle!Follows, Lifecycle!Ended
  <2>3. proj'.status = "waiting" => proj.status = "waiting"
    BY <1>a, <2>1, RunEventFacts DEF RunEventType
  <2> QED BY <1>0, <2>1, <2>2, <2>3 DEF RowInv, NoNewStream
<1>7. CASE Refuses
  <2>1. /\ proj = Seed /\ row' = "interrupted" /\ UNCHANGED <<proj, fact>> /\ NoNewStream
        /\ pc' = "release"
    BY <1>7 DEF Refuses, LogEmpty
  <2>2. NeverStarted /\ NeverStarted'
    BY <2>1 DEF NeverStarted, Seed
  <2>3. Unborn /\ Unborn'
    BY <1>0, <2>1, <2>2 DEF Unborn, FactInv
  <2> QED BY <1>0, <2>1, <2>3 DEF RowInv, NoNewStream, UnbornInv, Cradle, Unborn, NeverStarted
<1>8. CASE Syncs
  <2>1. /\ row' = mem.status /\ UNCHANGED <<proj, fact, mem, pc>> /\ dirty /\ NoNewStream
    BY <1>8 DEF Syncs
  <2>2. /\ pc \in {"enter", "reconcile", "pump", "release"} /\ Leads(row, mem.status)
        /\ mem.status \in Terminal => fact = mem.status
        /\ fact # "none" => Leads(mem.status, fact)
        /\ pc = "release" => fact # "none"
    BY <1>0, <2>1 DEF DirtyInv
  <2>3. fact = "none" /\ proj.status = "pending" => mem.status = "pending"
    BY <1>0, <2>1, <2>2 DEF ViewInv
  <2>4. proj.status = "waiting" => mem.status # "pending"
    BY <1>0, <2>2 DEF RowInv, Leads, Lifecycle!Follows, Lifecycle!Ended
  <2>5. \A n \in Nodes : Live(n) => mem.status = "running"
    BY <1>0, <2>2 DEF StreamsUnderPump, PumpInv, StreamInv
  <2>6. fact = "none" => mem.status \notin Terminal
    BY <2>2 DEF Terminal
  <2> QED BY <2>1, <2>2, <2>3, <2>4, <2>5, <2>6 DEF RowInv, NoNewStream
<1>9. ASSUME NEW o \in {"success", "failure", "cancelled"}, Finishes(o)
      PROVE  RowInv'
  <2>1. /\ Logs(FinishedEvent(o)) /\ mem' = Reduce(mem, FinishedEvent(o)).state /\ mem'.status = o
        /\ fact' = o /\ row' = row /\ NoNewStream /\ dirty' /\ pc = "pump" /\ ~dirty
    BY <1>9 DEF Finishes
  <2>2. row = mem.status
    BY <1>0, <2>1 DEF RowInv
  <2>3. StatusMove(mem, FinishedEvent(o), mem')
    BY <1>0, <2>1, StatusMoves, FinishedFacts
  <2>4. Leads(row, o)
    BY <2>1, <2>2, <2>3, StatusLeads, FinishedFacts
  <2>5. proj'.status = "waiting" => proj.status = "waiting"
    BY <1>a, <2>1, FinishedFacts
  <2> QED BY <1>0, <2>1, <2>4, <2>5 DEF RowInv, NoNewStream
<1>10. ASSUME NEW n \in Nodes, NEW k \in Nat, Fires(n, k)
       PROVE  RowInv'
  <2>1. proj'.status = "running"
    BY <1>10, FiresRun
  <2>2. /\ row' = "running" /\ fact' = "none" /\ UNCHANGED <<mem, pc>> /\ NoNewStream
        /\ (pc = "pump" => mem.status = "running")
    BY <1>10, <2>1 DEF Fires, Fresh
  <2> QED BY <2>1, <2>2 DEF RowInv, Terminal
<1> QED BY <1>1, <1>2, <1>3, <1>4, <1>5, <1>6, <1>7, <1>8, <1>9, <1>10 DEF Step

LEMMA DirtyStep ==
  ASSUME TypeOK, TypeOK', PumpInv, LifeInv, Step, FactInv', ViewInv', RowInv'
  PROVE  DirtyInv'
<1>0. /\ proj \in RunState /\ mem \in RunState /\ row \in RunStatus /\ mem' \in RunState
      /\ proj' \in RunState
      /\ FactInv /\ ViewInv /\ UnbornInv /\ RowInv /\ DirtyInv
  BY DEF TypeOK, PumpInv, LifeInv
<1>1. CASE Beside
  BY <1>0, <1>1 DEF Beside, DirtyInv
<1>2. CASE Leaves \/ Loads \/ Refuses \/ Syncs
  BY <1>2 DEF Leaves, Loads, Refuses, Syncs, DirtyInv
<1>3. CASE Resyncs
  <2>1. mem'.status = fact /\ UNCHANGED <<fact, row>> /\ fact # "none" /\ pc' = "release"
    BY <1>0, <1>3 DEF Resyncs, SyncTo, RunState
  <2> QED BY <1>0, <2>1 DEF DirtyInv, RowInv, Leads
<1>4. ASSUME NEW e \in Event, PumpFolds(e)
      PROVE  DirtyInv'
  <2>1. /\ mem' = Reduce(mem, e).state /\ fact' = "none" /\ row' = row /\ pc' = "pump"
        /\ pc = "pump" /\ ~dirty /\ e.type # "run.finished"
    BY <1>4 DEF PumpFolds, FoldsOn
  <2>2. Leads(row, mem'.status)
    BY <1>0, <2>1, StatusMoves, StatusLeads DEF RowInv
  <2>3. mem'.status \notin Terminal
    BY <2>1 DEF FactInv, Terminal
  <2> QED BY <2>1, <2>2, <2>3 DEF DirtyInv
<1>5. ASSUME NEW e \in Event, JobFolds(e)
      PROVE  DirtyInv'
  <2>1. /\ fact = "none" /\ fact' = "none" /\ row' = row /\ pc \in {"enter", "reconcile", "requeue"}
        /\ pc' \in {"enter", "reconcile", "requeue"} /\ (dirty' => pc' \in {"enter", "reconcile"})
    BY <1>5 DEF JobFolds, FoldsOn
  <2>2. row \notin Terminal
    BY <2>1, OpenRow
  <2>3. mem' = proj' /\ proj'.status \notin Terminal
    BY <2>1 DEF ViewInv, FactInv, Terminal
  <2>4. /\ proj'.status = "pending" => row = "pending"
        /\ proj'.status = "waiting" => row # "pending"
    BY <2>1, <2>2 DEF RowInv, Terminal
  <2>5. proj'.status \in RunStatus
    BY <1>0 DEF RunState
  <2>6. Leads(row, proj'.status)
    BY <1>0, <2>2, <2>3, <2>4, <2>5, OpenLeads
  <2> QED BY <2>1, <2>3, <2>6 DEF DirtyInv
<1>6. ASSUME NEW e \in Event, StartFolds(e)
      PROVE  DirtyInv'
  <2>1. /\ mem' = Reduce(mem, e).state /\ fact' = "none" /\ row' = row /\ pc' = "pump"
        /\ pc = "start" /\ e.type # "run.finished"
    BY <1>6 DEF StartFolds, FoldsOn
  <2>2. row = "pending" /\ mem.status = "pending"
    BY <1>0, <2>1 DEF UnbornInv, Cradle, Unborn, NeverStarted, Seed
  <2>3. Leads(row, mem'.status)
    BY <1>0, <2>1, <2>2, StatusMoves, StatusLeads
  <2>4. mem'.status \notin Terminal
    BY <2>1 DEF FactInv, Terminal
  <2> QED BY <2>1, <2>3, <2>4 DEF DirtyInv
<1>7. CASE Resumes \/ Requeued
  <2>1. /\ UNCHANGED <<proj, fact, row>> /\ fact = "none" /\ pc' = "pump" /\ mem = proj
        /\ pc \in {"enter", "reconcile", "requeue"}
    BY <1>0, <1>7 DEF Resumes, Requeued, ViewInv, FactInv
  <2>2. row \notin Terminal /\ proj.status \notin Terminal
    BY <2>1, OpenRow
  <2>3. Leads(row, proj.status)
    <3>1. /\ proj.status = "pending" => row = "pending"
          /\ proj.status = "waiting" => row # "pending"
      BY <1>0, <2>1, <2>2 DEF RowInv, Terminal
    <3>2. proj.status \in RunStatus
      BY <1>0 DEF RunState
    <3> QED BY <1>0, <2>2, <3>1, <3>2, OpenLeads
  <2>4. mem'.status = mem.status \/ (mem.status = "waiting" /\ mem'.status = "running")
    <3>1. CASE mem' = Reduce(mem, RunEvent("run.resumed")).state
      <4>1. StatusMove(mem, RunEvent("run.resumed"), mem') /\ RunEvent("run.resumed").type = "run.resumed"
        BY <1>0, <3>1, StatusMoves, RunEventFacts DEF RunEventType
      <4> QED BY <4>1 DEF StatusMove
    <3> QED BY <1>7, <3>1 DEF Resumes, Requeued
  <2>5. Leads(row, mem'.status)
    BY <1>0, <2>1, <2>2, <2>3, <2>4 DEF Leads, RunStatus, Terminal, Lifecycle!Follows, Lifecycle!Ended
  <2>6. mem'.status \notin Terminal
    BY <2>1, <2>2, <2>4 DEF Terminal
  <2> QED BY <2>1, <2>5, <2>6 DEF DirtyInv
<1>8. CASE Interrupts
  <2>1. /\ Logs(RunEvent("run.interrupted")) /\ fact = "none" /\ fact' = "interrupted"
        /\ row \notin Terminal /\ row' = row /\ pc' = "release" /\ mem' = proj'
    BY <1>8 DEF Interrupts
  <2>2. proj'.status = proj.status \/ proj'.status = "interrupted"
    <3>1. /\ StatusMove(proj, RunEvent("run.interrupted"), proj')
          /\ RunEvent("run.interrupted").type = "run.interrupted"
      BY <1>0, <2>1, StatusMoves, RunEventFacts DEF RunEventType, Logs
    <3> QED BY <3>1 DEF StatusMove, UnparkEvents
  <2>3. proj.status \notin Terminal /\ proj.status \in RunStatus
    BY <1>0, <2>1 DEF FactInv, Terminal, RunState
  <2>4. Leads(row, proj.status)
    <3>1. /\ proj.status = "pending" => row = "pending"
          /\ proj.status = "waiting" => row # "pending"
      BY <1>0, <2>1 DEF RowInv, Terminal
    <3> QED BY <1>0, <2>1, <2>3, <3>1, OpenLeads
  <2>5. Leads(row, "interrupted") /\ Leads(proj.status, "interrupted") /\ Leads("interrupted", "interrupted")
    BY <1>0, <2>1, <2>3 DEF Leads, RunStatus, Terminal, Lifecycle!Follows, Lifecycle!Ended
  <2> QED BY <2>1, <2>2, <2>3, <2>4, <2>5 DEF DirtyInv
<1>9. ASSUME NEW o \in {"success", "failure", "cancelled"}, Finishes(o)
      PROVE  DirtyInv'
  <2>1. mem'.status = o /\ fact' = o /\ pc' = "pump" /\ row' = row
    BY <1>9 DEF Finishes
  <2>2. Leads(row', o)
    BY <2>1 DEF RowInv
  <2> QED BY <2>1, <2>2 DEF DirtyInv, Leads
<1>10. ASSUME NEW n \in Nodes, NEW k \in Nat, Fires(n, k)
       PROVE  DirtyInv'
  BY <1>10 DEF Fires, DirtyInv
<1> QED BY <1>1, <1>2, <1>3, <1>4, <1>5, <1>6, <1>7, <1>8, <1>9, <1>10 DEF Step

-----------------------------------------------------------------------------

LEMMA StillUnborn ==
  ASSUME TypeOK, Step, Unborn'
  PROVE  Unborn
<1>1. CASE UNCHANGED <<proj, fact>>
  BY <1>1 DEF Unborn, NeverStarted
<1>2. ASSUME NEW e \in Event, Logs(e), fact = "none"
      PROVE  Unborn
  BY <1>2, LogStays DEF Unborn
<1>3. CASE \E e \in Event : PumpFolds(e) \/ JobFolds(e) \/ StartFolds(e)
  BY <1>2, <1>3 DEF PumpFolds, JobFolds, StartFolds, FoldsOn
<1>4. CASE \E n \in Nodes, k \in Nat : Fires(n, k)
  BY <1>2, <1>4, DueEventFacts DEF Fires, Fresh
<1>5. CASE Interrupts \/ \E o \in {"success", "failure", "cancelled"} : Finishes(o)
  BY <1>5 DEF Interrupts, Finishes, Unborn
<1>6. CASE Beside \/ Leaves \/ Loads \/ Resyncs \/ Resumes \/ Requeued \/ Refuses \/ Syncs
  BY <1>1, <1>6 DEF Beside, Leaves, Loads, Resyncs, Resumes, Requeued, Refuses, Syncs
<1> QED BY <1>3, <1>4, <1>5, <1>6 DEF Step

LEMMA RefusedCradle ==
  ASSUME Unborn, proj = Seed, row = "pending", TerminalizeInterrupted, Unborn', ~dirty,
         \A n \in Nodes : ~Live(n), UNCHANGED streams, lockq' = <<>>
  PROVE  Cradle'
<1>1. LogEmpty \/ fact' = "interrupted"
  BY DEF TerminalizeInterrupted, Unborn, Terminal
<1>2. LogEmpty
  BY <1>1 DEF Unborn
<1>3. row' = "interrupted" /\ pc' = "release" /\ UNCHANGED <<ctx, dirty>> /\ ~ctx
  BY <1>2 DEF TerminalizeInterrupted, LogEmpty, Terminal, Unborn
<1> QED BY <1>3 DEF Cradle, Live

LEMMA UnbornStep ==
  ASSUME TypeOK, PumpInv, LifeInv, [Next]_vars
  PROVE  UnbornInv'
<1> USE DEF durable, alarms, queueing, pumping, cancels, history, counters
<1>0. Step /\ UnbornInv /\ DirtyInv
  BY StepKinds DEF LifeInv
<1>1. pc' = "start" => Unborn' /\ mem' = Seed
  <2> SUFFICES ASSUME pc' = "start" PROVE Unborn' /\ mem' = Seed
    OBVIOUS
  <2>1. Beside \/ Syncs
    BY <1>0 DEF Step, Leaves, Loads, Resyncs, Resumes, Requeued, Interrupts, Refuses, PumpFolds,
       JobFolds, StartFolds, Finishes, Fires
  <2>2. UNCHANGED <<proj, fact, mem, pc>>
    BY <2>1 DEF Beside, Syncs
  <2> QED BY <1>0, <2>2 DEF UnbornInv, Cradle, Unborn, NeverStarted
<1>2. ASSUME Unborn'
      PROVE  Cradle'
  <2>1. Unborn /\ Cradle
    BY <1>0, <1>2, StillUnborn DEF UnbornInv, Cradle
  <2>2. proj = Seed /\ fact = "none"
    BY <2>1, OnlySeed DEF Unborn, NeverStarted, TypeOK, PumpInv
  <2>3. pc \in {"release", "idle", "start", "drain"} /\ ~dirty /\ \A n \in Nodes : ~Live(n)
    BY <2>1 DEF Cradle
  <2>4. CASE UNCHANGED vars
    BY <2>1, <2>4 DEF vars, Cradle, Live
  <2>5. CASE StartSteps
    <3>1. pc = "start" /\ row = "pending" /\ lockq = <<>> /\ up = "up" /\ job = "start"
      BY <2>1, <2>5 DEF StartSteps, StartRefused, StartCancelled, StartContext, StartRun, Starting, Cradle
    <3>2. CASE StartRefused
      BY <1>2, <2>1, <2>2, <2>3, <3>1, <3>2, RefusedCradle DEF StartRefused
    <3>3. CASE StartCancelled
      <4>1. proj'.cancel # "none"
        BY <2>2, <3>3, CancelFlag, RunEventFacts
           DEF StartCancelled, AppendAndFold, Logs, TypeOK, Seed, Terminal, RunEventType
      <4> QED BY <1>2, <4>1 DEF Unborn, NeverStarted
    <3>4. CASE StartContext
      BY <2>3, <3>1, <3>4 DEF StartContext, Cradle, Live
    <3>5. CASE StartRun
      <4>1. proj'.status = "running"
        BY <2>2, <3>5, StartedRuns DEF StartRun, AppendAndFold, Logs, TypeOK, Seed
      <4> QED BY <1>2, <4>1 DEF Unborn, NeverStarted
    <3> QED BY <2>5, <3>2, <3>3, <3>4, <3>5 DEF StartSteps
  <2>6. CASE LockSteps
    <3>1. CASE Acquire
      <4>1. /\ row = "pending" /\ lockq = <<"reconcile">> /\ Head(lockq) = "reconcile" /\ Tail(lockq) = <<>>
        BY <2>1, <3>1 DEF Acquire, Cradle
      <4>2. TerminalizeInterrupted /\ lockq' = <<>> /\ UNCHANGED streams
        BY <2>1, <3>1, <4>1 DEF Acquire, Unborn
      <4> QED BY <1>2, <2>1, <2>2, <2>3, <4>1, <4>2, RefusedCradle
    <3>2. CASE Release
      BY <2>1, <2>3, <3>2 DEF Release, Cradle, Live
    <3> QED BY <2>3, <2>6, <3>1, <3>2 DEF LockSteps, EnterCancel, EnterResume, SyncRow
  <2>7. CASE PumpSteps
    <3>1. CASE PumpReturn
      <4>1. row = "pending" /\ lockq = <<>> /\ up = "up" /\ job = "start" /\ failing
        BY <2>1, <3>1 DEF PumpReturn, Cradle
      <4> QED BY <1>2, <2>1, <2>2, <2>3, <3>1, <4>1, RefusedCradle DEF PumpReturn
    <3> QED BY <2>3, <2>7, <3>1 DEF PumpSteps, AppendScheduled, Park, FinishRun, FoldMarker, PumpEnd,
            Spawn, Arm, FoldStream, Working, Waiting
  <2>8. CASE StreamSteps
    BY <2>3, <2>8 DEF StreamSteps, OpenStream, Preflight, AbortQueued, StartAdapter, AdapterEnds,
       DropStream, StreamStep, Live
  <2>9. CASE AlarmSteps
    <3>1. ASSUME NEW n \in Nodes, FireAlarm(n)
          PROVE  FALSE
      BY <2>2, <3>1 DEF FireAlarm, Fresh, Seed
    <3>2. ASSUME NEW n \in Nodes, SuppressAlarm(n)
          PROVE  Cradle'
      BY <2>1, <3>2 DEF SuppressAlarm, Cradle, Live
    <3> QED BY <2>9, <3>1, <3>2 DEF AlarmSteps
  <2>10. CASE ReconcileSteps
    <3>1. CASE Boot
      BY <2>1, <3>1 DEF Boot, Cradle, Live
    <3>2. CASE BootDone
      BY <2>1, <3>2 DEF BootDone, Cradle, Live
    <3> QED BY <2>3, <2>10, <3>1, <3>2 DEF ReconcileSteps, RcResync, RcCancel, RcFinishCancelled,
            RcInterrupt, RcHold, RcResume, RcPump, RcFailDispatched, RcRearm, RcRetry, RcRecoverable,
            RcUndecided, Reconciling
  <2>11. CASE RequestCancel \/ LeaseReclaim \/ Over
    <3>1. CASE RequestCancel
      BY <2>1, <2>3, <3>1 DEF RequestCancel, AtAwait, Waiting, Cradle, Terminal
    <3>2. CASE LeaseReclaim
      BY <2>1, <3>2 DEF LeaseReclaim, Cradle
    <3>3. CASE Over
      BY <2>4, <3>3 DEF Over
    <3> QED BY <2>11, <3>1, <3>2, <3>3
  <2>12. CASE Mishaps
    <3>1. CASE Crash
      BY <2>1, <3>1 DEF Crash, Cradle, Live, NoStreams, NoStream
    <3>2. CASE WriteThrows
      BY <2>1, <2>3, <3>2 DEF WriteThrows, Cradle, Live
    <3>3. ASSUME NEW n \in Nodes, StreamThrows(n)
          PROVE  FALSE
      BY <2>3, <3>3 DEF StreamThrows, Live
    <3> QED BY <2>12, <3>1, <3>2, <3>3 DEF Mishaps
  <2> QED BY <2>4, <2>5, <2>6, <2>7, <2>8, <2>9, <2>10, <2>11, <2>12 DEF Next
<1> QED BY <1>1, <1>2 DEF UnbornInv, Cradle

LEMMA InitLifeInv == Init => LifeInv
BY DEF Init, LifeInv, UnbornInv, Cradle, Unborn, NeverStarted, FactInv, RowInv, DirtyInv, ViewInv, Seed,
       Live, NoStreams, NoStream, Terminal

LEMMA LifeInvStep ==
  ASSUME TypeOK, TypeOK', CancelInv, PumpInv, LifeInv, [Next]_vars
  PROVE  LifeInv'
<1>1. Step
  BY StepKinds
<1>2. UnbornInv' /\ FactInv' /\ ViewInv' /\ RowInv'
  BY <1>1, UnbornStep, FactStep, ViewStep, RowStep
<1>3. DirtyInv'
  BY <1>1, <1>2, DirtyStep
<1> QED BY <1>2, <1>3 DEF LifeInv

\* Everything the theorems below use.
DriveInv == TypeOK /\ CancelInv /\ PumpInv /\ LifeInv

\* Whatever alarms, cancels, throws and crashes interleave with the drives of a
\* run, its log, its row, the pump's own state and its queue stay consistent:
\* the inductive invariant of the drive lock, the pump and the reconciler.
THEOREM DriveInvariant == Spec => []DriveInv
<1>1. Init => DriveInv
  BY InitType, InitCancelInv, InitPumpInv, InitLifeInv DEF DriveInv
<1>2. DriveInv /\ [Next]_vars => DriveInv'
  BY TypeStep, CancelInvStep, PumpInvStep, LifeInvStep DEF DriveInv
<1> QED BY <1>1, <1>2, PTL DEF Spec

\* The row of a run never shows an end its log does not hold, though syncRunRow
\* writes it after the append and a crash or a throw can fall between the two;
\* the only exception is the start refused before its first event.
THEOREM RowEnds == Spec => []RowEndIsLogged
<1>1. DriveInv => RowEndIsLogged
  <2> SUFFICES ASSUME DriveInv, row \in Terminal
               PROVE  row = fact \/ (LogEmpty /\ row = "interrupted")
    BY DEF RowEndIsLogged
  <2>1. CASE fact = "none"
    <3>1. Unborn /\ row = "interrupted" /\ ~ctx
      BY <2>1 DEF DriveInv, LifeInv, RowInv, UnbornInv, Cradle, Terminal
    <3>2. proj = Seed
      BY <3>1, OnlySeed DEF Unborn, NeverStarted, DriveInv, TypeOK, PumpInv
    <3> QED BY <3>1, <3>2 DEF LogEmpty
  <2>2. CASE fact # "none"
    BY <2>2 DEF DriveInv, LifeInv, RowInv, Leads, Lifecycle!Follows, Lifecycle!Ended, Terminal
  <2> QED BY <2>1, <2>2
<1> QED BY <1>1, DriveInvariant, PTL

-----------------------------------------------------------------------------
(* The drive implements the lifecycle.                                      *)

LEMMA AdapterExecutes ==
  ASSUME DriveInv, NEW n \in Nodes, StartAdapter(n)
  PROVE  Lifecycle!Execute \/ UNCHANGED <<row, proj.cancel # "none", began>>
<1> DEFINE a == <<n, streams[n].att>>
<1>1. /\ UNCHANGED <<row, proj>> /\ began' = began \cup {a}
      /\ streams[n].ph = "slot" /\ ~streams[n].ab
  BY DEF StartAdapter, durable
<1>2. row = "running"
  BY <1>1 DEF DriveInv, LifeInv, RowInv, Live
<1>3. proj.cancel = "none"
  BY <1>1 DEF DriveInv, CancelInv, CancelAborts
<1>4. CASE a \in began
  BY <1>1, <1>4
<1>5. CASE a \notin began
  BY <1>1, <1>2, <1>3, <1>5 DEF Lifecycle!Execute
<1> QED BY <1>4, <1>5

LEMMA LifecycleStep ==
  ASSUME DriveInv, [Next]_vars
  PROVE  [Lifecycle!Next]_<<row, proj.cancel # "none", began>>
<1>0. /\ TypeOK /\ PumpInv /\ LifeInv /\ Step /\ proj \in RunState /\ row \in RunStatus
      /\ FactInv /\ RowInv /\ UnbornInv /\ DirtyInv
  BY StepKinds DEF DriveInv, TypeOK, LifeInv
<1>1. CASE \E n \in Nodes : StartAdapter(n)
  BY <1>1, AdapterExecutes DEF Lifecycle!Next
<1>2. CASE \A n \in Nodes : ~StartAdapter(n)
  <2>0. began' = began
    BY <1>2, OnlyAdaptersBegin
  <2>a. ASSUME NEW e \in Event, Logs(e), e.type # "run.cancelRequested"
        PROVE  proj'.cancel = "none" <=> proj.cancel = "none"
    BY <1>0, <2>a, LogsKeepsCancel
  <2>b. ASSUME NEW t, Lifecycle!Follows(row, t), row' = t, t = "cancelled" => proj.cancel # "none",
               proj'.cancel = "none" <=> proj.cancel = "none"
        PROVE  Lifecycle!Next
    <3>1. t \in {"running", "waiting"} \cup Lifecycle!Ended
      BY <2>b DEF Lifecycle!Follows, Lifecycle!Ended
    <3>2. Lifecycle!Move(t)
      BY <2>0, <2>b DEF Lifecycle!Move
    <3> QED BY <3>1, <3>2 DEF Lifecycle!Next
  <2>1. CASE Beside \/ Leaves \/ Loads \/ Resyncs \/ Resumes \/ Requeued
    BY <2>0, <2>1 DEF Beside, Leaves, Loads, Resyncs, Resumes, Requeued
  <2>2. ASSUME NEW e \in Event, PumpFolds(e) \/ JobFolds(e) \/ StartFolds(e)
        PROVE  Lifecycle!Next \/ UNCHANGED <<row, proj.cancel # "none", began>>
    <3>1. /\ Logs(e) /\ row' = row /\ fact = "none"
          /\ pc \in {"start", "enter", "reconcile", "requeue", "pump"}
      BY <2>2 DEF PumpFolds, JobFolds, StartFolds, FoldsOn
    <3>2. row \notin Terminal
      <4>1. CASE pc = "start"
        BY <1>0, <4>1 DEF UnbornInv, Cradle, Terminal
      <4> QED BY <1>0, <3>1, <4>1, OpenRow
    <3>3. proj.cancel # "none" => proj'.cancel # "none"
      BY <1>0, <3>1, LogStays
    <3>4. CASE proj'.cancel # "none" /\ proj.cancel = "none"
      BY <2>0, <3>1, <3>2, <3>4 DEF Lifecycle!Next, Lifecycle!Stop, Lifecycle!Ended, Terminal
    <3> QED BY <2>0, <3>1, <3>3, <3>4
  <2>3. CASE Interrupts
    BY <2>0, <2>a, <2>3, RunEventFacts DEF Interrupts, RunEventType
  <2>4. CASE \E o \in {"success", "failure", "cancelled"} : Finishes(o)
    BY <2>0, <2>a, <2>4, FinishedFacts DEF Finishes
  <2>5. CASE Refuses
    <3>1. Lifecycle!Follows(row, "interrupted")
      BY <1>0, <2>5 DEF Refuses, RunStatus, Terminal, Lifecycle!Follows, Lifecycle!Ended
    <3> QED BY <2>b, <2>5, <3>1 DEF Refuses
  <2>6. ASSUME NEW n \in Nodes, NEW k \in Nat, Fires(n, k)
        PROVE  Lifecycle!Next \/ UNCHANGED <<row, proj.cancel # "none", began>>
    <3>1. row' = "running"
      BY <1>0, <2>6, FiresRun DEF Fires
    <3>2. proj'.cancel = "none" <=> proj.cancel = "none"
      BY <2>6, <2>a, DueEventFacts DEF Fires
    <3>3. row \notin Terminal
      <4> SUFFICES ASSUME row \in Terminal PROVE FALSE
        OBVIOUS
      <4>1. Unborn
        BY <1>0, <2>6 DEF Fires, Fresh, RowInv
      <4>2. proj = Seed
        BY <1>0, <4>1, OnlySeed DEF Unborn, NeverStarted, PumpInv
      <4> QED BY <2>6, <4>2 DEF Fires, Fresh, Seed
    <3>4. row = "running" \/ Lifecycle!Follows(row, "running")
      BY <1>0, <3>3 DEF RunStatus, Terminal, Lifecycle!Follows, Lifecycle!Ended
    <3> QED BY <2>0, <2>b, <3>1, <3>2, <3>4
  <2>7. CASE Syncs
    <3>1. row' = mem.status /\ proj' = proj /\ Leads(row, mem.status)
      BY <1>0, <2>7 DEF Syncs, DirtyInv
    <3>2. mem.status = "cancelled" => proj.cancel # "none"
      BY <1>0, <2>7 DEF Syncs, DirtyInv, FactInv, Terminal
    <3> QED BY <2>0, <2>b, <3>1, <3>2 DEF Leads
  <2> QED BY <1>0, <2>1, <2>2, <2>3, <2>4, <2>5, <2>6, <2>7 DEF Step
<1> QED BY <1>1, <1>2

\* Through every crash, stale resync and late sync of the row, a run moves only
\* along the legal edges of its lifecycle: an ended run stays ended, a cancel is
\* never withdrawn and no execution begins under one.
THEOREM LifecycleImplemented == Spec => ImplementsLifecycle
<1>1. Init => Lifecycle!Init
  BY DEF Init, Lifecycle!Init, Seed
<1>2. DriveInv /\ [Next]_vars => [Lifecycle!Next]_<<row, proj.cancel # "none", began>>
  BY LifecycleStep
<1> QED BY <1>1, <1>2, DriveInvariant, PTL DEF Spec, ImplementsLifecycle, Lifecycle!Spec

-----------------------------------------------------------------------------
(* Attempts.  An execution belongs to the first attempt, or to one the log   *)
(* has reached; and the log opens a further attempt of an activity that is   *)
(* not idempotent only for a retry its policy granted, since the reconciler  *)
(* requests one for nothing that is not provably idempotent.                 *)

\* The log that projects to p has come to attempt k of node n, or k is its
\* first, which a pump may have begun before the log shows it.
Reached(p, n, k) == k > 0 /\ (k = 1 \/ k <= p.nodes[n].att)

AttemptInv ==
  /\ \A a \in began : Reached(proj, a[1], a[2])
  /\ \A n \in Nodes : Live(n) => Reached(proj, n, streams[n].att)
  /\ pc = "pump" => \A n \in Nodes : mem.nodes[n].att > 0 => Reached(proj, n, mem.nodes[n].att)
  /\ \A n \in Nodes \ Idempotent : proj.nodes[n].att <= proj.nodes[n].retries + 1
  /\ pc = "requeue" => InState(mem, "dispatched") \subseteq Idempotent

\* How a fold counts the attempts and retries of a node.
LEMMA Counts ==
  ASSUME NEW s \in RunState, Sound(s), NEW t \in RunState, NEW e, NEW n \in Nodes, NodeMove(s, e, t, n)
  PROVE  \/ t.nodes[n].att = s.nodes[n].att /\ t.nodes[n].retries = s.nodes[n].retries
         \/ s.nodes[n].att = 0 /\ t.nodes[n].att = 1 /\ t.nodes[n].retries = s.nodes[n].retries
         \/ /\ t.nodes[n].att = s.nodes[n].att + 1
            /\ \/ e.type = "node.retryDue" /\ t.nodes[n].retries = s.nodes[n].retries + 1
               \/ e.type = "node.retryRequested" /\ e.node = n
                  /\ t.nodes[n].retries = s.nodes[n].retries
<1>1. s.nodes[n].st = "pending" => s.nodes[n].att = 0
  BY DEF Sound
<1>2. s.nodes[n] \in NodeState /\ t.nodes[n] \in NodeState
  BY DEF RunState
<1> QED BY <1>1, <1>2 DEF NodeMove, OwnMove, WalkMove, RunMove, Turns, Renews, NodeState

\* What a step adds to the log leaves attempts reached, and counts them.
LEMMA LogCounts ==
  ASSUME TypeOK, PumpInv, AttemptInv, NEW e \in Event, Proper(e), Logs(e),
         e.type = "node.retryRequested" => e.node \in Idempotent
  PROVE  /\ \A n \in Nodes : proj'.nodes[n].att >= proj.nodes[n].att
         /\ \A n \in Nodes \ Idempotent : proj'.nodes[n].att <= proj'.nodes[n].retries + 1
<1>1. /\ proj' \in RunState /\ proj \in RunState /\ Sound(proj)
      /\ \A n \in Nodes : NodeMove(proj, e, proj', n)
  BY LogFacts DEF PumpInv, TypeOK
<1> SUFFICES ASSUME NEW n \in Nodes
             PROVE  /\ proj'.nodes[n].att >= proj.nodes[n].att
                    /\ n \notin Idempotent => proj'.nodes[n].att <= proj'.nodes[n].retries + 1
  OBVIOUS
<1>2. /\ proj.nodes[n].att \in Nat /\ proj.nodes[n].retries \in Nat
      /\ proj'.nodes[n].att \in Nat /\ proj'.nodes[n].retries \in Nat
  BY <1>1 DEF RunState, NodeState
<1>3. n \notin Idempotent => proj.nodes[n].att <= proj.nodes[n].retries + 1
  BY DEF AttemptInv
<1> QED BY <1>1, <1>2, <1>3, Counts

\* A stream works on the attempt it was spawned for.
LEMMA StreamAttempts ==
  ASSUME TypeOK, PumpInv, [Next]_vars, NEW n \in Nodes, Live(n)'
  PROVE  \/ Live(n) /\ streams'[n].att = streams[n].att
         \/ pc = "pump" /\ streams'[n].att = mem.nodes[n].att /\ mem.nodes[n].st = "ready"
<1> USE DEF durable, alarms, queueing, pumping, cancels, history, counters
<1>0. CASE UNCHANGED streams
  BY <1>0 DEF Live
<1>1. CASE \E m \in Nodes : Spawn(m)
  <2>1. PICK m \in Nodes : Spawn(m)
    BY <1>1
  <2>2. PICK c \in todo : /\ c.type = "dispatchNode" /\ c.node = m
                          /\ streams' = [streams EXCEPT ![m] = [NoStream EXCEPT !.ph = "queued", !.att = c.att]]
    BY <2>1 DEF Spawn
  <2>3. Asked(c) /\ pc = "pump"
    BY <2>1 DEF PumpInv, QueueInv, Spawn, Working
  <2>4. CASE n = m
    BY <2>2, <2>3, <2>4 DEF TypeOK, StreamsType, NoStream, Asked
  <2>5. CASE n # m
    BY <2>2, <2>5 DEF TypeOK, StreamsType, Live
  <2> QED BY <2>4, <2>5
<1>2. CASE \E m \in Nodes : FoldStream(m)
  BY <1>2 DEF FoldStream, TypeOK, StreamsType, Stream, Live, NoStream
<1>3. CASE FoldMarker
  BY <1>3 DEF FoldMarker, AbortRun, TypeOK, StreamsType, Stream, Live
<1>4. CASE StreamSteps
  BY <1>4, StreamsGoOn
<1>5. CASE Crash
  BY <1>5 DEF Crash, Live, NoStreams, NoStream
<1>6. CASE \E m \in Nodes : StreamThrows(m)
  BY <1>6 DEF StreamThrows, TypeOK, StreamsType, Stream, Live, NoStream
<1>7. CASE StartSteps \/ LockSteps
  BY <1>0, <1>7 DEF StartSteps, StartRefused, StartCancelled, StartContext, StartRun, LockSteps, Acquire,
     EnterCancel, EnterResume, Release, SyncRow
<1>8. CASE AppendScheduled \/ Park \/ FinishRun \/ PumpEnd \/ PumpReturn \/ \E m \in Nodes : Arm(m)
  BY <1>0, <1>8 DEF AppendScheduled, Park, FinishRun, PumpEnd, PumpReturn, Arm
<1>9. CASE ReconcileSteps
  BY <1>0, <1>9 DEF ReconcileSteps, RcResync, RcCancel, RcFinishCancelled, RcInterrupt, RcHold, RcResume,
     RcPump, Boot, BootDone, RcFailDispatched, RcRearm, RcRetry
<1>10. CASE AlarmSteps \/ RequestCancel \/ LeaseReclaim \/ WriteThrows \/ Over \/ UNCHANGED vars
  BY <1>0, <1>10 DEF AlarmSteps, FireAlarm, SuppressAlarm, RequestCancel, LeaseReclaim, WriteThrows, Over, vars
<1> QED BY <1>1, <1>2, <1>3, <1>4, <1>5, <1>6, <1>7, <1>8, <1>9, <1>10 DEF Next, PumpSteps, Mishaps

\* Attempts stay reached when the log grows.
LEMMA StaysReached ==
  ASSUME NEW p \in RunState, NEW q \in RunState, NEW n \in Nodes, NEW k \in Nat, Reached(p, n, k),
         q.nodes[n].att >= p.nodes[n].att
  PROVE  Reached(q, n, k)
<1>1. p.nodes[n].att \in Nat /\ q.nodes[n].att \in Nat
  BY DEF RunState, NodeState
<1> QED BY <1>1 DEF Reached

\* The log of a step that appends: a retry is requested for nothing that is
\* not provably idempotent.
LEMMA StepLogs ==
  ASSUME TypeOK, AttemptInv, Step
  PROVE  \/ UNCHANGED proj
         \/ \E e \in Event : /\ Proper(e) /\ Logs(e)
                             /\ e.type = "node.retryRequested" => e.node \in Idempotent
<1>1. CASE Beside \/ Leaves \/ Loads \/ Resyncs \/ Resumes \/ Requeued \/ Refuses \/ Syncs
  BY <1>1 DEF Beside, Leaves, Loads, Resyncs, Resumes, Requeued, Refuses, Syncs
<1>2. ASSUME NEW e \in Event, PumpFolds(e) \/ StartFolds(e)
      PROVE  Proper(e) /\ Logs(e) /\ e.type # "node.retryRequested"
  BY <1>2 DEF PumpFolds, StartFolds, FoldsOn, PumpEvents
<1>3. ASSUME NEW e \in Event, JobFolds(e)
      PROVE  Proper(e) /\ Logs(e) /\ (e.type = "node.retryRequested" => e.node \in Idempotent)
  BY <1>3 DEF JobFolds, FoldsOn, AttemptInv
<1>4. CASE Interrupts
  BY <1>4, RunEventFacts DEF Interrupts, RunEventType
<1>5. ASSUME NEW o \in {"success", "failure", "cancelled"}, Finishes(o)
      PROVE  \E e \in Event : Proper(e) /\ Logs(e) /\ e.type # "node.retryRequested"
  BY <1>5, FinishedFacts DEF Finishes
<1>6. ASSUME NEW n \in Nodes, NEW k \in Nat, Fires(n, k)
      PROVE  \E e \in Event : Proper(e) /\ Logs(e) /\ e.type # "node.retryRequested"
  BY <1>6, DueEventFacts DEF Fires
<1> QED BY <1>1, <1>2, <1>3, <1>4, <1>5, <1>6 DEF Step

\* The pump's state is ahead of the log by no more than a first attempt.
LEMMA PumpReaches ==
  ASSUME TypeOK, TypeOK', PumpInv, LifeInv, AttemptInv, Step, pc' = "pump",
         \A n \in Nodes : proj'.nodes[n].att >= proj.nodes[n].att,
         NEW n \in Nodes, mem'.nodes[n].att > 0
  PROVE  Reached(proj', n, mem'.nodes[n].att)
<1>0. /\ proj \in RunState /\ mem \in RunState /\ Sound(proj) /\ Sound(mem)
      /\ mem' \in RunState /\ proj' \in RunState /\ ViewInv /\ UnbornInv
  BY DEF TypeOK, PumpInv, LifeInv
<1>1. /\ mem'.nodes[n].att \in Nat /\ proj'.nodes[n].att \in Nat /\ proj.nodes[n].att \in Nat
      /\ mem.nodes[n].att \in Nat
  BY <1>0 DEF RunState, NodeState
<1>2. CASE mem'.nodes[n].att = 1
  BY <1>2 DEF Reached
<1>3. CASE pc = "pump" /\ mem'.nodes[n].att = mem.nodes[n].att
  BY <1>0, <1>1, <1>3, StaysReached DEF AttemptInv
<1>4. CASE mem'.nodes[n].att = proj.nodes[n].att
  BY <1>1, <1>4 DEF Reached
<1>5. ASSUME NEW e, NodeMove(mem, e, mem', n),
             e.type \notin {"node.retryDue", "node.retryRequested"}
      PROVE  mem'.nodes[n].att = mem.nodes[n].att \/ mem'.nodes[n].att = 1
  BY <1>0, <1>5, Counts
<1>6. CASE Beside \/ Syncs \/ Leaves \/ Loads \/ Resyncs \/ Refuses \/ Interrupts
  BY <1>3, <1>6 DEF Beside, Syncs, Leaves, Loads, Resyncs, Refuses, Interrupts
<1>7. CASE Requeued
  BY <1>0, <1>4, <1>7 DEF Requeued, ViewInv
<1>8. ASSUME NEW e \in Event, PumpFolds(e)
      PROVE  Reached(proj', n, mem'.nodes[n].att)
  <2>1. NodeMove(mem, e, mem', n) /\ pc = "pump"
    BY <1>0, <1>8, FoldFacts DEF PumpFolds, FoldsOn
  <2>2. e.type \notin {"node.retryDue", "node.retryRequested"}
    BY <1>8 DEF PumpFolds, PumpEvents
  <2> QED BY <1>2, <1>3, <1>5, <2>1, <2>2
<1>9. ASSUME NEW e \in Event, StartFolds(e)
      PROVE  Reached(proj', n, mem'.nodes[n].att)
  <2>1. NodeMove(mem, e, mem', n) /\ mem = Seed
    BY <1>0, <1>9, FoldFacts DEF StartFolds, FoldsOn, UnbornInv
  <2>2. e.type \notin {"node.retryDue", "node.retryRequested"} /\ mem.nodes[n].att = 0
    BY <1>9, <2>1 DEF StartFolds, Seed
  <2> QED BY <1>1, <1>2, <1>5, <2>1, <2>2
<1>10. ASSUME NEW e \in Event, JobFolds(e)
       PROVE  FALSE
  BY <1>10 DEF JobFolds
<1>11. CASE Resumes
  <2>1. mem = proj
    BY <1>0, <1>11 DEF Resumes, ViewInv
  <2>2. CASE mem.status = "pending"
    BY <1>4, <1>11, <2>1, <2>2 DEF Resumes
  <2>3. CASE mem.status # "pending"
    <3>1. NodeMove(mem, RunEvent("run.resumed"), mem', n)
      BY <1>0, <1>11, <2>3, FoldFacts, RunEventFacts DEF Resumes, RunEventType
    <3>2. RunEvent("run.resumed").type = "run.resumed"
      BY RunEventFacts DEF RunEventType
    <3> QED BY <1>2, <1>4, <1>5, <2>1, <3>1, <3>2
  <2> QED BY <2>2, <2>3
<1>12. ASSUME NEW o \in {"success", "failure", "cancelled"}, Finishes(o)
       PROVE  Reached(proj', n, mem'.nodes[n].att)
  <2>1. NodeMove(mem, FinishedEvent(o), mem', n) /\ pc = "pump"
    BY <1>0, <1>12, FoldFacts, FinishedFacts DEF Finishes
  <2>2. FinishedEvent(o).type = "run.finished"
    BY FinishedFacts
  <2> QED BY <1>2, <1>3, <1>5, <2>1, <2>2
<1>13. ASSUME NEW m \in Nodes, NEW k \in Nat, Fires(m, k)
       PROVE  Reached(proj', n, mem'.nodes[n].att)
  BY <1>3, <1>13 DEF Fires
<1> QED BY <1>6, <1>7, <1>8, <1>9, <1>10, <1>11, <1>12, <1>13 DEF Step

LEMMA AttemptStep ==
  ASSUME TypeOK, TypeOK', PumpInv, LifeInv, AttemptInv, [Next]_vars
  PROVE  AttemptInv'
<1>0. Step
  BY StepKinds
<1>1. /\ \A n \in Nodes : proj'.nodes[n].att >= proj.nodes[n].att
      /\ \A n \in Nodes \ Idempotent : proj'.nodes[n].att <= proj'.nodes[n].retries + 1
  <2>1. CASE UNCHANGED proj
    <3>1. \A n \in Nodes : proj.nodes[n].att \in Nat
      BY DEF TypeOK, RunState, NodeState
    <3> QED BY <2>1, <3>1 DEF AttemptInv
  <2>2. CASE ~UNCHANGED proj
    BY <1>0, <2>2, StepLogs, LogCounts
  <2> QED BY <2>1, <2>2
<1>2. ASSUME NEW n \in Nodes, Live(n)
      PROVE  Reached(proj', n, streams[n].att)
  <2>1. Reached(proj, n, streams[n].att) /\ streams[n].att \in Nat /\ proj \in RunState /\ proj' \in RunState
    BY <1>2 DEF AttemptInv, TypeOK, StreamsType, Stream
  <2> QED BY <1>1, <2>1, StaysReached
<1>3. ASSUME NEW n \in Nodes, Live(n)'
      PROVE  Reached(proj', n, streams'[n].att)
  <2>1. CASE Live(n) /\ streams'[n].att = streams[n].att
    BY <1>2, <2>1
  <2>2. CASE pc = "pump" /\ streams'[n].att = mem.nodes[n].att /\ mem.nodes[n].st = "ready"
    <3>1. mem.nodes[n].att \in Nat /\ mem.nodes[n].att > 0 /\ proj \in RunState /\ proj' \in RunState
      BY <2>2 DEF PumpInv, Sound, TypeOK, RunState, NodeState
    <3> QED BY <1>1, <2>2, <3>1, StaysReached DEF AttemptInv
  <2> QED BY <1>3, <2>1, <2>2, StreamAttempts
<1>4. ASSUME NEW a \in began'
      PROVE  Reached(proj', a[1], a[2])
  <2>1. CASE a \in began
    <3>1. /\ a[1] \in Nodes /\ a[2] \in Nat /\ Reached(proj, a[1], a[2])
          /\ proj \in RunState /\ proj' \in RunState
      BY <2>1 DEF TypeOK, AttemptInv
    <3> QED BY <1>1, <3>1, StaysReached
  <2>2. CASE a \notin began
    <3>1. PICK n \in Nodes : StartAdapter(n)
      BY <1>4, <2>2, OnlyAdaptersBegin
    <3>2. a = <<n, streams[n].att>> /\ Live(n)
      BY <1>4, <2>2, <3>1 DEF StartAdapter, Live
    <3> QED BY <1>2, <3>2
  <2> QED BY <2>1, <2>2
<1>5. ASSUME pc' = "requeue"
      PROVE  InState(mem', "dispatched") \subseteq Idempotent
  <2>1. CASE Beside \/ Syncs
    BY <1>5, <2>1 DEF Beside, Syncs, AttemptInv
  <2>2. ASSUME NEW e \in Event, JobFolds(e)
        PROVE  InState(mem', "dispatched") \subseteq Idempotent
    <3>1. \A n \in Nodes : NodeMove(mem, e, mem', n)
      BY <2>2, FoldFacts DEF JobFolds, FoldsOn, PumpInv
    <3>2. \A n \in Nodes : mem'.nodes[n].st = "dispatched" => mem.nodes[n].st = "dispatched"
      BY <2>2, <3>1 DEF JobFolds, NodeMove, OwnMove, WalkMove, RunMove, Turns, Renews
    <3>3. InState(mem, "dispatched") \subseteq Idempotent
      BY <1>5, <2>2 DEF JobFolds, AttemptInv, NotProvablyIdempotent
    <3> QED BY <3>2, <3>3 DEF InState
  <2> QED BY <1>0, <1>5, <2>1, <2>2
          DEF Step, Leaves, Loads, Resyncs, Resumes, Requeued, Interrupts, Refuses, PumpFolds, StartFolds,
              Finishes, Fires
<1>6. pc' = "pump" => \A n \in Nodes : mem'.nodes[n].att > 0 => Reached(proj', n, mem'.nodes[n].att)
  BY <1>0, <1>1, PumpReaches
<1> QED BY <1>1, <1>3, <1>4, <1>5, <1>6 DEF AttemptInv

LEMMA InitAttemptInv == Init => AttemptInv
BY DEF Init, AttemptInv, Seed, Live, NoStreams, NoStream

\* An activity that is not provably idempotent begins at most once, plus once
\* for each retry its policy granted: reconcileRunningRun interrupts the run
\* where it would have to execute such a node again, so no number of crashes and
\* reclaims adds an execution.
THEOREM NonIdempotent == Spec => []NonIdempotentOnce
<1>1. Init => AttemptInv
  BY InitAttemptInv
<1>2. DriveInv /\ DriveInv' /\ AttemptInv /\ [Next]_vars => AttemptInv'
  BY AttemptStep DEF DriveInv
<1>3. DriveInv /\ AttemptInv => NonIdempotentOnce
  <2> SUFFICES ASSUME DriveInv, AttemptInv, NEW n \in Nodes \ Idempotent
               PROVE  Cardinality({a \in began : a[1] = n}) <= proj.nodes[n].retries + 1
    BY DEF NonIdempotentOnce
  <2> DEFINE m == proj.nodes[n].retries + 1
             S == {<<n, k>> : k \in 1..m}
             f == [k \in 1..m |-> <<n, k>>]
  <2>1. m \in Nat /\ m > 0
    BY DEF DriveInv, TypeOK, RunState, NodeState
  <2>2. IsFiniteSet(1..m) /\ Cardinality(1..m) = m
    <3> HIDE DEF m
    <3> QED BY <2>1, FS_Interval
  <2>3. f \in Surjection(1..m, S)
    BY DEF Surjection
  <2>4. IsFiniteSet(S) /\ Cardinality(S) <= m
    BY <2>2, <2>3, FS_Surjection
  <2>5. {a \in began : a[1] = n} \subseteq S
    <3> SUFFICES ASSUME NEW a \in began, a[1] = n PROVE a \in S
      OBVIOUS
    <3>1. a = <<n, a[2]>> /\ a[2] \in Nat /\ Reached(proj, n, a[2])
      BY DEF DriveInv, TypeOK, AttemptInv
    <3>2. proj.nodes[n].att \in Nat /\ proj.nodes[n].att <= m
      BY DEF DriveInv, TypeOK, RunState, NodeState, AttemptInv
    <3>3. a[2] \in 1..m
      BY <2>1, <3>1, <3>2 DEF Reached
    <3> QED BY <3>1, <3>3
  <2> HIDE DEF S, m
  <2>6. Cardinality({a \in began : a[1] = n}) <= Cardinality(S) /\ Cardinality(S) \in Nat
        /\ Cardinality({a \in began : a[1] = n}) \in Nat
    BY <2>4, <2>5, FS_Subset, FS_CardinalityType
  <2>7. Cardinality({a \in began : a[1] = n}) <= m
    BY <2>1, <2>4, <2>6
  <2> QED BY <2>7 DEF m
<1> QED BY <1>1, <1>2, <1>3, DriveInvariant, PTL DEF Spec
=============================================================================
