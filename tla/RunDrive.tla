------------------------------ MODULE RunDrive ------------------------------
(***************************************************************************)
(* One run and everything that takes it further: the drive lock of         *)
(* run/drives.ts, the pump and its dispatch streams (run/driver.ts,        *)
(* run/executor.ts), the cancel intents (run/cancel.ts,                    *)
(* run/cancel-service.ts), the durable retry and wait alarms               *)
(* (scheduler/alarms.ts and its handlers) and the reconciler that a boot   *)
(* or a dead lease calls (run/reconcile.ts).                               *)
(*                                                                         *)
(* The process is single threaded: code between two awaits runs without    *)
(* interruption by another actor, but a crash may fall between any two     *)
(* database writes.  So every write is a step of its own, and the other    *)
(* actors move only at an await (`AtAwait`).                               *)
(***************************************************************************)
EXTENDS RunReducer, Sequences

CONSTANTS
  Idempotent,    \* the activities whose catalog entry says idempotent: true
  Cap,           \* PER_RUN_DISPATCH_CONCURRENCY
  MaxCrashes,    \* bound: process crashes in a behaviour
  MaxFaults      \* bound: exceptions thrown under a pump

ASSUME DriveAssumption ==
  /\ Idempotent \subseteq Nodes
  /\ Cap \in Nat \ {0}
  /\ MaxCrashes \in Nat
  /\ MaxFaults \in Nat

VARIABLES
  proj,     \* durable: projectRunState of the run's event log
  fact,     \* durable: terminalFactFromLog, "none" without a terminal event
  ctx,      \* durable: the log holds a run.triggerContext
  row,      \* durable: runs.status
  armed,    \* durable: alarms still pending, as <<node, attempt>>
  spent,    \* durable: alarms that are settled
  up,       \* the process: "down", "boot" (reconciling) or "up"
  lockq,    \* the jobs waiting for the run's drive lock
  job,      \* the job holding it
  pc,       \* where that job stands
  mem,      \* the pump's run state
  todo,     \* the pump's queued node commands
  ending,   \* the parkRun or finishRun at the head of the queue
  hand,     \* the command whose alarm is armed and whose event is not appended
  dirty,    \* an event is appended and the row not yet synced
  streams,  \* the dispatch stream of each node
  failing,  \* the pump threw, or a stream did
  intent,   \* cancel.ts: an intent is pending
  marker,   \* a cancel marker is at the front of the pump's pending folds
  began,    \* history: the attempts whose adapter was started
  again,    \* history: the attempts whose adapter was started more than once
  crashes, faults

durable  == <<proj, fact, ctx, row>>
alarms   == <<armed, spent>>
queueing == <<lockq, job, pc>>
pumping  == <<mem, todo, ending, hand, dirty>>
cancels  == <<intent, marker>>
history  == <<began, again>>
counters == <<crashes, faults>>

vars == <<durable, alarms, up, queueing, pumping, streams, failing, cancels,
          history, counters>>

-----------------------------------------------------------------------------
Jobs == {"start", "drive", "cancel", "reconcile"}

Phases == {"none", "queued", "preflight", "offerD", "slot", "exec", "offerR"}

Results == {"success", "transient", "permanent", "cancelled"}

Stream == [ph : Phases, att : Nat, ab : BOOLEAN, out : Results \cup {"none"}]

NoStream == [ph |-> "none", att |-> 0, ab |-> FALSE, out |-> "none"]

NoStreams == [n \in Nodes |-> NoStream]

NoCommand == [type |-> "none", node |-> "none", att |-> 0]

Live(n) == streams[n].ph # "none"

\* A stream's abort controller is registered from its preflight on.
Registered(n) == streams[n].ph \notin {"none", "queued"}

LogEmpty == proj = Seed /\ ~ctx

Init ==
  /\ proj = Seed /\ fact = "none" /\ ctx = FALSE /\ row = "pending"
  /\ armed = {} /\ spent = {}
  /\ up = "up" /\ lockq = <<>> /\ job = "start" /\ pc = "start"
  /\ mem = Seed /\ todo = {} /\ ending = "none" /\ hand = NoCommand
  /\ dirty = FALSE /\ streams = NoStreams /\ failing = FALSE
  /\ intent \in BOOLEAN    \* a child of a cancelled parent starts with one
  /\ marker = FALSE
  /\ began = {} /\ again = {} /\ crashes = 0 /\ faults = 0

-----------------------------------------------------------------------------
(* Appending and folding.                                                  *)

Logs(e) == proj' = Reduce(proj, e).state

Folds(r) == mem' = r.state /\ todo' = todo \cup r.todo /\ ending' = r.end

\* Mutant of AppendAndFold: the row sync is forgotten.
AppendAndFoldUnsynced(e) == Logs(e) /\ Folds(Reduce(mem, e)) /\ dirty' = FALSE

\* appendAndFold: the log takes the event, the pump folds it onto its own
\* state, and the row sync is still to come.
AppendAndFold(e) == Logs(e) /\ Folds(Reduce(mem, e)) /\ dirty' = TRUE

\* syncRunLifecycle
SyncRow ==
  /\ dirty
  /\ row' = mem.status /\ dirty' = FALSE
  /\ UNCHANGED <<proj, fact, ctx, alarms, up, queueing, mem, todo, ending, hand,
                 streams, failing, cancels, history, counters>>

\* The row is to be synced to a status the log already settles.
SyncTo(status) == mem' = [proj EXCEPT !.status = status] /\ dirty' = TRUE

\* Mutant of TerminalizeInterrupted: the row is patched and nothing logged.
TerminalizeRowOnly ==
  /\ pc' = "release"
  /\ row' = (IF row \in Terminal THEN row ELSE "interrupted")
  /\ UNCHANGED <<proj, fact, ctx, mem, dirty>>

\* terminalizeInterrupted, called with the lock held and nothing live.
TerminalizeInterrupted ==
  /\ pc' = "release"
  /\ IF row \in Terminal THEN UNCHANGED <<durable, mem, dirty>>
     ELSE \/ /\ LogEmpty
             /\ row' = "interrupted"
             /\ UNCHANGED <<proj, fact, ctx, mem, dirty>>
          \/ /\ ~LogEmpty /\ fact # "none"
             /\ SyncTo(fact)
             /\ UNCHANGED durable
          \/ /\ ~LogEmpty /\ fact = "none"
             /\ Logs(RunEvent("run.interrupted"))
             /\ fact' = "interrupted"
             /\ mem' = proj' /\ dirty' = TRUE
             /\ UNCHANGED <<ctx, row>>

-----------------------------------------------------------------------------
(* startRun, under the lock its launcher took.                             *)

Starting == pc = "start" /\ ~dirty

\* The params, the document or the globals do not resolve.
StartRefused ==
  /\ Starting /\ ~ctx
  /\ TerminalizeInterrupted
  /\ UNCHANGED <<alarms, up, lockq, job, todo, ending, hand, streams, failing,
                 cancels, history, counters>>

StartCancelled ==
  /\ Starting /\ ~ctx /\ intent
  /\ AppendAndFold(RunEvent("run.cancelRequested"))
  /\ intent' = FALSE /\ pc' = "pump"
  /\ UNCHANGED <<fact, ctx, row, alarms, up, lockq, job, hand, streams, failing,
                 marker, history, counters>>

\* run.triggerContext is logged first when a trigger fired the run.
StartContext ==
  /\ Starting /\ ~ctx /\ ~intent
  /\ ctx' = TRUE
  /\ UNCHANGED <<proj, fact, row, alarms, up, queueing, pumping, streams,
                 failing, cancels, history, counters>>

StartRun ==
  /\ Starting /\ ~intent
  /\ AppendAndFold(RunEvent("run.started"))
  /\ pc' = "pump"
  /\ UNCHANGED <<fact, ctx, row, alarms, up, lockq, job, hand, streams, failing,
                 cancels, history, counters>>

-----------------------------------------------------------------------------
(* The drive lock, and the drive that driveRun and driveCancelIntent run   *)
(* under it: re-project the log, fold a pending cancel, resume in memory.  *)

NeverStarted == proj.status = "pending" /\ proj.cancel = "none"

Acquire ==
  /\ pc = "idle" /\ lockq # <<>>
  /\ job' = Head(lockq) /\ lockq' = Tail(lockq)
  /\ \/ /\ Head(lockq) = "cancel" /\ ~intent
        /\ pc' = "release"
        /\ UNCHANGED <<durable, mem, dirty>>
     \/ /\ Head(lockq) = "drive" \/ (Head(lockq) = "cancel" /\ intent)
        /\ IF fact # "none" THEN pc' = "release" /\ SyncTo(fact)
           ELSE pc' = "enter" /\ mem' = proj /\ UNCHANGED dirty
        /\ UNCHANGED durable
     \/ /\ Head(lockq) = "reconcile" /\ (row = "running" \/ ~NeverStarted)
        /\ pc' = "reconcile" /\ mem' = proj
        /\ UNCHANGED <<durable, dirty>>
     \/ /\ Head(lockq) = "reconcile" /\ row = "pending" /\ NeverStarted
        /\ TerminalizeInterrupted
  /\ UNCHANGED <<alarms, up, todo, ending, hand, streams, failing, cancels,
                 history, counters>>

CancelToFold == intent /\ mem.cancel = "none"

\* foldPendingCancel: no stream is live here, so nothing is aborted.
EnterCancel ==
  /\ pc = "enter" /\ ~dirty /\ CancelToFold
  /\ AppendAndFold(RunEvent("run.cancelRequested"))
  /\ intent' = FALSE
  /\ UNCHANGED <<fact, ctx, row, alarms, up, queueing, hand, streams, failing,
                 marker, history, counters>>

\* engine.resume folds run.resumed in memory only.
EnterResume ==
  /\ pc = "enter" /\ ~dirty /\ ~CancelToFold
  /\ LET r == Reduce(mem, RunEvent("run.resumed")) IN
       IF mem.status = "pending" THEN UNCHANGED <<mem, todo, ending>>
       ELSE mem' = r.state /\ todo' = r.todo /\ ending' = r.end
  /\ dirty' = TRUE /\ pc' = "pump"
  /\ UNCHANGED <<durable, alarms, up, lockq, job, hand, streams, failing,
                 cancels, history, counters>>

\* The lock is released; a cancel job takes whatever intent is left.
Release ==
  /\ pc = "release" /\ ~dirty
  /\ pc' = "idle" /\ mem' = Seed /\ failing' = FALSE
  /\ intent' = (intent /\ job # "cancel")
  /\ UNCHANGED <<durable, alarms, up, lockq, job, todo, ending, hand, dirty,
                 streams, marker, history, counters>>

-----------------------------------------------------------------------------
(* The pump: queued commands first, then one pending fold, then an await.  *)

QueueEmpty == todo = {} /\ ending = "none" /\ hand = NoCommand /\ ~dirty

Waiting == pc = "pump" /\ QueueEmpty /\ mem.status \notin Terminal

AtAwait == \/ pc = "idle"
           \/ (Waiting \/ pc = "drain") /\ \E n \in Nodes : Live(n)

Working == pc = "pump" /\ ~dirty /\ hand = NoCommand

Spawn(n) ==
  /\ Working
  /\ \E c \in todo :
       /\ c.type = "dispatchNode" /\ c.node = n
       /\ todo' = todo \ {c}
       /\ streams' = [streams EXCEPT ![n] = [NoStream EXCEPT !.ph = "queued", !.att = c.att]]
  /\ UNCHANGED <<durable, alarms, up, queueing, mem, ending, hand, dirty, failing,
                 cancels, history, counters>>

\* Mutant of ArmAlarm: the wait's alarm is not armed.
ArmAlarmRetryOnly(n, att) ==
  /\ armed' = (IF n \in Waits THEN armed ELSE armed \cup {<<n, att>>})
  /\ UNCHANGED spent

\* armRetry returns a settled row as it finds it; armWait (armLive) arms anew.
ArmAlarm(n, att) ==
  LET a == <<n, att>> IN
  IF n \in Waits THEN armed' = armed \cup {a} /\ spent' = spent \ {a}
  ELSE armed' = (IF a \in spent THEN armed ELSE armed \cup {a}) /\ UNCHANGED spent

Arm(n) ==
  /\ Working
  /\ \E c \in todo :
       /\ c.type # "dispatchNode" /\ c.node = n
       /\ ArmAlarm(n, c.att)
       /\ hand' = c /\ todo' = todo \ {c}
  /\ UNCHANGED <<durable, up, queueing, mem, ending, dirty, streams, failing,
                 cancels, history, counters>>

AppendScheduled ==
  /\ pc = "pump" /\ hand # NoCommand
  /\ AppendAndFold(NodeEvent(IF hand.type = "scheduleWait" THEN "timer.waitScheduled"
                             ELSE "node.retryScheduled", hand.node, hand.att))
  /\ hand' = NoCommand
  /\ UNCHANGED <<fact, ctx, row, alarms, up, queueing, streams, failing, cancels,
                 history, counters>>

Park ==
  /\ Working /\ todo = {} /\ ending = "park"
  /\ AppendAndFold(RunEvent("run.waiting"))
  /\ UNCHANGED <<fact, ctx, row, alarms, up, queueing, hand, streams, failing,
                 cancels, history, counters>>

\* driveFinishRun folds before it appends: a refused outcome becomes failure.
Accepted(s, outcome) ==
  IF Reduce(s, FinishedEvent(outcome)).state.status \in Terminal THEN outcome
  ELSE "failure"

FinishRun ==
  /\ Working /\ todo = {} /\ ending \in {"success", "failure", "cancelled"}
  /\ LET outcome == Accepted(mem, ending) IN
       /\ AppendAndFold(FinishedEvent(outcome))
       /\ fact' = outcome
  /\ UNCHANGED <<ctx, row, alarms, up, queueing, hand, streams, failing,
                 cancels, history, counters>>

OfferedEvent(n) ==
  LET s == streams[n] IN
  IF s.ph = "offerD" THEN NodeEvent("node.dispatched", n, s.att)
  ELSE IF s.out = "success" THEN NodeEvent("node.succeeded", n, s.att)
  ELSE FailedEvent(n, s.att, s.out)

FoldStream(n) ==
  /\ Waiting /\ ~marker
  /\ streams[n].ph \in {"offerD", "offerR"}
  /\ AppendAndFold(OfferedEvent(n))
  /\ streams' = [streams EXCEPT ![n] = IF @.ph = "offerD" THEN [@ EXCEPT !.ph = "slot"]
                                       ELSE NoStream]
  /\ UNCHANGED <<fact, ctx, row, alarms, up, queueing, hand, failing, cancels,
                 history, counters>>

\* Mutant of AbortRun: only the running adapters are aborted.
AbortRunning ==
  streams' = [n \in Nodes |-> [streams[n] EXCEPT !.ab = @ \/ streams[n].ph = "exec"]]

\* onCancelFolded: every registered dispatch is aborted.
AbortRun == streams' = [n \in Nodes |-> [streams[n] EXCEPT !.ab = @ \/ Registered(n)]]

FoldMarker ==
  /\ Waiting /\ marker
  /\ marker' = FALSE /\ intent' = FALSE
  /\ AppendAndFold(RunEvent("run.cancelRequested"))
  /\ AbortRun
  /\ UNCHANGED <<fact, ctx, row, alarms, up, queueing, hand, failing, history,
                 counters>>

PumpEnd ==
  /\ pc = "pump" /\ QueueEmpty
  /\ mem.status \in Terminal \/ (~marker /\ \A n \in Nodes : ~Live(n))
  /\ pc' = "drain"
  /\ UNCHANGED <<durable, alarms, up, lockq, job, pumping, streams, failing,
                 cancels, history, counters>>

Offering(n) == streams[n].ph \in {"offerD", "offerR"}

\* A write throws: nothing more is folded and the queue is abandoned.
WriteThrows ==
  /\ pc \in {"start", "enter", "reconcile", "requeue", "pump"}
  /\ pc = "pump" => ~QueueEmpty \/ \E n \in Nodes : Offering(n)
  /\ faults < MaxFaults
  /\ faults' = faults + 1
  /\ pc' = "drain" /\ failing' = TRUE /\ marker' = FALSE
  /\ todo' = {} /\ ending' = "none" /\ hand' = NoCommand /\ dirty' = FALSE
  /\ UNCHANGED <<durable, alarms, up, lockq, job, mem, streams, intent, history,
                 crashes>>

\* The teardown has awaited every stream.  A throw under the reconciler is
\* only reported; under any other job it interrupts the run.
PumpReturn ==
  /\ pc = "drain"
  /\ \A n \in Nodes : ~Live(n)
  /\ marker' = FALSE
  /\ IF failing /\ job # "reconcile" THEN TerminalizeInterrupted
     ELSE pc' = "release" /\ UNCHANGED <<durable, mem, dirty>>
  /\ UNCHANGED <<alarms, up, lockq, job, todo, ending, hand, streams, failing,
                 intent, history, counters>>

-----------------------------------------------------------------------------
(* A dispatch stream: the per-run limit, the executor's preflight, the     *)
(* node.dispatched it offers, the global slot, the adapter, its result.    *)

StreamStep(n, from, to, out) ==
  /\ streams[n].ph = from
  /\ streams' = [streams EXCEPT ![n] = [@ EXCEPT !.ph = to, !.out = out]]
  /\ UNCHANGED <<durable, alarms, up, queueing, pumping, failing, cancels,
                 history, counters>>

Active == Cardinality({n \in Nodes : Registered(n)})

OpenStream(n) ==
  /\ Waiting /\ Active < Cap
  /\ IF mem.cancel = "none" THEN StreamStep(n, "queued", "preflight", "none")
     ELSE StreamStep(n, "queued", "offerR", "cancelled")

\* Mutant of Preflight: the adapter's slot is asked for before node.dispatched
\* is folded.
PreflightUnlogged(n) ==
  /\ AtAwait
  /\ IF streams[n].ab THEN StreamStep(n, "preflight", "offerR", "cancelled")
     ELSE StreamStep(n, "preflight", "slot", "none")

Preflight(n) ==
  /\ AtAwait
  /\ IF streams[n].ab THEN StreamStep(n, "preflight", "offerR", "cancelled")
     ELSE \/ StreamStep(n, "preflight", "offerD", "none")
          \/ \E out \in {"transient", "permanent"} :
               StreamStep(n, "preflight", "offerR", out)

AbortQueued(n) ==
  /\ AtAwait /\ streams[n].ab
  /\ StreamStep(n, "slot", "offerR", "cancelled")

StartAdapter(n) ==
  /\ AtAwait /\ streams[n].ph = "slot" /\ ~streams[n].ab
  /\ LET a == <<n, streams[n].att>> IN
       /\ began' = began \cup {a}
       /\ again' = IF a \in began THEN again \cup {a} ELSE again
  /\ streams' = [streams EXCEPT ![n].ph = "exec"]
  /\ UNCHANGED <<durable, alarms, up, queueing, pumping, failing, cancels, counters>>

AdapterEnds(n) ==
  /\ AtAwait
  /\ \E out \in Results :
       /\ out = "cancelled" => streams[n].ab
       /\ StreamStep(n, "exec", "offerR", out)

\* perform throws: the stream is gone and the pump fails when it returns.
StreamThrows(n) ==
  /\ AtAwait /\ streams[n].ph = "exec" /\ faults < MaxFaults
  /\ faults' = faults + 1 /\ failing' = TRUE
  /\ streams' = [streams EXCEPT ![n] = NoStream]
  /\ UNCHANGED <<durable, alarms, up, queueing, pumping, cancels, history, crashes>>

\* A teardown drops what is offered and never opens what is queued.
DropStream(n) ==
  /\ pc = "drain" /\ streams[n].ph \in {"queued", "offerD", "offerR"}
  /\ streams' = [streams EXCEPT ![n] = NoStream]
  /\ UNCHANGED <<durable, alarms, up, queueing, pumping, failing, cancels,
                 history, counters>>

-----------------------------------------------------------------------------
(* Actors that do not hold the lock.                                       *)

\* Mutant of RequestCancel: a live pump is poked and no drive is queued.
RequestCancelPokeOnly ==
  /\ up = "up" /\ AtAwait
  /\ row \notin Terminal /\ fact = "none" /\ proj.cancel = "none" /\ ~intent
  /\ intent' = TRUE
  /\ marker' = (pc = "pump")
  /\ UNCHANGED <<durable, alarms, up, queueing, pumping, streams, failing, history,
                 counters>>

\* RunCanceller.cancel: poke the live pump and queue a drive behind it.
RequestCancel ==
  /\ up = "up" /\ AtAwait
  /\ row \notin Terminal /\ fact = "none" /\ proj.cancel = "none" /\ ~intent
  /\ intent' = TRUE
  /\ marker' = (pc = "pump")
  /\ lockq' = Append(lockq, "cancel")
  /\ UNCHANGED <<durable, alarms, up, job, pc, pumping, streams, failing, history,
                 counters>>

\* nodeParkedAtAttemptGuard against the projection of the log.
Fresh(n, att) ==
  /\ fact = "none"
  /\ Current(proj, n, att)
  /\ proj.nodes[n].st = IF n \in Waits THEN "wait_pending" ELSE "retry_pending"

DueEvent(n, att) ==
  NodeEvent(IF n \in Waits THEN "timer.due" ELSE "node.retryDue", n, att)

Settled(a) == armed' = armed \ {a} /\ spent' = spent \cup {a}

\* Mutant of FireAlarm: the due event is logged and no drive is queued.
FireAlarmUndriven(n) ==
  /\ up = "up" /\ AtAwait
  /\ \E a \in armed :
       /\ a[1] = n /\ Fresh(n, a[2])
       /\ Settled(a)
       /\ Logs(DueEvent(n, a[2]))
  /\ row' = proj'.status
  /\ UNCHANGED <<fact, ctx, up, queueing, pumping, streams, failing, cancels,
                 history, counters>>

\* One transaction appends the due event, syncs the row and settles the
\* alarm; the drive is queued in memory after it commits.
FireAlarm(n) ==
  /\ up = "up" /\ AtAwait
  /\ \E a \in armed :
       /\ a[1] = n /\ Fresh(n, a[2])
       /\ Settled(a)
       /\ Logs(DueEvent(n, a[2]))
  /\ row' = proj'.status
  /\ lockq' = Append(lockq, "drive")
  /\ UNCHANGED <<fact, ctx, up, job, pc, pumping, streams, failing, cancels,
                 history, counters>>

SuppressAlarm(n) ==
  /\ up = "up" /\ AtAwait
  /\ \E a \in armed : a[1] = n /\ ~Fresh(n, a[2]) /\ Settled(a)
  /\ UNCHANGED <<durable, up, queueing, pumping, streams, failing, cancels,
                 history, counters>>

\* A running row nobody drives has a lease that expires.
LeaseReclaim ==
  /\ up = "up" /\ pc = "idle" /\ lockq = <<>> /\ row = "running"
  /\ lockq' = <<"reconcile">>
  /\ UNCHANGED <<durable, alarms, up, job, pc, pumping, streams, failing, cancels,
                 history, counters>>

-----------------------------------------------------------------------------
(* Crash, boot and reconcileOne.                                           *)

Crash ==
  /\ up # "down" /\ crashes < MaxCrashes
  /\ crashes' = crashes + 1
  /\ up' = "down" /\ lockq' = <<>> /\ pc' = "idle" /\ job' = "start"
  /\ mem' = Seed /\ todo' = {} /\ ending' = "none" /\ hand' = NoCommand
  /\ dirty' = FALSE /\ streams' = NoStreams /\ failing' = FALSE
  /\ intent' = FALSE /\ marker' = FALSE
  /\ UNCHANGED <<durable, alarms, history, faults>>

\* reconcileOnBoot scans running and pending rows, and no waiting one; the
\* alarms and the API come up after it.
Boot ==
  /\ up = "down"
  /\ up' = "boot"
  /\ lockq' = IF row \in {"running", "pending"} THEN <<"reconcile">> ELSE <<>>
  /\ UNCHANGED <<durable, alarms, job, pc, pumping, streams, failing, cancels,
                 history, counters>>

BootDone ==
  /\ up = "boot" /\ pc = "idle" /\ lockq = <<>>
  /\ up' = "up"
  /\ UNCHANGED <<durable, alarms, queueing, pumping, streams, failing, cancels,
                 history, counters>>

Reconciling == pc = "reconcile" /\ ~dirty

InState(s, st) == {n \in Nodes : s.nodes[n].st = st}

RcResync ==
  /\ Reconciling /\ fact # "none"
  /\ SyncTo(fact) /\ pc' = "release"
  /\ UNCHANGED <<durable, alarms, up, lockq, job, todo, ending, hand, streams,
                 failing, cancels, history, counters>>

RcCancel ==
  /\ Reconciling /\ fact = "none" /\ CancelToFold
  /\ AppendAndFold(RunEvent("run.cancelRequested"))
  /\ intent' = FALSE
  /\ UNCHANGED <<fact, ctx, row, alarms, up, queueing, hand, streams, failing,
                 marker, history, counters>>

RcUndecided == Reconciling /\ fact = "none" /\ ~CancelToFold

\* A cancelled run: its dispatched nodes are failed, then it is resumed.
RcFailDispatched(n) ==
  /\ RcUndecided /\ mem.cancel # "none" /\ n \in InState(mem, "dispatched")
  /\ Logs(FailedEvent(n, mem.nodes[n].att, "cancelled"))
  /\ mem' = Reduce(mem, FailedEvent(n, mem.nodes[n].att, "cancelled")).state
  /\ UNCHANGED <<fact, ctx, row, alarms, up, queueing, todo, ending, hand, dirty,
                 streams, failing, cancels, history, counters>>

RcFinishCancelled ==
  /\ RcUndecided /\ mem.cancel # "none" /\ InState(mem, "dispatched") = {}
  /\ LET r == Reduce(mem, RunEvent("run.resumed")) IN
       IF mem.status = "pending"
       THEN ending' = "cancelled" /\ UNCHANGED <<mem, todo>>
       ELSE mem' = r.state /\ todo' = r.todo /\ ending' = r.end
  /\ dirty' = TRUE /\ pc' = "pump"
  /\ UNCHANGED <<durable, alarms, up, lockq, job, hand, streams, failing, cancels,
                 history, counters>>

Alarm(n) == <<n, mem.nodes[n].att>>

\* Mutant of NotProvablyIdempotent: an unknown catalog flag counts as safe.
NothingUnsafe == {}

NotProvablyIdempotent == InState(mem, "dispatched") \ Idempotent

SpentHeld == {n \in InState(mem, "retry_pending") : Alarm(n) \in spent \ armed}

\* Mutant of MissingHeld: a hold always has an alarm.
NothingMissing == {}

MissingHeld == {n \in InState(mem, "retry_pending") : Alarm(n) \notin spent \cup armed}

RcInterrupt ==
  /\ RcUndecided /\ mem.cancel = "none"
  /\ NotProvablyIdempotent \cup SpentHeld # {}
  /\ Logs(RunEvent("run.interrupted")) /\ fact' = "interrupted"
  /\ mem' = Reduce(mem, RunEvent("run.interrupted")).state
  /\ dirty' = TRUE /\ pc' = "release"
  /\ UNCHANGED <<ctx, row, alarms, up, lockq, job, todo, ending, hand, streams,
                 failing, cancels, history, counters>>

RcRecoverable == /\ RcUndecided /\ mem.cancel = "none"
                 /\ NotProvablyIdempotent \cup SpentHeld = {}

\* recoverHeld: a held retry whose alarm was never armed is armed now.
RcRearm(n) ==
  /\ RcRecoverable /\ n \in MissingHeld
  /\ armed' = armed \cup {Alarm(n)}
  /\ UNCHANGED <<durable, spent, up, queueing, pumping, streams, failing, cancels,
                 history, counters>>

\* What the reconcile events would put in the pump's queue, a park aside.
LiveCommands ==
  LET r == Reduce(mem, RunEvent("run.resumed")) IN
  r.todo # {} \/ r.end \notin {"none", "park"} \/ InState(mem, "dispatched") # {}

Held == InState(mem, "retry_pending") \cup InState(mem, "wait_pending") # {}

RcHold ==
  /\ RcRecoverable /\ MissingHeld = {} /\ ~LiveCommands /\ Held
  /\ pc' = "release"
  /\ UNCHANGED <<durable, alarms, up, lockq, job, pumping, streams, failing,
                 cancels, history, counters>>

RcResume ==
  /\ RcRecoverable /\ MissingHeld = {} /\ (LiveCommands \/ ~Held)
  /\ Logs(RunEvent("run.resumed"))
  /\ Folds(Reduce(mem, RunEvent("run.resumed")))
  /\ pc' = "requeue"
  /\ UNCHANGED <<fact, ctx, row, alarms, up, lockq, job, hand, dirty, streams,
                 failing, cancels, history, counters>>

RcRetry(n) ==
  /\ pc = "requeue" /\ n \in InState(mem, "dispatched")
  /\ LET e == NodeEvent("node.retryRequested", n, mem.nodes[n].att) IN
       Logs(e) /\ Folds(Reduce(mem, e))
  /\ UNCHANGED <<fact, ctx, row, alarms, up, queueing, hand, dirty, streams,
                 failing, cancels, history, counters>>

RcPump ==
  /\ pc = "requeue" /\ InState(mem, "dispatched") = {}
  /\ pc' = "pump" /\ dirty' = TRUE
  /\ UNCHANGED <<durable, alarms, up, lockq, job, mem, todo, ending, hand, streams,
                 failing, cancels, history, counters>>

-----------------------------------------------------------------------------
StartSteps == StartRefused \/ StartCancelled \/ StartContext \/ StartRun

LockSteps == Acquire \/ EnterCancel \/ EnterResume \/ Release \/ SyncRow

PumpSteps ==
  \/ AppendScheduled \/ Park \/ FinishRun \/ FoldMarker \/ PumpEnd \/ PumpReturn
  \/ \E n \in Nodes : Spawn(n) \/ Arm(n) \/ FoldStream(n)

StreamSteps ==
  \E n \in Nodes : \/ OpenStream(n) \/ Preflight(n) \/ AbortQueued(n)
                   \/ StartAdapter(n) \/ AdapterEnds(n) \/ DropStream(n)

AlarmSteps == \E n \in Nodes : FireAlarm(n) \/ SuppressAlarm(n)

ReconcileSteps ==
  \/ RcResync \/ RcCancel \/ RcFinishCancelled \/ RcInterrupt \/ RcHold
  \/ RcResume \/ RcPump \/ Boot \/ BootDone
  \/ \E n \in Nodes : RcFailDispatched(n) \/ RcRearm(n) \/ RcRetry(n)

Mishaps == Crash \/ WriteThrows \/ \E n \in Nodes : StreamThrows(n)

\* The run is over and nothing is left to do for it.
Over ==
  /\ up = "up" /\ pc = "idle" /\ lockq = <<>> /\ armed = {} /\ row \in Terminal
  /\ UNCHANGED vars

Next ==
  \/ StartSteps \/ LockSteps \/ PumpSteps \/ StreamSteps \/ AlarmSteps
  \/ ReconcileSteps \/ RequestCancel \/ LeaseReclaim \/ Mishaps \/ Over

Spec == Init /\ [][Next]_vars

(***************************************************************************)
(* The scheduling the code gives: promises settle and queued jobs get the  *)
(* lock, adapters return (the executor's timeout), the alarm tick keeps    *)
(* coming whenever the event loop is free, the host restarts the process.  *)
(* Nothing makes an operator cancel, a write throw or a process crash.     *)
(***************************************************************************)
Fairness ==
  /\ WF_vars(StartSteps) /\ WF_vars(LockSteps) /\ WF_vars(PumpSteps)
  /\ WF_vars(ReconcileSteps) /\ WF_vars(LeaseReclaim)
  /\ \A n \in Nodes : /\ WF_vars(OpenStream(n)) /\ WF_vars(Preflight(n))
                      /\ WF_vars(AbortQueued(n)) /\ WF_vars(StartAdapter(n))
                      /\ WF_vars(AdapterEnds(n)) /\ WF_vars(DropStream(n))
                      /\ SF_vars(FireAlarm(n))

FairSpec == Spec /\ Fairness

-----------------------------------------------------------------------------
(* Properties.                                                             *)

StreamsType ==
  /\ streams \in [Nodes -> Stream]
  /\ \A n \in Nodes : streams[n].ph = "offerR" => streams[n].out \in Results

\* Every variable keeps its type, and a stream that offers an end has a result.
TypeOK ==
  /\ proj \in RunState /\ mem \in RunState
  /\ fact \in Terminal \cup {"none"} /\ ctx \in BOOLEAN /\ row \in RunStatus
  /\ armed \subseteq Nodes \X Nat /\ spent \subseteq Nodes \X Nat
  /\ up \in {"down", "boot", "up"} /\ lockq \in Seq(Jobs) /\ job \in Jobs
  /\ pc \in {"start", "idle", "enter", "reconcile", "requeue", "pump", "drain",
             "release"}
  /\ todo \subseteq Command /\ ending \in Ending
  /\ hand \in Command \cup {NoCommand}
  /\ dirty \in BOOLEAN /\ failing \in BOOLEAN
  /\ intent \in BOOLEAN /\ marker \in BOOLEAN
  /\ StreamsType
  /\ began \subseteq Nodes \X Nat /\ again \subseteq began
  /\ crashes \in 0..MaxCrashes /\ faults \in 0..MaxFaults

\* No attempt is executed twice, whatever alarms, cancels, crashes and
\* reclaims interleave with its drive (drives.ts: the lock exists so that a
\* node is not dispatched twice under one attemptId).
AttemptOnce == again = {}

\* Once an adapter has started, the log shows its attempt at least dispatched:
\* a crash after a side effect never leaves the node `ready` (reconcile.ts).
EffectLeavesDispatched ==
  \A n \in Nodes : <<n, proj.nodes[n].att>> \in began =>
                     proj.nodes[n].st \notin {"pending", "ready"}

\* An activity that is not idempotent runs once, plus once for each retry its
\* policy granted: a crash or a reclaim never adds an execution.
NonIdempotentOnce ==
  \A n \in Nodes \ Idempotent :
    Cardinality({a \in began : a[1] = n}) <= proj.nodes[n].retries + 1

\* The row never shows an end the log does not hold, except the one a refused
\* start leaves (terminalizeInterrupted patches the row of an empty log).
RowEndIsLogged ==
  row \in Terminal => row = fact \/ (LogEmpty /\ row = "interrupted")

\* A run the log calls successful has, in the log, only successful nodes: the
\* outcome decided on the pump's own state is the one the log supports.
SuccessIsEarned ==
  fact = "success" => \A n \in Nodes : proj.nodes[n].st = "success"

\* The end a reader is shown is the one that happened: the row's is the log's,
\* and a logged success is earned.
EndIsTrue == RowEndIsLogged /\ SuccessIsEarned

\* A parked run nobody drives has a pending alarm that would wake it
\* (reconcileOnBoot skips waiting rows because of it).
WaitingHasLiveAlarm ==
  row = "waiting" /\ fact = "none" /\ pc = "idle" /\ lockq = <<>> =>
    \E a \in armed : Fresh(a[1], a[2])

\* An uncancelled pump whose state has fallen behind the log has a drive queued
\* behind it that will project the log again.
StaleHasDrive ==
  Waiting /\ mem.cancel = "none" /\ mem.nodes # proj.nodes =>
    \E i \in DOMAIN lockq : lockq[i] = "drive"

\* A pending cancel intent has a job that will fold or drop it, unless the run
\* was over before its start could fold it.
IntentHasTaker ==
  intent => \/ row \in Terminal
            \/ \E i \in DOMAIN lockq : lockq[i] = "cancel"
            \/ pc # "idle" /\ job \in {"start", "cancel"}

\* Once the cancel is in the log no adapter starts (onCancelFolded, spawn).
CancelStopsWork == [][proj.cancel # "none" => began' = began]_vars

Lifecycle == INSTANCE RunLifecycle
  WITH status <- row, stopping <- (proj.cancel # "none"),
       executed <- began

\* The row, the log's cancel and the executed attempts behave as the lifecycle
\* specification says a run behaves.
ImplementsLifecycle == Lifecycle!Spec

\* Every run ends, with its row and its log agreeing, if the process is up
\* again after its crashes.
Terminates == <>[](row \in Terminal /\ (row = fact \/ LogEmpty))
=============================================================================
