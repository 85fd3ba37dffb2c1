----------------------------- MODULE RunReducer -----------------------------
(***************************************************************************)
(* The pure run reducer of shared/src/engine/reduce.ts: a run state, the   *)
(* events that are folded onto it, and the commands a fold hands back to   *)
(* the driver.  The documents are the ones whose entities are activities   *)
(* and `wait` nodes joined by `success` edges under join 'all'.  A fold    *)
(* result is a record                                                      *)
(*    state : the next run state                                           *)
(*    todo  : the node commands (dispatchNode, scheduleWait,               *)
(*            scheduleRetry) it emits                                      *)
(*    end   : "none", "park" (parkRun) or the outcome of a finishRun       *)
(* parkRun and finishRun are only ever emitted when no node command is, so *)
(* keeping them apart from the node commands loses no order.               *)
(***************************************************************************)
EXTENDS Naturals, FiniteSets

CONSTANTS
  Nodes,     \* the document's nodes
  Waits,     \* the nodes that are `wait` activities; the rest are dispatched
  Deps,      \* the nodes a node has an incoming edge from
  Anc,       \* the transitive closure of Deps
  Budget     \* policy.retry of each node

ASSUME GraphAssumption ==
  /\ Waits \subseteq Nodes
  /\ Deps \in [Nodes -> SUBSET Nodes]
  /\ Anc \in [Nodes -> SUBSET Nodes]
  /\ \A n \in Nodes : /\ n \notin Anc[n]
                      /\ Anc[n] = Deps[n] \cup UNION {Anc[m] : m \in Deps[n]}
                      /\ \A m \in Anc[n] : Anc[m] \subseteq Anc[n]
  /\ Budget \in [Nodes -> Nat]

-----------------------------------------------------------------------------
(* State, commands and fold results.                                       *)

Terminal == {"success", "failure", "interrupted", "cancelled"}

RunStatus == {"pending", "running", "waiting"} \cup Terminal

NodeStatus == {"pending", "ready", "dispatched", "success", "failure",
               "skipped", "retry_pending", "wait_pending"}

\* `att` is the ordinal of currentAttemptId ("<node>#<att - 1>"), 0 for none.
NodeState == [st : NodeStatus, att : Nat, retries : Nat]

\* `cancel` is cancelRequested: null, {stoppedWork: false}, {stoppedWork: true}.
RunState == [status : RunStatus,
             cancel : {"none", "requested", "stopped"},
             nodes  : [Nodes -> NodeState]]

Command == [type : {"dispatchNode", "scheduleWait", "scheduleRetry"},
            node : Nodes, att : Nat]

Ending == {"none", "park", "success", "failure", "cancelled"}

FoldResult == [state : RunState, todo : SUBSET Command, end : Ending]

Only(s) == [state |-> s, todo |-> {}, end |-> "none"]

Finish(s, outcome) == [state |-> s, todo |-> {}, end |-> outcome]

Seed == [status |-> "pending", cancel |-> "none",
         nodes |-> [n \in Nodes |-> [st |-> "pending", att |-> 0, retries |-> 0]]]

WithNode(s, n, st) == [s EXCEPT !.nodes[n].st = st]

InFlight(st) == st \in {"ready", "dispatched", "retry_pending"}

AwaitsEvent(st) == InFlight(st) \/ st = "wait_pending"

Done(st) == st \in {"success", "failure", "skipped"}

AllTerminal(s) == \A n \in Nodes : Done(s.nodes[n].st)

\* With success edges only, nothing absorbs a failure: any failed node fails
\* the run.
OutcomeFailed(s) == \E n \in Nodes : s.nodes[n].st = "failure"

MarkStoppedWork(s) ==
  IF s.cancel = "none" THEN s ELSE [s EXCEPT !.cancel = "stopped"]

UnparkIfWaiting(s) ==
  IF s.status = "waiting" THEN [s EXCEPT !.status = "running"] ELSE s

-----------------------------------------------------------------------------
(* settle: the readiness walk to its fixpoint, then the run-level verdict. *)

\* A predecessor that failed or was skipped kills every node downstream of it.
Dead(s, n) == /\ s.nodes[n].st = "pending"
              /\ \E m \in Anc[n] : s.nodes[m].st \in {"failure", "skipped"}

Startable(s, n) == /\ s.cancel = "none"
                   /\ s.nodes[n].st = "pending"
                   /\ \A m \in Deps[n] : s.nodes[m].st = "success"

Walk(s) ==
  [s EXCEPT !.nodes = [n \in Nodes |->
     IF Dead(s, n) THEN [s.nodes[n] EXCEPT !.st = "skipped"]
     ELSE IF Startable(s, n)
          THEN [st |-> "ready", att |-> s.nodes[n].att + 1,
                retries |-> s.nodes[n].retries]
          ELSE s.nodes[n]]]

CommandFor(n, att) ==
  [type |-> IF n \in Waits THEN "scheduleWait" ELSE "dispatchNode",
   node |-> n, att |-> att]

Outcome(s) == IF OutcomeFailed(s) THEN "failure" ELSE "success"

Verdict(s) ==
  LET flying == \E n \in Nodes : InFlight(s.nodes[n].st) IN
  IF s.cancel # "none"
  THEN IF flying THEN "none"
       ELSE IF s.cancel = "stopped" \/ ~AllTerminal(s) THEN "cancelled"
       ELSE Outcome(s)
  ELSE IF AllTerminal(s) THEN Outcome(s)
  ELSE IF ~\E n \in Nodes : AwaitsEvent(s.nodes[n].st) THEN "failure"
  ELSE IF s.status = "running" /\ ~flying THEN "park"
  ELSE "none"

Settle(s) ==
  LET w == Walk(s) IN
  [state |-> w,
   todo  |-> {CommandFor(n, w.nodes[n].att) : n \in {m \in Nodes : Startable(s, m)}},
   end   |-> Verdict(w)]

-----------------------------------------------------------------------------
(* The event handlers.  Each drops an event that does not name the node's  *)
(* current attempt, or that the node's status does not admit.              *)

Current(s, n, att) == s.nodes[n].att = att

OnDispatched(s, n, att) ==
  IF Current(s, n, att) /\ s.nodes[n].st = "ready"
  THEN Only(WithNode(s, n, "dispatched")) ELSE Only(s)

OnSucceeded(s, n, att) ==
  IF s.nodes[n].st \in {"ready", "dispatched"} /\ Current(s, n, att)
  THEN Settle(WithNode(s, n, "success"))
  ELSE IF s.nodes[n].st = "pending" THEN Finish(s, "failure")
  ELSE Only(s)

RetryEligible(s, n, kind) == kind = "transient" /\ s.nodes[n].retries < Budget[n]

OnFailed(s, n, att, kind) ==
  IF s.nodes[n].st \in {"ready", "dispatched"} /\ Current(s, n, att)
  THEN LET failed == WithNode(s, n, "failure") IN
       IF s.cancel # "none"
       THEN Settle(IF kind = "cancelled" \/ RetryEligible(s, n, kind)
                   THEN MarkStoppedWork(failed) ELSE failed)
       ELSE IF RetryEligible(s, n, kind)
       THEN [state |-> WithNode(s, n, "retry_pending"),
             todo  |-> {[type |-> "scheduleRetry", node |-> n, att |-> att]},
             end   |-> "none"]
       ELSE Settle(failed)
  ELSE IF s.nodes[n].st = "pending" THEN Finish(s, "failure")
  ELSE Only(s)

\* Mutant of Redispatch: the new dispatch keeps the attempt's id.
RedispatchSameAttempt(s, n, retries) ==
  [state |-> [s EXCEPT !.nodes[n].st = "ready", !.nodes[n].retries = retries],
   todo  |-> {[type |-> "dispatchNode", node |-> n, att |-> s.nodes[n].att]},
   end   |-> "none"]

Redispatch(s, n, retries) ==
  LET att == s.nodes[n].att + 1 IN
  [state |-> [s EXCEPT !.nodes[n] = [st |-> "ready", att |-> att,
                                     retries |-> retries]],
   todo  |-> {[type |-> "dispatchNode", node |-> n, att |-> att]},
   end   |-> "none"]

OnRetryDue(s, n, att) ==
  IF s.nodes[n].st = "retry_pending" /\ Current(s, n, att)
  THEN Redispatch(s, n, s.nodes[n].retries + 1) ELSE Only(s)

OnRetryRequested(s, n, att) ==
  IF s.nodes[n].st \in {"ready", "dispatched"} /\ Current(s, n, att)
  THEN IF s.cancel # "none"
       THEN Settle(MarkStoppedWork(WithNode(s, n, "failure")))
       ELSE Redispatch(s, n, s.nodes[n].retries)
  ELSE Only(s)

OnWaitScheduled(s, n, att) ==
  IF s.nodes[n].st = "ready" /\ Current(s, n, att)
  THEN Settle(WithNode(s, n, "wait_pending")) ELSE Only(s)

OnWaitDue(s, n, att) ==
  IF s.nodes[n].st = "wait_pending" /\ Current(s, n, att)
  THEN Settle(WithNode(UnparkIfWaiting(s), n, "success")) ELSE Only(s)

\* A cancel fails every held retry at once and marks the work it stopped.
OnCancelRequested(s) ==
  IF s.cancel # "none" THEN Only(s)
  ELSE LET held == {n \in Nodes : s.nodes[n].st = "retry_pending"}
           u    == UnparkIfWaiting(s) IN
       Settle([u EXCEPT !.cancel = IF held = {} THEN "requested" ELSE "stopped",
                        !.nodes = [n \in Nodes |->
                           IF n \in held THEN [s.nodes[n] EXCEPT !.st = "failure"]
                           ELSE s.nodes[n]]])

OnFinished(s, outcome) ==
  IF \/ outcome = "success" /\ ~(AllTerminal(s) /\ ~OutcomeFailed(s))
     \/ outcome = "cancelled" /\ s.cancel = "none"
  THEN Finish(s, "failure")
  ELSE Only([s EXCEPT !.status = outcome])

\* `ready` nodes whose command died with the pump that owned it.
Lost(s) == {n \in Nodes : s.nodes[n].st = "ready"}

ResumeCancelled(s) ==
  LET failed == [s EXCEPT !.nodes = [n \in Nodes |->
                   IF n \in Lost(s) THEN [s.nodes[n] EXCEPT !.st = "failure"]
                   ELSE s.nodes[n]]] IN
  Settle(IF Lost(s) = {} THEN s ELSE MarkStoppedWork(failed))

OnResumed(s0) ==
  LET s == UnparkIfWaiting(s0) IN
  IF s.status # "running" THEN Only(s)
  ELSE IF s.cancel # "none" THEN ResumeCancelled(s)
  ELSE LET r == Settle(s) IN
       [r EXCEPT !.todo = @ \cup {CommandFor(n, s.nodes[n].att) : n \in Lost(s)}]

-----------------------------------------------------------------------------
(* reduce: run-level guards first, then the handler of the event's type.   *)

UnparkEvents == {"timer.due", "run.resumed", "run.cancelRequested"}

\* An event a pending run takes; every other one is dropped until run.started.
ReducePending(s, e) ==
  CASE e.type = "run.started" -> Settle([s EXCEPT !.status = "running"])
    [] e.type = "run.interrupted" -> Only([s EXCEPT !.status = "interrupted"])
    [] e.type = "run.cancelRequested" /\ s.cancel = "none" ->
         Finish([s EXCEPT !.cancel = "requested"], "cancelled")
    [] e.type = "run.finished" /\ e.kind = "cancelled" /\ s.cancel # "none" ->
         Only([s EXCEPT !.status = "cancelled"])
    [] OTHER -> Only(s)

ReduceLive(s, e) ==
  CASE e.type = "run.finished"        -> OnFinished(s, e.kind)
    [] e.type = "run.cancelRequested" -> OnCancelRequested(s)
    [] e.type = "node.dispatched"     -> OnDispatched(s, e.node, e.att)
    [] e.type = "node.succeeded"      -> OnSucceeded(s, e.node, e.att)
    [] e.type = "node.failed"         -> OnFailed(s, e.node, e.att, e.kind)
    [] e.type = "node.retryDue"       -> OnRetryDue(s, e.node, e.att)
    [] e.type = "node.retryRequested" -> OnRetryRequested(s, e.node, e.att)
    [] e.type = "timer.waitScheduled" -> OnWaitScheduled(s, e.node, e.att)
    [] e.type = "timer.due"           -> OnWaitDue(s, e.node, e.att)
    [] e.type = "run.resumed"         -> OnResumed(s)
    [] e.type = "run.waiting"         -> Only([s EXCEPT !.status = "waiting"])
    [] e.type = "run.interrupted"     -> Only([s EXCEPT !.status = "interrupted"])
    [] OTHER                          -> Only(s)

Reduce(s, e) ==
  IF s.status = "pending" THEN ReducePending(s, e)
  ELSE IF s.status = "running" \/ (s.status = "waiting" /\ e.type \in UnparkEvents)
  THEN ReduceLive(s, e)
  ELSE Only(s)

NodeEvent(type, n, att) == [type |-> type, node |-> n, att |-> att]

FailedEvent(n, att, kind) ==
  [type |-> "node.failed", node |-> n, att |-> att, kind |-> kind]

RunEvent(type) == [type |-> type]

FinishedEvent(outcome) == [type |-> "run.finished", kind |-> outcome]
=============================================================================
