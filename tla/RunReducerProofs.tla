-------------------------- MODULE RunReducerProofs --------------------------
(***************************************************************************)
(* What the run reducer guarantees for every document, every run state and *)
(* every event, reachable or not.                                          *)
(***************************************************************************)
EXTENDS RunReducer, TLAPS

RunEventType == {"run.started", "run.interrupted", "run.cancelRequested",
                 "run.resumed", "run.waiting"}

NodeEventType == {"node.dispatched", "node.succeeded", "node.retryDue",
                  "node.retryRequested", "node.retryScheduled",
                  "timer.waitScheduled", "timer.due"}

FailureKind == {"transient", "permanent", "cancelled"}

Event == [type : RunEventType]
         \cup [type : NodeEventType, node : Nodes, att : Nat]
         \cup [type : {"node.failed"}, node : Nodes, att : Nat, kind : FailureKind]
         \cup [type : {"run.finished"}, kind : {"success", "failure", "cancelled"}]

-----------------------------------------------------------------------------
LEMMA WithNodeType ==
  ASSUME NEW s \in RunState, NEW n \in Nodes, NEW st \in NodeStatus
  PROVE  WithNode(s, n, st) \in RunState
BY DEF WithNode, RunState, NodeState

LEMMA MarkStoppedWorkType ==
  ASSUME NEW s \in RunState
  PROVE  MarkStoppedWork(s) \in RunState
BY DEF MarkStoppedWork, RunState

LEMMA UnparkType ==
  ASSUME NEW s \in RunState
  PROVE  UnparkIfWaiting(s) \in RunState
BY DEF UnparkIfWaiting, RunState, RunStatus

LEMMA WalkType ==
  ASSUME NEW s \in RunState
  PROVE  Walk(s) \in RunState
<1> DEFINE v(n) == IF Dead(s, n) THEN [s.nodes[n] EXCEPT !.st = "skipped"]
                   ELSE IF Startable(s, n)
                        THEN [st |-> "ready", att |-> s.nodes[n].att + 1,
                              retries |-> s.nodes[n].retries]
                        ELSE s.nodes[n]
<1>1. ASSUME NEW n \in Nodes PROVE v(n) \in NodeState
  <2>1. s.nodes[n] \in NodeState
    BY DEF RunState
  <2>2. [s.nodes[n] EXCEPT !.st = "skipped"] \in NodeState
    BY <2>1 DEF NodeState, NodeStatus
  <2> QED BY <2>1, <2>2 DEF NodeState, NodeStatus
<1>2. Walk(s) = [s EXCEPT !.nodes = [n \in Nodes |-> v(n)]]
  BY DEF Walk
<1> HIDE DEF v
<1> QED BY <1>1, <1>2 DEF RunState

LEMMA SettleType ==
  ASSUME NEW s \in RunState
  PROVE  Settle(s) \in FoldResult
<1>1. Walk(s) \in RunState
  BY WalkType
<1>2. \A n \in Nodes : CommandFor(n, Walk(s).nodes[n].att) \in Command
  BY <1>1 DEF CommandFor, Command, RunState, NodeState
<1>3. Verdict(Walk(s)) \in Ending
  BY DEF Verdict, Outcome, Ending
<1> QED BY <1>1, <1>2, <1>3 DEF Settle, FoldResult

LEMMA FinishType ==
  ASSUME NEW s \in RunState, NEW outcome \in Ending
  PROVE  Finish(s, outcome) \in FoldResult
BY DEF Finish, FoldResult

LEMMA OnlyType ==
  ASSUME NEW s \in RunState
  PROVE  Only(s) \in FoldResult
BY DEF Only, FoldResult, Ending

LEMMA RedispatchType ==
  ASSUME NEW s \in RunState, NEW n \in Nodes, NEW retries \in Nat
  PROVE  Redispatch(s, n, retries) \in FoldResult
<1> DEFINE next == [st |-> "ready", att |-> s.nodes[n].att + 1, retries |-> retries]
<1>1. s.nodes[n].att + 1 \in Nat
  BY DEF RunState, NodeState
<1>2. [s EXCEPT !.nodes[n] = next] \in RunState
  BY <1>1 DEF RunState, NodeState, NodeStatus
<1>3. [type |-> "dispatchNode", node |-> n, att |-> s.nodes[n].att + 1] \in Command
  BY <1>1 DEF Command
<1> QED BY <1>2, <1>3 DEF Redispatch, FoldResult, Ending

LEMMA FailAllType ==
  ASSUME NEW s \in RunState, NEW S \in SUBSET Nodes
  PROVE  [s EXCEPT !.nodes = [n \in Nodes |->
            IF n \in S THEN [s.nodes[n] EXCEPT !.st = "failure"] ELSE s.nodes[n]]]
         \in RunState
<1>1. \A n \in Nodes : [s.nodes[n] EXCEPT !.st = "failure"] \in NodeState
  BY DEF RunState, NodeState, NodeStatus
<1> QED BY <1>1 DEF RunState

-----------------------------------------------------------------------------
LEMMA NodeHandlersType ==
  ASSUME NEW s \in RunState, NEW n \in Nodes, NEW att \in Nat,
         NEW kind \in FailureKind
  PROVE  /\ OnDispatched(s, n, att) \in FoldResult
         /\ OnSucceeded(s, n, att) \in FoldResult
         /\ OnFailed(s, n, att, kind) \in FoldResult
         /\ OnRetryDue(s, n, att) \in FoldResult
         /\ OnRetryRequested(s, n, att) \in FoldResult
         /\ OnWaitScheduled(s, n, att) \in FoldResult
         /\ OnWaitDue(s, n, att) \in FoldResult
<1>0. /\ Only(s) \in FoldResult /\ Finish(s, "failure") \in FoldResult
      /\ s.nodes[n].retries \in Nat
  BY OnlyType, FinishType DEF Ending, RunState, NodeState
<1>1. \A st \in NodeStatus : /\ WithNode(s, n, st) \in RunState
                            /\ Settle(WithNode(s, n, st)) \in FoldResult
                            /\ Only(WithNode(s, n, st)) \in FoldResult
                            /\ Settle(MarkStoppedWork(WithNode(s, n, st))) \in FoldResult
                            /\ Settle(WithNode(UnparkIfWaiting(s), n, st)) \in FoldResult
  BY WithNodeType, SettleType, OnlyType, MarkStoppedWorkType, UnparkType
<1>2. OnDispatched(s, n, att) \in FoldResult
  BY <1>0, <1>1 DEF OnDispatched, NodeStatus
<1>3. OnSucceeded(s, n, att) \in FoldResult
  BY <1>0, <1>1 DEF OnSucceeded, NodeStatus
<1>4. OnFailed(s, n, att, kind) \in FoldResult
  <2>1. [state |-> WithNode(s, n, "retry_pending"),
         todo  |-> {[type |-> "scheduleRetry", node |-> n, att |-> att]},
         end   |-> "none"] \in FoldResult
    BY <1>1 DEF FoldResult, Command, Ending, NodeStatus
  <2> QED BY <1>0, <1>1, <2>1 DEF OnFailed, NodeStatus
<1>5. OnRetryDue(s, n, att) \in FoldResult
  BY <1>0, RedispatchType DEF OnRetryDue
<1>6. OnRetryRequested(s, n, att) \in FoldResult
  BY <1>0, <1>1, RedispatchType DEF OnRetryRequested, NodeStatus
<1>7. OnWaitScheduled(s, n, att) \in FoldResult
  BY <1>0, <1>1 DEF OnWaitScheduled, NodeStatus
<1>8. OnWaitDue(s, n, att) \in FoldResult
  BY <1>0, <1>1 DEF OnWaitDue, NodeStatus
<1> QED BY <1>2, <1>3, <1>4, <1>5, <1>6, <1>7, <1>8

LEMMA RunHandlersType ==
  ASSUME NEW s \in RunState
  PROVE  /\ OnCancelRequested(s) \in FoldResult
         /\ OnResumed(s) \in FoldResult
         /\ \A o \in {"success", "failure", "cancelled"} : OnFinished(s, o) \in FoldResult
<1>1. OnCancelRequested(s) \in FoldResult
  <2> DEFINE held == {n \in Nodes : s.nodes[n].st = "retry_pending"}
             flag == IF held = {} THEN "requested" ELSE "stopped"
             nodes == [n \in Nodes |-> IF n \in held THEN [s.nodes[n] EXCEPT !.st = "failure"]
                                     ELSE s.nodes[n]]
             next == [UnparkIfWaiting(s) EXCEPT !.cancel = flag, !.nodes = nodes]
  <2>1. [s EXCEPT !.nodes = nodes] \in RunState
    BY FailAllType
  <2>2. nodes \in [Nodes -> NodeState]
    BY <2>1 DEF RunState
  <2>3. flag \in {"none", "requested", "stopped"}
    OBVIOUS
  <2> HIDE DEF nodes, flag
  <2>4. next \in RunState
    BY <2>2, <2>3, UnparkType DEF RunState
  <2>5. OnCancelRequested(s) = IF s.cancel # "none" THEN Only(s) ELSE Settle(next)
    BY DEF OnCancelRequested, nodes, flag
  <2> QED BY <2>4, <2>5, SettleType, OnlyType
<1>2. OnResumed(s) \in FoldResult
  <2> DEFINE u == UnparkIfWaiting(s)
  <2>1. u \in RunState
    BY UnparkType
  <2> HIDE DEF u
  <2>2. ResumeCancelled(u) \in FoldResult
    <3>1. Lost(u) \in SUBSET Nodes
      BY DEF Lost
    <3> QED BY <2>1, <3>1, FailAllType, MarkStoppedWorkType, SettleType
            DEF ResumeCancelled
  <2>3. [Settle(u) EXCEPT !.todo = @ \cup {CommandFor(n, u.nodes[n].att) : n \in Lost(u)}]
          \in FoldResult
    <3>1. {CommandFor(n, u.nodes[n].att) : n \in Lost(u)} \subseteq Command
      BY <2>1 DEF Lost, CommandFor, Command, RunState, NodeState
    <3> QED BY <2>1, <3>1, SettleType DEF FoldResult
  <2>4. OnResumed(s) = IF u.status # "running" THEN Only(u)
                       ELSE IF u.cancel # "none" THEN ResumeCancelled(u)
                       ELSE [Settle(u) EXCEPT !.todo = @ \cup
                               {CommandFor(n, u.nodes[n].att) : n \in Lost(u)}]
    BY DEF OnResumed, u
  <2> QED BY <2>1, <2>2, <2>3, <2>4, OnlyType
<1>3. ASSUME NEW o \in {"success", "failure", "cancelled"}
      PROVE  OnFinished(s, o) \in FoldResult
  <2>1. [s EXCEPT !.status = o] \in RunState
    BY DEF RunState, RunStatus, Terminal
  <2> QED BY <2>1, OnlyType, FinishType DEF OnFinished, Ending
<1> QED BY <1>1, <1>2, <1>3

\* reduce is total and well typed: from a well-formed run state every event
\* yields a well-formed state, node commands and at most one run-level command.
THEOREM ReduceType ==
  ASSUME NEW s \in RunState, NEW e \in Event
  PROVE  Reduce(s, e) \in FoldResult
<1>1. ReducePending(s, e) \in FoldResult
  <2>1. Settle([s EXCEPT !.status = "running"]) \in FoldResult
    <3>1. [s EXCEPT !.status = "running"] \in RunState
      BY DEF RunState, RunStatus
    <3> QED BY <3>1, SettleType
  <2>2. Only([s EXCEPT !.status = "interrupted"]) \in FoldResult
    <3>1. [s EXCEPT !.status = "interrupted"] \in RunState
      BY DEF RunState, RunStatus, Terminal
    <3> QED BY <3>1, OnlyType
  <2>3. Finish([s EXCEPT !.cancel = "requested"], "cancelled") \in FoldResult
    <3>1. [s EXCEPT !.cancel = "requested"] \in RunState
      BY DEF RunState
    <3> QED BY <3>1, FinishType DEF Ending
  <2>4. Only([s EXCEPT !.status = "cancelled"]) \in FoldResult
    <3>1. [s EXCEPT !.status = "cancelled"] \in RunState
      BY DEF RunState, RunStatus, Terminal
    <3> QED BY <3>1, OnlyType
  <2> QED BY <2>1, <2>2, <2>3, <2>4, OnlyType DEF ReducePending
<1>2. ReduceLive(s, e) \in FoldResult
  <2>1. \A st \in {"waiting", "interrupted"} :
           Only([s EXCEPT !.status = st]) \in FoldResult
    <3>1. \A st \in {"waiting", "interrupted"} : [s EXCEPT !.status = st] \in RunState
      BY DEF RunState, RunStatus, Terminal
    <3> QED BY <3>1, OnlyType
  <2>2. CASE e \in [type : RunEventType]
    BY <2>1, <2>2, OnlyType, RunHandlersType DEF ReduceLive, RunEventType
  <2>3. CASE e \in [type : NodeEventType, node : Nodes, att : Nat]
    <3>1. e.type \in NodeEventType /\ e.node \in Nodes /\ e.att \in Nat
      BY <2>3
    <3> QED BY <3>1, OnlyType, NodeHandlersType DEF ReduceLive, NodeEventType, FailureKind
  <2>4. CASE e \in [type : {"node.failed"}, node : Nodes, att : Nat, kind : FailureKind]
    <3>1. e.type = "node.failed" /\ e.node \in Nodes /\ e.att \in Nat /\ e.kind \in FailureKind
      BY <2>4
    <3> QED BY <3>1, NodeHandlersType DEF ReduceLive
  <2>5. CASE e \in [type : {"run.finished"}, kind : {"success", "failure", "cancelled"}]
    <3>1. e.type = "run.finished" /\ e.kind \in {"success", "failure", "cancelled"}
      BY <2>5
    <3> QED BY <3>1, RunHandlersType DEF ReduceLive
  <2> QED BY <2>2, <2>3, <2>4, <2>5 DEF Event
<1> QED BY <1>1, <1>2, OnlyType DEF Reduce

\* A run that has ended ignores every later event: reduce's first guard.
THEOREM EndedStays ==
  ASSUME NEW s \in RunState, NEW e \in Event, s.status \in Terminal
  PROVE  Reduce(s, e) = Only(s)
BY DEF Reduce, Terminal

-----------------------------------------------------------------------------
(* Cancelling.  Once a cancel is folded no held retry is left, and no fold *)
(* of any later event hands out a command that would start work.           *)

NoneHeld(s) == \A n \in Nodes : s.nodes[n].st # "retry_pending"

LEMMA SettleCancel ==
  ASSUME NEW s \in RunState
  PROVE  /\ Settle(s).state.status = s.status
         /\ Settle(s).state.cancel = s.cancel
         /\ s.cancel # "none" => Settle(s).todo = {}
         /\ NoneHeld(s) => NoneHeld(Settle(s).state)
<1>1. /\ Walk(s).status = s.status /\ Walk(s).cancel = s.cancel
      /\ DOMAIN Walk(s).nodes = Nodes
  BY DEF Walk, RunState
<1>2. ASSUME NEW n \in Nodes, s.nodes[n].st # "retry_pending"
      PROVE  Walk(s).nodes[n].st # "retry_pending"
  <2>1. s.nodes[n] \in NodeState
    BY DEF RunState
  <2>2. Walk(s).nodes[n] = IF Dead(s, n) THEN [s.nodes[n] EXCEPT !.st = "skipped"]
                           ELSE IF Startable(s, n)
                                THEN [st |-> "ready", att |-> s.nodes[n].att + 1,
                                      retries |-> s.nodes[n].retries]
                                ELSE s.nodes[n]
    BY DEF Walk, RunState
  <2> QED BY <1>2, <2>1, <2>2 DEF NodeState
<1>3. s.cancel # "none" => \A n \in Nodes : ~Startable(s, n)
  BY DEF Startable
<1> QED BY <1>1, <1>2, <1>3 DEF Settle, NoneHeld

LEMMA WithNodeFacts ==
  ASSUME NEW s \in RunState, NEW n \in Nodes, NEW st \in NodeStatus
  PROVE  /\ WithNode(s, n, st).status = s.status
         /\ WithNode(s, n, st).cancel = s.cancel
         /\ NoneHeld(s) /\ st # "retry_pending" => NoneHeld(WithNode(s, n, st))
BY DEF WithNode, NoneHeld, RunState, NodeState

LEMMA MarkStoppedWorkFacts ==
  ASSUME NEW s \in RunState
  PROVE  /\ MarkStoppedWork(s).status = s.status
         /\ MarkStoppedWork(s).nodes = s.nodes
         /\ s.cancel # "none" <=> MarkStoppedWork(s).cancel # "none"
BY DEF MarkStoppedWork, RunState

LEMMA UnparkFacts ==
  ASSUME NEW s \in RunState
  PROVE  /\ UnparkIfWaiting(s).nodes = s.nodes
         /\ UnparkIfWaiting(s).cancel = s.cancel
BY DEF UnparkIfWaiting, RunState

LEMMA FailAllFacts ==
  ASSUME NEW s \in RunState, NEW S \in SUBSET Nodes,
         NEW t, t = [s EXCEPT !.nodes = [n \in Nodes |->
            IF n \in S THEN [s.nodes[n] EXCEPT !.st = "failure"] ELSE s.nodes[n]]]
  PROVE  /\ t.status = s.status /\ t.cancel = s.cancel
         /\ \A n \in S : t.nodes[n].st = "failure"
         /\ \A n \in Nodes \ S : t.nodes[n].st = s.nodes[n].st
BY DEF RunState, NodeState

Stopped(r) == /\ r.state.cancel # "none"
              /\ r.todo = {}
              /\ NoneHeld(r.state)

LEMMA SettleStops ==
  ASSUME NEW s \in RunState, s.cancel # "none", NoneHeld(s)
  PROVE  Stopped(Settle(s))
BY SettleCancel DEF Stopped

LEMMA OnlyStops ==
  ASSUME NEW s \in RunState, s.cancel # "none", NoneHeld(s)
  PROVE  Stopped(Only(s)) /\ \A o \in Ending : Stopped(Finish(s, o))
BY DEF Stopped, Only, Finish

LEMMA NodeHandlersStop ==
  ASSUME NEW s \in RunState, s.cancel # "none", NoneHeld(s),
         NEW n \in Nodes, NEW att \in Nat, NEW kind \in FailureKind
  PROVE  /\ Stopped(OnDispatched(s, n, att)) /\ Stopped(OnSucceeded(s, n, att))
         /\ Stopped(OnFailed(s, n, att, kind)) /\ Stopped(OnRetryDue(s, n, att))
         /\ Stopped(OnRetryRequested(s, n, att)) /\ Stopped(OnWaitScheduled(s, n, att))
         /\ Stopped(OnWaitDue(s, n, att))
<1>0. Stopped(Only(s)) /\ Stopped(Finish(s, "failure"))
  BY OnlyStops DEF Ending
<1>1. ASSUME NEW t \in RunState, t.cancel # "none", NoneHeld(t),
             NEW st \in NodeStatus \ {"retry_pending"}
      PROVE  /\ WithNode(t, n, st) \in RunState
             /\ WithNode(t, n, st).cancel # "none"
             /\ NoneHeld(WithNode(t, n, st))
             /\ Stopped(Settle(WithNode(t, n, st)))
             /\ Stopped(Only(WithNode(t, n, st)))
  <2>1. /\ WithNode(t, n, st) \in RunState /\ WithNode(t, n, st).cancel # "none"
        /\ NoneHeld(WithNode(t, n, st))
    BY <1>1, WithNodeType, WithNodeFacts
  <2> QED BY <2>1, SettleStops, OnlyStops
<1>2. Stopped(Settle(MarkStoppedWork(WithNode(s, n, "failure"))))
  <2> DEFINE t == WithNode(s, n, "failure")
  <2>1. t \in RunState /\ t.cancel # "none" /\ NoneHeld(t)
    BY <1>1 DEF NodeStatus
  <2> HIDE DEF t
  <2>2. /\ MarkStoppedWork(t) \in RunState /\ MarkStoppedWork(t).cancel # "none"
        /\ NoneHeld(MarkStoppedWork(t))
    BY <2>1, MarkStoppedWorkType, MarkStoppedWorkFacts DEF NoneHeld
  <2>3. Stopped(Settle(MarkStoppedWork(t)))
    BY <2>2, SettleStops
  <2> QED BY <2>3 DEF t
<1>3. Stopped(OnDispatched(s, n, att))
  BY <1>0, <1>1 DEF OnDispatched, NodeStatus
<1>4. Stopped(OnSucceeded(s, n, att))
  BY <1>0, <1>1 DEF OnSucceeded, NodeStatus
<1>5. Stopped(OnFailed(s, n, att, kind))
  BY <1>0, <1>1, <1>2 DEF OnFailed, NodeStatus
<1>6. Stopped(OnRetryDue(s, n, att))
  BY <1>0 DEF OnRetryDue, NoneHeld
<1>7. Stopped(OnRetryRequested(s, n, att))
  BY <1>0, <1>2 DEF OnRetryRequested
<1>8. Stopped(OnWaitScheduled(s, n, att))
  BY <1>0, <1>1 DEF OnWaitScheduled, NodeStatus
<1>9. Stopped(OnWaitDue(s, n, att))
  <2>1. /\ UnparkIfWaiting(s) \in RunState /\ UnparkIfWaiting(s).cancel # "none"
        /\ NoneHeld(UnparkIfWaiting(s))
    BY UnparkType, UnparkFacts DEF NoneHeld
  <2>2. Stopped(Settle(WithNode(UnparkIfWaiting(s), n, "success")))
    BY <1>1, <2>1 DEF NodeStatus
  <2> QED BY <1>0, <2>2 DEF OnWaitDue
<1> QED BY <1>3, <1>4, <1>5, <1>6, <1>7, <1>8, <1>9

LEMMA ResumeStops ==
  ASSUME NEW s \in RunState, s.cancel # "none", NoneHeld(s)
  PROVE  Stopped(OnResumed(s))
<1> DEFINE u == UnparkIfWaiting(s)
           f == [u EXCEPT !.nodes = [n \in Nodes |->
                   IF n \in Lost(u) THEN [u.nodes[n] EXCEPT !.st = "failure"]
                   ELSE u.nodes[n]]]
<1>1. u \in RunState /\ u.cancel # "none" /\ NoneHeld(u)
  BY UnparkType, UnparkFacts DEF NoneHeld
<1>2. Stopped(Only(u)) /\ Stopped(Settle(u))
  BY <1>1, OnlyStops, SettleStops
<1>3. Stopped(Settle(MarkStoppedWork(f)))
  <2> HIDE DEF u
  <2>1. Lost(u) \in SUBSET Nodes
    BY DEF Lost
  <2>2. f \in RunState
    BY <1>1, <2>1, FailAllType
  <2>3. /\ f.cancel = u.cancel
        /\ \A n \in Lost(u) : f.nodes[n].st = "failure"
        /\ \A n \in Nodes \ Lost(u) : f.nodes[n].st = u.nodes[n].st
    BY <1>1, <2>1, FailAllFacts
  <2> HIDE DEF f
  <2>4. f.cancel # "none" /\ NoneHeld(f)
    BY <1>1, <2>3 DEF NoneHeld
  <2>5. /\ MarkStoppedWork(f) \in RunState /\ MarkStoppedWork(f).cancel # "none"
        /\ NoneHeld(MarkStoppedWork(f))
    BY <2>2, <2>4, MarkStoppedWorkType, MarkStoppedWorkFacts DEF NoneHeld
  <2> QED BY <2>5, SettleStops
<1>4. OnResumed(s) = IF u.status # "running" THEN Only(u)
                     ELSE Settle(IF Lost(u) = {} THEN u ELSE MarkStoppedWork(f))
  BY <1>1 DEF OnResumed, ResumeCancelled
<1> HIDE DEF u, f
<1> QED BY <1>2, <1>3, <1>4

\* Once a cancel is folded and no retry is held, no event makes the reducer
\* dispatch a node, arm a wait or a retry, withdraw the cancel or hold a retry
\* again: the reducer half of "a cancelled run starts nothing".
THEOREM CancelledStartsNothing ==
  ASSUME NEW s \in RunState, NEW e \in Event, s.cancel # "none", NoneHeld(s)
  PROVE  Stopped(Reduce(s, e))
<1>0. Stopped(Only(s))
  BY OnlyStops
<1>1. \A st \in RunStatus : Stopped(Only([s EXCEPT !.status = st]))
  <2> SUFFICES ASSUME NEW st \in RunStatus PROVE Stopped(Only([s EXCEPT !.status = st]))
    OBVIOUS
  <2>1. /\ [s EXCEPT !.status = st] \in RunState
        /\ [s EXCEPT !.status = st].cancel # "none" /\ NoneHeld([s EXCEPT !.status = st])
    BY DEF RunState, NoneHeld
  <2> QED BY <2>1, OnlyStops
<1>2. Stopped(ReducePending(s, e))
  <2>1. Stopped(Settle([s EXCEPT !.status = "running"]))
    <3>1. /\ [s EXCEPT !.status = "running"] \in RunState
          /\ [s EXCEPT !.status = "running"].cancel # "none"
          /\ NoneHeld([s EXCEPT !.status = "running"])
      BY DEF RunState, RunStatus, NoneHeld
    <3> QED BY <3>1, SettleStops
  <2> QED BY <1>0, <1>1, <2>1 DEF ReducePending, RunStatus, Terminal
<1>3. Stopped(ReduceLive(s, e))
  <2>1. Stopped(OnCancelRequested(s))
    BY <1>0 DEF OnCancelRequested
  <2>2. CASE e \in [type : RunEventType]
    BY <1>0, <1>1, <2>1, <2>2, ResumeStops
       DEF ReduceLive, RunEventType, RunStatus, Terminal
  <2>3. CASE e \in [type : NodeEventType, node : Nodes, att : Nat]
    <3>1. e.type \in NodeEventType /\ e.node \in Nodes /\ e.att \in Nat
      BY <2>3
    <3> QED BY <3>1, <1>0, NodeHandlersStop DEF ReduceLive, NodeEventType, FailureKind
  <2>4. CASE e \in [type : {"node.failed"}, node : Nodes, att : Nat, kind : FailureKind]
    <3>1. e.type = "node.failed" /\ e.node \in Nodes /\ e.att \in Nat /\ e.kind \in FailureKind
      BY <2>4
    <3> QED BY <3>1, NodeHandlersStop DEF ReduceLive
  <2>5. CASE e \in [type : {"run.finished"}, kind : {"success", "failure", "cancelled"}]
    <3>1. e.type = "run.finished" /\ e.kind \in {"success", "failure", "cancelled"}
      BY <2>5
    <3>2. Stopped(OnFinished(s, e.kind))
      BY <3>1, <1>1, OnlyStops DEF OnFinished, RunStatus, Terminal, Ending
    <3> QED BY <3>1, <3>2 DEF ReduceLive
  <2> QED BY <2>2, <2>3, <2>4, <2>5 DEF Event
<1> QED BY <1>0, <1>2, <1>3 DEF Reduce

-----------------------------------------------------------------------------
(* The cancel flag changes with run.cancelRequested and with nothing else. *)

SameCancel(s, r) == r.state.cancel = "none" <=> s.cancel = "none"

LEMMA NodeHandlersCancel ==
  ASSUME NEW s \in RunState, NEW n \in Nodes, NEW att \in Nat, NEW kind \in FailureKind
  PROVE  /\ SameCancel(s, OnDispatched(s, n, att))
         /\ SameCancel(s, OnSucceeded(s, n, att))
         /\ SameCancel(s, OnFailed(s, n, att, kind))
         /\ SameCancel(s, OnRetryDue(s, n, att))
         /\ SameCancel(s, OnRetryRequested(s, n, att))
         /\ SameCancel(s, OnWaitScheduled(s, n, att))
         /\ SameCancel(s, OnWaitDue(s, n, att))
<1>0. SameCancel(s, Only(s)) /\ SameCancel(s, Finish(s, "failure"))
  BY DEF SameCancel, Only, Finish
<1>1. ASSUME NEW st \in NodeStatus
      PROVE  /\ SameCancel(s, Only(WithNode(s, n, st)))
             /\ SameCancel(s, Settle(WithNode(s, n, st)))
             /\ SameCancel(s, Settle(MarkStoppedWork(WithNode(s, n, st))))
             /\ SameCancel(s, Settle(WithNode(UnparkIfWaiting(s), n, st)))
  <2>1. WithNode(s, n, st) \in RunState /\ WithNode(s, n, st).cancel = s.cancel
    BY WithNodeType, WithNodeFacts
  <2>2. /\ MarkStoppedWork(WithNode(s, n, st)) \in RunState
        /\ MarkStoppedWork(WithNode(s, n, st)).cancel = "none" <=> s.cancel = "none"
    BY <2>1, MarkStoppedWorkType, MarkStoppedWorkFacts
  <2>3. /\ WithNode(UnparkIfWaiting(s), n, st) \in RunState
        /\ WithNode(UnparkIfWaiting(s), n, st).cancel = s.cancel
    BY WithNodeType, WithNodeFacts, UnparkType, UnparkFacts
  <2> QED BY <2>1, <2>2, <2>3, SettleCancel DEF SameCancel, Only
<1>2. \A k \in Nat : SameCancel(s, Redispatch(s, n, k))
  BY DEF SameCancel, Redispatch, RunState
<1>3. s.nodes[n].retries \in Nat
  BY DEF RunState, NodeState
<1>4. SameCancel(s, OnFailed(s, n, att, kind))
  <2>1. SameCancel(s, [state |-> WithNode(s, n, "retry_pending"),
                       todo  |-> {[type |-> "scheduleRetry", node |-> n, att |-> att]},
                       end   |-> "none"])
    BY <1>1 DEF SameCancel, Only, NodeStatus
  <2> QED BY <1>0, <1>1, <2>1 DEF OnFailed, NodeStatus
<1>5. SameCancel(s, OnRetryDue(s, n, att)) /\ SameCancel(s, OnRetryRequested(s, n, att))
  BY <1>0, <1>1, <1>2, <1>3 DEF OnRetryDue, OnRetryRequested, NodeStatus
<1>6. SameCancel(s, OnDispatched(s, n, att)) /\ SameCancel(s, OnSucceeded(s, n, att))
  BY <1>0, <1>1 DEF OnDispatched, OnSucceeded, NodeStatus
<1>7. SameCancel(s, OnWaitScheduled(s, n, att)) /\ SameCancel(s, OnWaitDue(s, n, att))
  BY <1>0, <1>1 DEF OnWaitScheduled, OnWaitDue, NodeStatus
<1> QED BY <1>4, <1>5, <1>6, <1>7

LEMMA ResumeCancel ==
  ASSUME NEW s \in RunState
  PROVE  SameCancel(s, OnResumed(s))
<1> DEFINE u == UnparkIfWaiting(s)
           f == [u EXCEPT !.nodes = [n \in Nodes |->
                   IF n \in Lost(u) THEN [u.nodes[n] EXCEPT !.st = "failure"]
                   ELSE u.nodes[n]]]
           cmds == {CommandFor(n, u.nodes[n].att) : n \in Lost(u)}
<1>1. u \in RunState /\ u.cancel = s.cancel
  BY UnparkType, UnparkFacts
<1>2. SameCancel(s, Only(u)) /\ SameCancel(s, Settle(u))
  BY <1>1, SettleCancel DEF SameCancel, Only
<1>3. SameCancel(s, Settle(MarkStoppedWork(f)))
  <2> HIDE DEF u
  <2>0. Lost(u) \in SUBSET Nodes
    BY DEF Lost
  <2>1. f \in RunState /\ f.cancel = u.cancel
    BY <1>1, <2>0, FailAllType, FailAllFacts
  <2> HIDE DEF f
  <2>2. /\ MarkStoppedWork(f) \in RunState
        /\ MarkStoppedWork(f).cancel = "none" <=> s.cancel = "none"
    BY <1>1, <2>1, MarkStoppedWorkType, MarkStoppedWorkFacts
  <2> QED BY <2>2, SettleCancel DEF SameCancel
<1>4. SameCancel(s, [Settle(u) EXCEPT !.todo = @ \cup cmds])
  BY <1>1, <1>2, SettleType DEF SameCancel, FoldResult
<1>5. OnResumed(s) = IF u.status # "running" THEN Only(u)
                     ELSE IF u.cancel # "none"
                     THEN Settle(IF Lost(u) = {} THEN u ELSE MarkStoppedWork(f))
                     ELSE [Settle(u) EXCEPT !.todo = @ \cup cmds]
  BY DEF OnResumed, ResumeCancelled
<1> HIDE DEF u, f, cmds
<1> QED BY <1>2, <1>3, <1>4, <1>5

\* Only run.cancelRequested raises the cancel flag, every run that has not ended
\* takes it, and nothing lowers it again.
THEOREM CancelFlag ==
  ASSUME NEW s \in RunState, NEW e \in Event
  PROVE  /\ e.type # "run.cancelRequested" => SameCancel(s, Reduce(s, e))
         /\ s.cancel # "none" => Reduce(s, e).state.cancel # "none"
         /\ e.type = "run.cancelRequested" /\ s.status \notin Terminal =>
              Reduce(s, e).state.cancel # "none"
<1>0. SameCancel(s, Only(s))
  BY DEF SameCancel, Only
<1>1. ASSUME NEW st \in RunStatus
      PROVE  /\ SameCancel(s, Only([s EXCEPT !.status = st]))
             /\ SameCancel(s, Settle([s EXCEPT !.status = st]))
  <2>1. [s EXCEPT !.status = st] \in RunState /\ [s EXCEPT !.status = st].cancel = s.cancel
    BY DEF RunState
  <2> QED BY <2>1, SettleCancel DEF SameCancel, Only
<1>2. e.type # "run.cancelRequested" => SameCancel(s, Reduce(s, e))
  <2> SUFFICES ASSUME e.type # "run.cancelRequested" PROVE SameCancel(s, Reduce(s, e))
    OBVIOUS
  <2>1. SameCancel(s, ReducePending(s, e))
    BY <1>0, <1>1 DEF ReducePending, RunStatus, Terminal
  <2>2. CASE e \in [type : RunEventType]
    BY <1>0, <1>1, <2>1, <2>2, ResumeCancel
       DEF Reduce, ReduceLive, RunEventType, RunStatus, Terminal
  <2>3. CASE e \in [type : NodeEventType, node : Nodes, att : Nat]
    <3>1. e.type \in NodeEventType /\ e.node \in Nodes /\ e.att \in Nat
      BY <2>3
    <3>2. SameCancel(s, ReduceLive(s, e))
      BY <1>0, <3>1, NodeHandlersCancel DEF ReduceLive, NodeEventType, FailureKind
    <3> QED BY <1>0, <2>1, <3>2 DEF Reduce
  <2>4. CASE e \in [type : {"node.failed"}, node : Nodes, att : Nat, kind : FailureKind]
    <3>1. e.type = "node.failed" /\ e.node \in Nodes /\ e.att \in Nat /\ e.kind \in FailureKind
      BY <2>4
    <3>2. SameCancel(s, ReduceLive(s, e))
      BY <3>1, NodeHandlersCancel DEF ReduceLive
    <3> QED BY <1>0, <2>1, <3>2 DEF Reduce
  <2>5. CASE e \in [type : {"run.finished"}, kind : {"success", "failure", "cancelled"}]
    <3>1. e.type = "run.finished" /\ e.kind \in RunStatus
      BY <2>5 DEF RunStatus, Terminal
    <3>2. SameCancel(s, OnFinished(s, e.kind))
      BY <1>1, <3>1 DEF OnFinished, SameCancel, Finish
    <3>3. SameCancel(s, ReduceLive(s, e))
      BY <3>1, <3>2 DEF ReduceLive
    <3> QED BY <1>0, <2>1, <3>3 DEF Reduce
  <2> QED BY <2>2, <2>3, <2>4, <2>5 DEF Event
<1>3. s.cancel = "none" => OnCancelRequested(s).state.cancel # "none"
  <2> SUFFICES ASSUME s.cancel = "none" PROVE OnCancelRequested(s).state.cancel # "none"
    OBVIOUS
  <2> DEFINE held == {n \in Nodes : s.nodes[n].st = "retry_pending"}
             flag == IF held = {} THEN "requested" ELSE "stopped"
             nodes == [n \in Nodes |-> IF n \in held THEN [s.nodes[n] EXCEPT !.st = "failure"]
                                     ELSE s.nodes[n]]
             next == [UnparkIfWaiting(s) EXCEPT !.cancel = flag, !.nodes = nodes]
  <2>1. [s EXCEPT !.nodes = nodes] \in RunState
    BY FailAllType
  <2>2. nodes \in [Nodes -> NodeState] /\ flag \in {"requested", "stopped"}
    BY <2>1 DEF RunState
  <2>3. OnCancelRequested(s) = Settle(next)
    BY DEF OnCancelRequested
  <2> HIDE DEF nodes, flag
  <2>4. next \in RunState /\ next.cancel # "none"
    BY <2>2, UnparkType DEF RunState
  <2> HIDE DEF next
  <2> QED BY <2>3, <2>4, SettleCancel
<1>4. ASSUME e.type = "run.cancelRequested"
      PROVE  /\ s.cancel # "none" => Reduce(s, e).state.cancel # "none"
             /\ s.status \notin Terminal => Reduce(s, e).state.cancel # "none"
  <2>1. [s EXCEPT !.cancel = "requested"].cancel = "requested"
    BY DEF RunState
  <2>2. s.cancel # "none" => OnCancelRequested(s) = Only(s)
    BY DEF OnCancelRequested
  <2>3. s.status \notin Terminal => s.status \in {"pending", "running", "waiting"}
    BY DEF RunState, RunStatus
  <2>4. ReduceLive(s, e) = OnCancelRequested(s)
    BY <1>4 DEF ReduceLive
  <2>5. ReducePending(s, e) = IF s.cancel = "none"
                              THEN Finish([s EXCEPT !.cancel = "requested"], "cancelled")
                              ELSE Only(s)
    BY <1>4 DEF ReducePending
  <2>6. Reduce(s, e) = IF s.status = "pending" THEN ReducePending(s, e)
                       ELSE IF s.status \in {"running", "waiting"} THEN ReduceLive(s, e)
                       ELSE Only(s)
    BY <1>4 DEF Reduce, UnparkEvents
  <2> QED BY <1>3, <2>1, <2>2, <2>3, <2>4, <2>5, <2>6 DEF Only, Finish
<1> QED BY <1>2, <1>4 DEF SameCancel
-----------------------------------------------------------------------------
(* What a fold may do to a node, to the run's status and to the pump's      *)
(* queue.  The drive's invariants use these facts and not the reducer.      *)

\* The node takes the status st and keeps its attempt.
Turns(x, y, st) == y.st = st /\ y.att = x.att /\ y.retries = x.retries

\* The node is dispatched anew.
Renews(x, y, retries) == y.st = "ready" /\ y.att = x.att + 1 /\ y.retries = retries

OwnMove(s, e, n, x, y) ==
  /\ e.type \in NodeEventType \cup {"node.failed"}
  /\ e.node = n /\ x.att = e.att
  /\ \/ e.type = "node.dispatched" /\ x.st = "ready" /\ Turns(x, y, "dispatched")
     \/ e.type = "node.succeeded" /\ x.st \in {"ready", "dispatched"} /\ Turns(x, y, "success")
     \/ e.type = "node.failed" /\ x.st \in {"ready", "dispatched"} /\ Turns(x, y, "failure")
     \/ /\ e.type = "node.failed" /\ x.st \in {"ready", "dispatched"} /\ s.cancel = "none"
        /\ Turns(x, y, "retry_pending")
     \/ e.type = "node.retryDue" /\ x.st = "retry_pending" /\ Renews(x, y, x.retries + 1)
     \/ e.type = "node.retryRequested" /\ x.st \in {"ready", "dispatched"}
        /\ IF s.cancel = "none" THEN Renews(x, y, x.retries) ELSE Turns(x, y, "failure")
     \/ e.type = "timer.waitScheduled" /\ x.st = "ready" /\ Turns(x, y, "wait_pending")
     \/ e.type = "timer.due" /\ x.st = "wait_pending" /\ Turns(x, y, "success")

\* The readiness walk: a pending node is skipped, or started once everything
\* upstream of it has succeeded.
WalkMove(s, t, n, x, y) ==
  /\ x.st = "pending"
  /\ \/ Turns(x, y, "skipped")
     \/ /\ s.cancel = "none" /\ Renews(x, y, x.retries)
        /\ \A m \in Anc[n] : t.nodes[m].st = "success"

RunMove(s, e, x, y) ==
  /\ Turns(x, y, "failure")
  /\ \/ e.type = "run.cancelRequested" /\ x.st = "retry_pending"
     \/ e.type = "run.resumed" /\ x.st = "ready" /\ s.cancel # "none"

NodeMove(s, e, t, n) ==
  LET x == s.nodes[n]
      y == t.nodes[n] IN
  y = x \/ WalkMove(s, t, n, x, y) \/ OwnMove(s, e, n, x, y) \/ RunMove(s, e, x, y)

\* A command stands for what its node now waits for, and concerns a node that
\* was pending, the event's own node, or one a resume found ready.
TodoMove(s, e, t, c) ==
  /\ t.status = "running" /\ t.nodes[c.node].att = c.att
  /\ \/ c.type = "scheduleRetry" /\ t.nodes[c.node].st = "retry_pending"
     \/ c.type = "scheduleWait" /\ t.nodes[c.node].st = "ready" /\ c.node \in Waits
     \/ c.type = "dispatchNode" /\ t.nodes[c.node].st = "ready" /\ c.node \notin Waits
  /\ \/ s.nodes[c.node].st = "pending"
     \/ e.type = "run.resumed"
     \/ e.type = "node.failed" /\ e.node = c.node /\ c.type = "scheduleRetry"
     \/ e.type \in {"node.retryDue", "node.retryRequested"} /\ e.node = c.node

\* A park or an outcome is only asked for when nothing is in flight.
EndMove(t, end) ==
  end # "none" =>
    /\ \A n \in Nodes : ~InFlight(t.nodes[n].st)
    /\ \/ t.status = "running"
       \/ t.status = "pending" /\ end = "cancelled" /\ t.cancel # "none"

Moves(s, e, r) ==
  /\ \A n \in Nodes : NodeMove(s, e, r.state, n)
  /\ \A c \in r.todo : TodoMove(s, e, r.state, c)
  /\ EndMove(r.state, r.end)

\* What every state folded from a log satisfies, whatever the events.
Sound(s) ==
  /\ \A n \in Nodes :
       LET x == s.nodes[n] IN
       /\ x.st = "pending" => x.att = 0
       /\ x.st \in {"ready", "dispatched", "retry_pending", "wait_pending"} => x.att > 0
       /\ x.retries < x.att \/ (x.att = 0 /\ x.retries = 0)
       /\ x.st \notin {"pending", "skipped"} => \A m \in Anc[n] : s.nodes[m].st = "success"
       /\ n \in Waits => x.st \notin {"dispatched", "retry_pending"}
  /\ s.status = "pending" => \A n \in Nodes : s.nodes[n].st = "pending"
  /\ s.cancel # "none" => NoneHeld(s)

\* Only an activity is dispatched, fails, and is retried.
Proper(e) ==
  e.type \in {"node.dispatched", "node.failed", "node.retryDue", "node.retryRequested"} =>
    e.node \notin Waits

\* A result is that of a node that was started, and an outcome is accepted.
Answered(s, e) ==
  /\ e.type \in {"node.succeeded", "node.failed"} => s.nodes[e.node].st # "pending"
  /\ e.type = "run.finished" => Reduce(s, e).state.status \in Terminal

LEMMA SettleMoves ==
  ASSUME NEW b \in RunState, \A n \in Nodes : b.nodes[n].st \notin {"pending", "skipped"} =>
           \A m \in Anc[n] : b.nodes[m].st = "success"
  PROVE  /\ Settle(b).state \in RunState
         /\ Settle(b).state.status = b.status /\ Settle(b).state.cancel = b.cancel
         /\ \A n \in Nodes : LET x == b.nodes[n]  y == Settle(b).state.nodes[n] IN
              y = x \/ WalkMove(b, Settle(b).state, n, x, y)
         /\ \A c \in Settle(b).todo :
              /\ c.node \in Nodes /\ b.nodes[c.node].st = "pending" /\ b.cancel = "none"
              /\ Settle(b).state.nodes[c.node].st = "ready"
              /\ Settle(b).state.nodes[c.node].att = c.att
              /\ c.type = IF c.node \in Waits THEN "scheduleWait" ELSE "dispatchNode"
         /\ Settle(b).end # "none" => \A n \in Nodes : ~InFlight(Settle(b).state.nodes[n].st)
<1> DEFINE t == Walk(b)
<1>1. /\ t \in RunState /\ t.status = b.status /\ t.cancel = b.cancel
      /\ Settle(b).state = t
  BY WalkType DEF Settle, Walk, RunState
<1>2. ASSUME NEW n \in Nodes
      PROVE  t.nodes[n] = IF Dead(b, n) THEN [b.nodes[n] EXCEPT !.st = "skipped"]
                          ELSE IF Startable(b, n)
                               THEN [st |-> "ready", att |-> b.nodes[n].att + 1,
                                     retries |-> b.nodes[n].retries]
                               ELSE b.nodes[n]
  BY DEF Walk, RunState
<1>3. \A n \in Nodes : b.nodes[n] \in NodeState
  BY DEF RunState
<1>4. ASSUME NEW n \in Nodes, Startable(b, n)
      PROVE  (\A m \in Anc[n] : b.nodes[m].st = "success") /\ ~Dead(b, n)
  <2>1. \A m \in Deps[n] : m \in Nodes /\ b.nodes[m].st = "success"
    BY <1>4, GraphAssumption DEF Startable
  <2>2. \A m \in Deps[n] : \A k \in Anc[m] : b.nodes[k].st = "success"
    BY <2>1
  <2>3. \A m \in Anc[n] : m \in Deps[n] \/ \E k \in Deps[n] : m \in Anc[k]
    BY GraphAssumption
  <2> QED BY <2>1, <2>2, <2>3 DEF Dead
<1> HIDE DEF t
<1>5. \A n \in Nodes : b.nodes[n].st = "success" => t.nodes[n] = b.nodes[n]
  BY <1>2 DEF Dead, Startable
<1>6. ASSUME NEW n \in Nodes
      PROVE  t.nodes[n] = b.nodes[n] \/ WalkMove(b, t, n, b.nodes[n], t.nodes[n])
  <2>1. CASE Dead(b, n)
    <3>1. Turns(b.nodes[n], t.nodes[n], "skipped") /\ b.nodes[n].st = "pending"
      BY <1>2, <1>3, <2>1 DEF Dead, Turns, NodeState
    <3> QED BY <3>1 DEF WalkMove
  <2>2. CASE ~Dead(b, n) /\ Startable(b, n)
    <3>0. t.nodes[n] = [st |-> "ready", att |-> b.nodes[n].att + 1,
                        retries |-> b.nodes[n].retries]
      BY <1>2, <2>2
    <3>1. /\ Renews(b.nodes[n], t.nodes[n], b.nodes[n].retries)
          /\ b.nodes[n].st = "pending" /\ b.cancel = "none"
      BY <2>2, <3>0 DEF Startable, Renews
    <3>2. \A m \in Anc[n] : m \in Nodes /\ t.nodes[m].st = "success"
      BY <1>4, <1>5, <2>2, GraphAssumption
    <3> QED BY <3>1, <3>2 DEF WalkMove
  <2>3. CASE ~Dead(b, n) /\ ~Startable(b, n)
    BY <1>2, <2>3
  <2> QED BY <2>1, <2>2, <2>3
<1>7. ASSUME NEW c \in Settle(b).todo
      PROVE  /\ c.node \in Nodes /\ b.nodes[c.node].st = "pending" /\ b.cancel = "none"
             /\ t.nodes[c.node].st = "ready" /\ t.nodes[c.node].att = c.att
             /\ c.type = IF c.node \in Waits THEN "scheduleWait" ELSE "dispatchNode"
  <2>1. PICK n \in Nodes : Startable(b, n) /\ c = CommandFor(n, t.nodes[n].att)
    BY <1>7 DEF Settle, t
  <2>2. t.nodes[n] = [st |-> "ready", att |-> b.nodes[n].att + 1,
                      retries |-> b.nodes[n].retries]
    BY <1>2, <1>4, <2>1
  <2> QED BY <2>1, <2>2 DEF CommandFor, Startable
<1>8. Settle(b).end # "none" => \A n \in Nodes : ~InFlight(t.nodes[n].st)
  <2>1. Settle(b).end = Verdict(t)
    BY DEF Settle, t
  <2> QED BY <2>1 DEF Verdict, AllTerminal, Done, InFlight, AwaitsEvent
<1> QED BY <1>1, <1>6, <1>7, <1>8

\* Settling after the event's own change.
LEMMA SettleAfter ==
  ASSUME NEW s \in RunState, Sound(s), NEW e \in Event, NEW b \in RunState,
         b.status = "running", b.cancel = "none" => s.cancel = "none",
         \A m \in Nodes : LET x == s.nodes[m]  y == b.nodes[m] IN
           y = x \/ OwnMove(s, e, m, x, y) \/ RunMove(s, e, x, y)
  PROVE  Moves(s, e, Settle(b))
<1> DEFINE t == Settle(b).state
<1>1. \A m \in Nodes : /\ b.nodes[m] \in NodeState /\ s.nodes[m] \in NodeState
                       /\ b.nodes[m].st = "pending" <=> s.nodes[m].st = "pending"
                       /\ b.nodes[m].st = "skipped" <=> s.nodes[m].st = "skipped"
                       /\ s.nodes[m].st = "success" => b.nodes[m].st = "success"
  BY DEF RunState, OwnMove, RunMove, Turns, Renews
<1>2. \A n \in Nodes : b.nodes[n].st \notin {"pending", "skipped"} =>
        \A m \in Anc[n] : m \in Nodes /\ b.nodes[m].st = "success"
  BY <1>1, GraphAssumption DEF Sound
<1>3. /\ t \in RunState /\ t.status = b.status /\ t.cancel = b.cancel
      /\ \A n \in Nodes : LET x == b.nodes[n]  y == t.nodes[n] IN
              y = x \/ WalkMove(b, t, n, x, y)
      /\ \A c \in Settle(b).todo :
              /\ c.node \in Nodes /\ b.nodes[c.node].st = "pending" /\ b.cancel = "none"
              /\ t.nodes[c.node].st = "ready" /\ t.nodes[c.node].att = c.att
              /\ c.type = IF c.node \in Waits THEN "scheduleWait" ELSE "dispatchNode"
      /\ Settle(b).end # "none" => \A n \in Nodes : ~InFlight(t.nodes[n].st)
  BY <1>2, SettleMoves
<1> HIDE DEF t
<1>4. ASSUME NEW n \in Nodes PROVE NodeMove(s, e, t, n)
  <2>1. CASE t.nodes[n] = b.nodes[n]
    BY <2>1 DEF NodeMove
  <2>2. CASE WalkMove(b, t, n, b.nodes[n], t.nodes[n])
    <3>1. b.nodes[n].st = "pending"
      BY <2>2 DEF WalkMove
    <3>2. b.nodes[n] = s.nodes[n]
      BY <3>1 DEF OwnMove, RunMove, Turns, Renews
    <3> QED BY <2>2, <3>2 DEF WalkMove, NodeMove
  <2> QED BY <1>3, <2>1, <2>2
<1>5. ASSUME NEW c \in Settle(b).todo PROVE TodoMove(s, e, t, c)
  BY <1>1, <1>3 DEF TodoMove
<1>6. EndMove(t, Settle(b).end)
  BY <1>3 DEF EndMove
<1> QED BY <1>4, <1>5, <1>6 DEF Moves, t

\* A fold that hands back nothing.
LEMMA OnlyMoves ==
  ASSUME NEW s, NEW e, NEW t,
         \A n \in Nodes : t.nodes[n] = s.nodes[n] \/ OwnMove(s, e, n, s.nodes[n], t.nodes[n])
  PROVE  Moves(s, e, Only(t))
BY DEF Moves, Only, NodeMove, EndMove

\* The state in which one node has turned to st.
LEMMA WithNodeTurns ==
  ASSUME NEW s \in RunState, NEW n \in Nodes, NEW st \in NodeStatus
  PROVE  /\ WithNode(s, n, st) \in RunState
         /\ WithNode(s, n, st).status = s.status /\ WithNode(s, n, st).cancel = s.cancel
         /\ Turns(s.nodes[n], WithNode(s, n, st).nodes[n], st)
         /\ \A m \in Nodes \ {n} : WithNode(s, n, st).nodes[m] = s.nodes[m]
BY WithNodeType DEF WithNode, Turns, RunState, NodeState

LEMMA RedispatchMoves ==
  ASSUME NEW s \in RunState, s.status = "running", NEW n \in Nodes \ Waits, NEW k \in Nat,
         NEW e, \A y : Renews(s.nodes[n], y, k) => OwnMove(s, e, n, s.nodes[n], y),
         e.type \in {"node.retryDue", "node.retryRequested"}, e.node = n
  PROVE  Moves(s, e, Redispatch(s, n, k))
<1> DEFINE next == [st |-> "ready", att |-> s.nodes[n].att + 1, retries |-> k]
           t == [s EXCEPT !.nodes[n] = next]
           c == [type |-> "dispatchNode", node |-> n, att |-> s.nodes[n].att + 1]
<1>1. Redispatch(s, n, k) = [state |-> t, todo |-> {c}, end |-> "none"]
  BY DEF Redispatch
<1>2. /\ t.status = "running" /\ t.nodes[n] = next
      /\ \A m \in Nodes \ {n} : t.nodes[m] = s.nodes[m]
  BY DEF RunState
<1> HIDE DEF t
<1>3. Renews(s.nodes[n], t.nodes[n], k)
  BY <1>2 DEF Renews
<1>4. \A m \in Nodes : NodeMove(s, e, t, m)
  BY <1>2, <1>3 DEF NodeMove
<1>5. TodoMove(s, e, t, c)
  BY <1>2 DEF TodoMove
<1> QED BY <1>1, <1>4, <1>5 DEF Moves, EndMove

LEMMA NodeHandlersMove ==
  ASSUME NEW s \in RunState, Sound(s), NEW e \in Event, Proper(e), Answered(s, e),
         e.type \in NodeEventType \cup {"node.failed"},
         s.status = "running" \/ (s.status = "waiting" /\ e.type = "timer.due")
  PROVE  Moves(s, e, ReduceLive(s, e))
<1> DEFINE n == e.node
           x == s.nodes[n]
<1>0. /\ e.node \in Nodes /\ e.att \in Nat
      /\ e.type = "node.failed" => e.kind \in FailureKind
      /\ e.type # "run.finished" /\ e.type # "run.cancelRequested"
  BY DEF Event, NodeEventType, RunEventType
<1>1. Moves(s, e, Only(s))
  BY OnlyMoves
<1>2. ASSUME NEW u \in RunState, u.nodes = s.nodes, u.cancel = s.cancel, u.status = "running",
             NEW st \in NodeStatus,
             \A y : Turns(x, y, st) => OwnMove(s, e, n, x, y)
      PROVE  /\ Moves(s, e, Only(WithNode(u, n, st)))
             /\ Moves(s, e, Settle(WithNode(u, n, st)))
             /\ Moves(s, e, Settle(MarkStoppedWork(WithNode(u, n, st))))
  <2> DEFINE b == WithNode(u, n, st)
  <2>1. /\ b \in RunState /\ b.status = "running" /\ b.cancel = s.cancel
        /\ Turns(x, b.nodes[n], st) /\ \A m \in Nodes \ {n} : b.nodes[m] = s.nodes[m]
    BY <1>0, <1>2, WithNodeTurns
  <2> HIDE DEF b
  <2>2. \A m \in Nodes : b.nodes[m] = s.nodes[m] \/ OwnMove(s, e, m, s.nodes[m], b.nodes[m])
    BY <1>2, <2>1
  <2>3. /\ MarkStoppedWork(b) \in RunState /\ MarkStoppedWork(b).status = "running"
        /\ MarkStoppedWork(b).nodes = b.nodes
        /\ MarkStoppedWork(b).cancel = "none" => s.cancel = "none"
    BY <2>1, MarkStoppedWorkType, MarkStoppedWorkFacts
  <2>4. Moves(s, e, Only(b)) /\ Moves(s, e, Settle(b)) /\ Moves(s, e, Settle(MarkStoppedWork(b)))
    BY <2>1, <2>2, <2>3, OnlyMoves, SettleAfter
  <2> QED BY <2>4 DEF b
<1>3. CASE e.type = "node.dispatched"
  <2>1. ReduceLive(s, e) = OnDispatched(s, n, e.att) /\ s.status = "running"
    BY <1>3 DEF ReduceLive
  <2>2. CASE Current(s, n, e.att) /\ x.st = "ready"
    <3>1. \A y : Turns(x, y, "dispatched") => OwnMove(s, e, n, x, y)
      BY <1>3, <2>2 DEF OwnMove, Current, NodeEventType
    <3> QED BY <1>2, <2>1, <2>2, <3>1 DEF OnDispatched, NodeStatus
  <2> QED BY <1>1, <2>1, <2>2 DEF OnDispatched
<1>4. CASE e.type = "node.succeeded"
  <2>1. ReduceLive(s, e) = OnSucceeded(s, n, e.att) /\ s.status = "running" /\ x.st # "pending"
    BY <1>4 DEF ReduceLive, Answered
  <2>2. CASE Current(s, n, e.att) /\ x.st \in {"ready", "dispatched"}
    <3>1. \A y : Turns(x, y, "success") => OwnMove(s, e, n, x, y)
      BY <1>4, <2>2 DEF OwnMove, Current, NodeEventType
    <3> QED BY <1>2, <2>1, <2>2, <3>1 DEF OnSucceeded, NodeStatus
  <2> QED BY <1>1, <2>1, <2>2 DEF OnSucceeded
<1>5. CASE e.type = "node.failed"
  <2>1. ReduceLive(s, e) = OnFailed(s, n, e.att, e.kind) /\ s.status = "running" /\ x.st # "pending"
    BY <1>5 DEF ReduceLive, Answered
  <2>2. CASE Current(s, n, e.att) /\ x.st \in {"ready", "dispatched"}
    <3>1. \A y : Turns(x, y, "failure") => OwnMove(s, e, n, x, y)
      BY <1>5, <2>2 DEF OwnMove, Current
    <3>2. /\ Moves(s, e, Settle(WithNode(s, n, "failure")))
          /\ Moves(s, e, Settle(MarkStoppedWork(WithNode(s, n, "failure"))))
      BY <1>2, <2>1, <3>1 DEF NodeStatus
    <3>3. s.cancel = "none" =>
            Moves(s, e, [state |-> WithNode(s, n, "retry_pending"),
                         todo  |-> {[type |-> "scheduleRetry", node |-> n, att |-> e.att]},
                         end   |-> "none"])
      <4> SUFFICES ASSUME s.cancel = "none"
                   PROVE  Moves(s, e, [state |-> WithNode(s, n, "retry_pending"),
                            todo  |-> {[type |-> "scheduleRetry", node |-> n, att |-> e.att]},
                            end   |-> "none"])
        OBVIOUS
      <4> DEFINE b == WithNode(s, n, "retry_pending")
                 c == [type |-> "scheduleRetry", node |-> n, att |-> e.att]
      <4>1. /\ b.status = "running"
            /\ Turns(x, b.nodes[n], "retry_pending")
            /\ \A m \in Nodes \ {n} : b.nodes[m] = s.nodes[m]
        BY <1>0, <2>1, WithNodeTurns DEF NodeStatus
      <4> HIDE DEF b
      <4>2. OwnMove(s, e, n, x, b.nodes[n])
        BY <1>5, <2>2, <4>1 DEF OwnMove, Current
      <4>3. \A m \in Nodes : NodeMove(s, e, b, m)
        BY <4>1, <4>2 DEF NodeMove
      <4>4. TodoMove(s, e, b, c)
        BY <1>5, <2>2, <4>1 DEF TodoMove, Turns, Current
      <4>5. Moves(s, e, [state |-> b, todo |-> {c}, end |-> "none"])
        BY <4>3, <4>4 DEF Moves, EndMove
      <4> QED BY <4>5 DEF b
    <3> QED BY <2>1, <2>2, <3>2, <3>3 DEF OnFailed
  <2> QED BY <1>1, <2>1, <2>2 DEF OnFailed
<1>6. CASE e.type = "node.retryDue"
  <2>1. ReduceLive(s, e) = OnRetryDue(s, n, e.att) /\ s.status = "running"
    BY <1>6 DEF ReduceLive
  <2>2. CASE Current(s, n, e.att) /\ x.st = "retry_pending"
    <3>1. \A y : Renews(x, y, x.retries + 1) => OwnMove(s, e, n, x, y)
      BY <1>6, <2>2 DEF OwnMove, Current, NodeEventType
    <3>2. n \in Nodes \ Waits /\ x.retries + 1 \in Nat
      BY <1>0, <1>6 DEF Proper, RunState, NodeState
    <3>3. Moves(s, e, Redispatch(s, n, x.retries + 1))
      BY <1>6, <2>1, <3>1, <3>2, RedispatchMoves
    <3> QED BY <2>1, <2>2, <3>3 DEF OnRetryDue
  <2> QED BY <1>1, <2>1, <2>2 DEF OnRetryDue
<1>7. CASE e.type = "node.retryRequested"
  <2>1. ReduceLive(s, e) = OnRetryRequested(s, n, e.att) /\ s.status = "running"
    BY <1>7 DEF ReduceLive
  <2>2. CASE Current(s, n, e.att) /\ x.st \in {"ready", "dispatched"} /\ s.cancel = "none"
    <3>1. \A y : Renews(x, y, x.retries) => OwnMove(s, e, n, x, y)
      BY <1>7, <2>2 DEF OwnMove, Current, NodeEventType
    <3>2. n \in Nodes \ Waits /\ x.retries \in Nat
      BY <1>0, <1>7 DEF Proper, RunState, NodeState
    <3>3. Moves(s, e, Redispatch(s, n, x.retries))
      BY <1>7, <2>1, <3>1, <3>2, RedispatchMoves
    <3> QED BY <2>1, <2>2, <3>3 DEF OnRetryRequested
  <2>3. CASE Current(s, n, e.att) /\ x.st \in {"ready", "dispatched"} /\ s.cancel # "none"
    <3>1. \A y : Turns(x, y, "failure") => OwnMove(s, e, n, x, y)
      BY <1>7, <2>3 DEF OwnMove, Current, NodeEventType
    <3> QED BY <1>2, <2>1, <2>3, <3>1 DEF OnRetryRequested, NodeStatus
  <2> QED BY <1>1, <2>1, <2>2, <2>3 DEF OnRetryRequested
<1>8. CASE e.type = "timer.waitScheduled"
  <2>1. ReduceLive(s, e) = OnWaitScheduled(s, n, e.att) /\ s.status = "running"
    BY <1>8 DEF ReduceLive
  <2>2. CASE Current(s, n, e.att) /\ x.st = "ready"
    <3>1. \A y : Turns(x, y, "wait_pending") => OwnMove(s, e, n, x, y)
      BY <1>8, <2>2 DEF OwnMove, Current, NodeEventType
    <3> QED BY <1>2, <2>1, <2>2, <3>1 DEF OnWaitScheduled, NodeStatus
  <2> QED BY <1>1, <2>1, <2>2 DEF OnWaitScheduled
<1>9. CASE e.type = "timer.due"
  <2>1. ReduceLive(s, e) = OnWaitDue(s, n, e.att)
    BY <1>9 DEF ReduceLive
  <2>2. CASE Current(s, n, e.att) /\ x.st = "wait_pending"
    <3>1. \A y : Turns(x, y, "success") => OwnMove(s, e, n, x, y)
      BY <1>9, <2>2 DEF OwnMove, Current, NodeEventType
    <3>2. /\ UnparkIfWaiting(s) \in RunState /\ UnparkIfWaiting(s).nodes = s.nodes
          /\ UnparkIfWaiting(s).cancel = s.cancel /\ UnparkIfWaiting(s).status = "running"
      BY UnparkType, UnparkFacts DEF UnparkIfWaiting, RunState
    <3>3. Moves(s, e, Settle(WithNode(UnparkIfWaiting(s), n, "success")))
      BY <1>2, <3>1, <3>2 DEF NodeStatus
    <3> QED BY <2>1, <2>2, <3>3 DEF OnWaitDue
  <2> QED BY <1>1, <2>1, <2>2 DEF OnWaitDue
<1>10. CASE e.type = "node.retryScheduled"
  BY <1>1, <1>10 DEF ReduceLive
<1> QED BY <1>3, <1>4, <1>5, <1>6, <1>7, <1>8, <1>9, <1>10 DEF NodeEventType

LEMMA CancelMoves ==
  ASSUME NEW s \in RunState, Sound(s), s.status \in {"running", "waiting"},
         NEW e \in Event, e.type = "run.cancelRequested"
  PROVE  Moves(s, e, OnCancelRequested(s)) /\ NoneHeld(OnCancelRequested(s).state)
<1>1. CASE s.cancel # "none"
  <2>1. OnCancelRequested(s) = Only(s) /\ NoneHeld(s)
    BY <1>1 DEF OnCancelRequested, Sound
  <2> QED BY <2>1, OnlyMoves DEF Only
<1>2. CASE s.cancel = "none"
  <2> DEFINE held == {n \in Nodes : s.nodes[n].st = "retry_pending"}
             flag == IF held = {} THEN "requested" ELSE "stopped"
             nodes == [n \in Nodes |-> IF n \in held THEN [s.nodes[n] EXCEPT !.st = "failure"]
                                       ELSE s.nodes[n]]
             next == [UnparkIfWaiting(s) EXCEPT !.cancel = flag, !.nodes = nodes]
  <2>1. nodes \in [Nodes -> NodeState]
    <3>1. [s EXCEPT !.nodes = nodes] \in RunState
      BY FailAllType
    <3> QED BY <3>1 DEF RunState
  <2>2. flag \in {"requested", "stopped"} /\ held \subseteq Nodes
    OBVIOUS
  <2>3. OnCancelRequested(s) = Settle(next)
    BY <1>2 DEF OnCancelRequested
  <2>4. \A n \in Nodes : s.nodes[n] \in NodeState
    BY DEF RunState
  <2>5. \A n \in Nodes : \/ nodes[n] = s.nodes[n] /\ s.nodes[n].st # "retry_pending"
                         \/ RunMove(s, e, s.nodes[n], nodes[n]) /\ nodes[n].st = "failure"
    BY <2>4 DEF RunMove, Turns, NodeState
  <2>6. UnparkIfWaiting(s) \in RunState /\ UnparkIfWaiting(s).status = "running"
    BY UnparkType DEF UnparkIfWaiting, RunState
  <2> HIDE DEF nodes, flag
  <2>7. next \in RunState /\ next.status = "running" /\ next.cancel = flag /\ next.nodes = nodes
    BY <2>1, <2>2, <2>6 DEF RunState
  <2> HIDE DEF next
  <2>8. NoneHeld(next)
    BY <2>5, <2>7 DEF NoneHeld
  <2>9. NoneHeld(Settle(next).state)
    BY <2>7, <2>8, SettleCancel
  <2>10. Moves(s, e, Settle(next))
    BY <1>2, <2>5, <2>7, SettleAfter
  <2> QED BY <2>3, <2>9, <2>10
<1> QED BY <1>1, <1>2 DEF RunState

LEMMA ResumeMoves ==
  ASSUME NEW s \in RunState, Sound(s), s.status \in {"running", "waiting"},
         NEW e \in Event, e.type = "run.resumed"
  PROVE  Moves(s, e, OnResumed(s)) /\ OnResumed(s).state.status = "running"
<1> DEFINE u == UnparkIfWaiting(s)
           f == [u EXCEPT !.nodes = [n \in Nodes |->
                   IF n \in Lost(u) THEN [u.nodes[n] EXCEPT !.st = "failure"]
                   ELSE u.nodes[n]]]
           b == IF Lost(u) = {} THEN u ELSE MarkStoppedWork(f)
           cmds == {CommandFor(n, u.nodes[n].att) : n \in Lost(u)}
<1>1. /\ u \in RunState /\ u.status = "running" /\ u.nodes = s.nodes /\ u.cancel = s.cancel
      /\ Lost(u) = {n \in Nodes : s.nodes[n].st = "ready"} /\ Lost(u) \in SUBSET Nodes
  BY UnparkType, UnparkFacts DEF UnparkIfWaiting, RunState, Lost
<1>2. OnResumed(s) = IF u.cancel # "none" THEN Settle(b)
                     ELSE [Settle(u) EXCEPT !.todo = @ \cup cmds]
  BY <1>1 DEF OnResumed, ResumeCancelled
<1> HIDE DEF u
<1>3. CASE s.cancel # "none"
  <2>1. /\ f \in RunState /\ f.status = "running" /\ f.cancel = s.cancel
        /\ \A n \in Nodes : IF n \in Lost(u) THEN Turns(s.nodes[n], f.nodes[n], "failure")
                            ELSE f.nodes[n] = s.nodes[n]
    <3>1. f \in RunState
      BY <1>1, FailAllType
    <3>4. f.status = u.status /\ f.cancel = u.cancel
      BY <1>1, FailAllFacts
    <3>2. \A n \in Nodes : s.nodes[n] \in NodeState
      BY DEF RunState
    <3>3. \A n \in Nodes : f.nodes[n] = IF n \in Lost(u) THEN [s.nodes[n] EXCEPT !.st = "failure"]
                                        ELSE s.nodes[n]
      BY <1>1 DEF RunState
    <3> HIDE DEF f
    <3> QED BY <1>1, <3>1, <3>2, <3>3, <3>4 DEF Turns, NodeState
  <2> HIDE DEF f
  <2>2. /\ MarkStoppedWork(f) \in RunState /\ MarkStoppedWork(f).status = "running"
        /\ MarkStoppedWork(f).nodes = f.nodes /\ MarkStoppedWork(f).cancel # "none"
    BY <1>3, <2>1, MarkStoppedWorkType, MarkStoppedWorkFacts
  <2>3. /\ b \in RunState /\ b.status = "running" /\ b.cancel # "none"
        /\ \A n \in Nodes : b.nodes[n] = s.nodes[n] \/ RunMove(s, e, s.nodes[n], b.nodes[n])
    BY <1>1, <1>3, <2>1, <2>2 DEF RunMove
  <2> HIDE DEF b
  <2>4. Moves(s, e, Settle(b)) /\ Settle(b).state.status = "running"
    BY <2>3, SettleAfter, SettleCancel
  <2> QED BY <1>1, <1>2, <1>3, <2>4
<1>4. CASE s.cancel = "none"
  <2>1. /\ Moves(s, e, Settle(u)) /\ Settle(u).state.status = "running"
        /\ Settle(u) \in FoldResult
    BY <1>1, SettleAfter, SettleCancel, SettleType
  <2>2. \A n \in Nodes : u.nodes[n].st \notin {"pending", "skipped"} =>
           \A m \in Anc[n] : u.nodes[m].st = "success"
    BY <1>1 DEF Sound
  <2>3. \A n \in Lost(u) : /\ n \in Nodes /\ s.nodes[n].st = "ready"
                           /\ Settle(u).state.nodes[n] = s.nodes[n]
    BY <1>1, <2>2, SettleMoves DEF WalkMove
  <2>4. \A c \in cmds : TodoMove(s, e, Settle(u).state, c)
    BY <1>1, <2>1, <2>3 DEF CommandFor, TodoMove
  <2>5. /\ OnResumed(s).state = Settle(u).state /\ OnResumed(s).end = Settle(u).end
        /\ OnResumed(s).todo = Settle(u).todo \cup cmds
    BY <1>1, <1>2, <1>4, <2>1 DEF FoldResult
  <2> HIDE DEF cmds
  <2> QED BY <2>1, <2>4, <2>5 DEF Moves
<1> QED BY <1>3, <1>4

\* Every fold of an event the drive can produce moves nodes, hands out commands
\* and asks for an end only as Moves says: each node along its own edges, a
\* command only for the attempt that waits for it, a park or
\* an outcome only once no node is in flight.
THEOREM ReduceMoves ==
  ASSUME NEW s \in RunState, Sound(s), NEW e \in Event, Proper(e)
  PROVE  /\ \A n \in Nodes : NodeMove(s, e, Reduce(s, e).state, n)
         /\ Answered(s, e) => Moves(s, e, Reduce(s, e))
<1>0. Moves(s, e, Only(s))
  BY OnlyMoves
<1>1. \A st : Moves(s, e, Only([s EXCEPT !.status = st]))
  <2> SUFFICES ASSUME NEW st PROVE Moves(s, e, Only([s EXCEPT !.status = st]))
    OBVIOUS
  <2>1. [s EXCEPT !.status = st].nodes = s.nodes
    BY DEF RunState
  <2> QED BY <2>1, OnlyMoves
<1>2. ASSUME NEW o \in Ending PROVE \A n \in Nodes : NodeMove(s, e, Finish(s, o).state, n)
  BY DEF Finish, NodeMove
<1>3. ASSUME s.status = "pending" PROVE Moves(s, e, ReducePending(s, e))
  <2>1. CASE e.type = "run.started"
    <3> DEFINE b == [s EXCEPT !.status = "running"]
    <3>1. b \in RunState /\ b.status = "running" /\ b.cancel = s.cancel /\ b.nodes = s.nodes
      BY DEF RunState, RunStatus
    <3> HIDE DEF b
    <3>2. Moves(s, e, Settle(b))
      BY <3>1, SettleAfter
    <3> QED BY <2>1, <3>2 DEF ReducePending, b
  <2>2. CASE e.type = "run.cancelRequested" /\ s.cancel = "none"
    <3> DEFINE b == [s EXCEPT !.cancel = "requested"]
    <3>1. b.status = "pending" /\ b.cancel = "requested" /\ b.nodes = s.nodes
      BY <1>3 DEF RunState
    <3>2. \A n \in Nodes : s.nodes[n].st = "pending"
      BY <1>3 DEF Sound
    <3> HIDE DEF b
    <3>3. Moves(s, e, Finish(b, "cancelled"))
      BY <3>1, <3>2 DEF Moves, Finish, NodeMove, EndMove, InFlight
    <3> QED BY <2>2, <3>3 DEF ReducePending, b
  <2>3. CASE e.type # "run.started" /\ ~(e.type = "run.cancelRequested" /\ s.cancel = "none")
    BY <1>0, <1>1, <2>3 DEF ReducePending
  <2> QED BY <2>1, <2>2, <2>3
<1>4. ASSUME s.status = "running" \/ (s.status = "waiting" /\ e.type \in UnparkEvents)
      PROVE  /\ \A n \in Nodes : NodeMove(s, e, ReduceLive(s, e).state, n)
             /\ Answered(s, e) => Moves(s, e, ReduceLive(s, e))
  <2>0. Reduce(s, e) = ReduceLive(s, e)
    BY <1>4 DEF Reduce
  <2>1. CASE e \in [type : RunEventType]
    <3>1. CASE e.type = "run.cancelRequested"
      BY <1>4, <3>1, CancelMoves DEF ReduceLive, Moves
    <3>2. CASE e.type = "run.resumed"
      BY <1>4, <3>2, ResumeMoves DEF ReduceLive, Moves
    <3>3. CASE e.type \in {"run.started", "run.interrupted", "run.waiting"}
      BY <1>0, <1>1, <3>3 DEF ReduceLive, Moves
    <3> QED BY <2>1, <3>1, <3>2, <3>3 DEF RunEventType
  <2>2. CASE e.type \in NodeEventType \cup {"node.failed"}
    <3>1. s.status = "running" \/ (s.status = "waiting" /\ e.type = "timer.due")
      BY <1>4, <2>2 DEF UnparkEvents, NodeEventType
    <3>2. Answered(s, e) => Moves(s, e, ReduceLive(s, e))
      BY <2>2, <3>1, NodeHandlersMove
    <3>3. CASE ~Answered(s, e)
      <4>1. /\ e.type \in {"node.succeeded", "node.failed"} /\ s.nodes[e.node].st = "pending"
        BY <2>2, <3>3 DEF Answered, NodeEventType
      <4>2. ReduceLive(s, e).state = s
        BY <4>1 DEF ReduceLive, OnSucceeded, OnFailed, Finish
      <4> QED BY <3>3, <4>2 DEF NodeMove
    <3> QED BY <3>2, <3>3 DEF Moves
  <2>3. CASE e \in [type : {"run.finished"}, kind : {"success", "failure", "cancelled"}]
    <3>1. ReduceLive(s, e) = OnFinished(s, e.kind) /\ e.type = "run.finished"
      BY <2>3 DEF ReduceLive
    <3>2. CASE ReduceLive(s, e) = Finish(s, "failure")
      <4>1. ~Answered(s, e)
        BY <1>4, <2>0, <3>1, <3>2 DEF Answered, Finish, Terminal, UnparkEvents
      <4> QED BY <1>2, <3>2, <4>1 DEF Ending
    <3>3. CASE ReduceLive(s, e) = Only([s EXCEPT !.status = e.kind])
      BY <1>1, <3>3 DEF Moves
    <3> QED BY <3>1, <3>2, <3>3 DEF OnFinished
  <2> QED BY <2>1, <2>2, <2>3 DEF Event
<1> QED BY <1>0, <1>3, <1>4 DEF Reduce, Moves

-----------------------------------------------------------------------------
(* The run's status.                                                        *)

StatusMove(s, e, t) ==
  \/ t.status = s.status
  \/ s.status = "pending" /\ e.type = "run.started" /\ t.status = "running"
  \/ s.status = "running" /\ e.type = "run.waiting" /\ t.status = "waiting"
  \/ s.status = "waiting" /\ e.type \in UnparkEvents /\ t.status = "running"
  \/ s.status \in {"pending", "running"} /\ e.type = "run.interrupted" /\ t.status = "interrupted"
  \/ s.status = "running" /\ e.type = "run.finished" /\ t.status = e.kind
     /\ (e.kind = "cancelled" => s.cancel # "none")
  \/ s.status = "pending" /\ e.type = "run.finished" /\ t.status = e.kind
     /\ e.kind = "cancelled" /\ s.cancel # "none"

LEMMA NodeHandlersStatus ==
  ASSUME NEW s \in RunState, NEW n \in Nodes, NEW att \in Nat, NEW kind \in FailureKind
  PROVE  /\ OnDispatched(s, n, att).state.status = s.status
         /\ OnSucceeded(s, n, att).state.status = s.status
         /\ OnFailed(s, n, att, kind).state.status = s.status
         /\ OnRetryDue(s, n, att).state.status = s.status
         /\ OnRetryRequested(s, n, att).state.status = s.status
         /\ OnWaitScheduled(s, n, att).state.status = s.status
         /\ OnWaitDue(s, n, att).state.status \in {s.status, UnparkIfWaiting(s).status}
         /\ s.nodes[n].st = "wait_pending" /\ Current(s, n, att) =>
              OnWaitDue(s, n, att).state.status = UnparkIfWaiting(s).status
<1>0. Only(s).state.status = s.status /\ Finish(s, "failure").state.status = s.status
  BY DEF Only, Finish
<1>1. ASSUME NEW st \in NodeStatus
      PROVE  /\ WithNode(s, n, st).status = s.status
             /\ Only(WithNode(s, n, st)).state.status = s.status
             /\ Settle(WithNode(s, n, st)).state.status = s.status
             /\ Settle(MarkStoppedWork(WithNode(s, n, st))).state.status = s.status
             /\ Settle(WithNode(UnparkIfWaiting(s), n, st)).state.status = UnparkIfWaiting(s).status
  <2>1. WithNode(s, n, st) \in RunState /\ WithNode(s, n, st).status = s.status
    BY WithNodeType, WithNodeFacts
  <2>2. /\ MarkStoppedWork(WithNode(s, n, st)) \in RunState
        /\ MarkStoppedWork(WithNode(s, n, st)).status = s.status
    BY <2>1, MarkStoppedWorkType, MarkStoppedWorkFacts
  <2>3. /\ WithNode(UnparkIfWaiting(s), n, st) \in RunState
        /\ WithNode(UnparkIfWaiting(s), n, st).status = UnparkIfWaiting(s).status
    BY WithNodeType, WithNodeFacts, UnparkType
  <2> QED BY <2>1, <2>2, <2>3, SettleCancel DEF Only
<1>2. \A k \in Nat : Redispatch(s, n, k).state.status = s.status
  BY DEF Redispatch, RunState
<1>3. s.nodes[n].retries \in Nat
  BY DEF RunState, NodeState
<1>4. OnDispatched(s, n, att).state.status = s.status /\ OnSucceeded(s, n, att).state.status = s.status
  BY <1>0, <1>1 DEF OnDispatched, OnSucceeded, NodeStatus
<1>5. OnFailed(s, n, att, kind).state.status = s.status
  BY <1>0, <1>1 DEF OnFailed, NodeStatus
<1>6. OnRetryDue(s, n, att).state.status = s.status /\ OnRetryRequested(s, n, att).state.status = s.status
  BY <1>0, <1>1, <1>2, <1>3 DEF OnRetryDue, OnRetryRequested, NodeStatus
<1>7. OnWaitScheduled(s, n, att).state.status = s.status
  BY <1>0, <1>1 DEF OnWaitScheduled, NodeStatus
<1>8. /\ OnWaitDue(s, n, att).state.status \in {s.status, UnparkIfWaiting(s).status}
      /\ s.nodes[n].st = "wait_pending" /\ Current(s, n, att) =>
           OnWaitDue(s, n, att).state.status = UnparkIfWaiting(s).status
  BY <1>0, <1>1 DEF OnWaitDue, NodeStatus
<1> QED BY <1>4, <1>5, <1>6, <1>7, <1>8

LEMMA UnparkStatus ==
  ASSUME NEW s \in RunState
  PROVE  UnparkIfWaiting(s).status = IF s.status = "waiting" THEN "running" ELSE s.status
BY DEF UnparkIfWaiting, RunState

LEMMA CancelStatus ==
  ASSUME NEW s \in RunState
  PROVE  OnCancelRequested(s).state.status \in {s.status, UnparkIfWaiting(s).status}
<1> DEFINE held == {n \in Nodes : s.nodes[n].st = "retry_pending"}
           flag == IF held = {} THEN "requested" ELSE "stopped"
           nodes == [n \in Nodes |-> IF n \in held THEN [s.nodes[n] EXCEPT !.st = "failure"]
                                     ELSE s.nodes[n]]
           next == [UnparkIfWaiting(s) EXCEPT !.cancel = flag, !.nodes = nodes]
<1>1. [s EXCEPT !.nodes = nodes] \in RunState
  BY FailAllType
<1>2. nodes \in [Nodes -> NodeState] /\ flag \in {"requested", "stopped"}
  BY <1>1 DEF RunState
<1>3. OnCancelRequested(s) = IF s.cancel # "none" THEN Only(s) ELSE Settle(next)
  BY DEF OnCancelRequested
<1> HIDE DEF nodes, flag
<1>4. next \in RunState /\ next.status = UnparkIfWaiting(s).status
  BY <1>2, UnparkType DEF RunState
<1> HIDE DEF next
<1> QED BY <1>3, <1>4, SettleCancel DEF Only

\* A cancel asks for nothing but, perhaps, the run's end.
LEMMA CancelQueuesNothing ==
  ASSUME NEW s \in RunState, NEW e \in Event, e.type = "run.cancelRequested"
  PROVE  Reduce(s, e).todo = {}
<1> DEFINE held == {n \in Nodes : s.nodes[n].st = "retry_pending"}
           flag == IF held = {} THEN "requested" ELSE "stopped"
           nodes == [n \in Nodes |-> IF n \in held THEN [s.nodes[n] EXCEPT !.st = "failure"]
                                     ELSE s.nodes[n]]
           next == [UnparkIfWaiting(s) EXCEPT !.cancel = flag, !.nodes = nodes]
<1>1. [s EXCEPT !.nodes = nodes] \in RunState
  BY FailAllType
<1>2. nodes \in [Nodes -> NodeState] /\ flag \in {"requested", "stopped"}
  BY <1>1 DEF RunState
<1>3. OnCancelRequested(s) = IF s.cancel # "none" THEN Only(s) ELSE Settle(next)
  BY DEF OnCancelRequested
<1> HIDE DEF nodes, flag
<1>4. next \in RunState /\ next.cancel # "none"
  BY <1>2, UnparkType DEF RunState
<1> HIDE DEF next
<1>5. OnCancelRequested(s).todo = {} /\ Only(s).todo = {}
  BY <1>3, <1>4, SettleCancel DEF Only
<1>6. ReducePending(s, e).todo = {}
  BY <1>5 DEF ReducePending, Finish
<1>7. ReduceLive(s, e) = OnCancelRequested(s)
  BY DEF ReduceLive
<1> QED BY <1>5, <1>6, <1>7 DEF Reduce

LEMMA ResumeStatus ==
  ASSUME NEW s \in RunState
  PROVE  OnResumed(s).state.status = UnparkIfWaiting(s).status
<1> DEFINE u == UnparkIfWaiting(s)
           f == [u EXCEPT !.nodes = [n \in Nodes |->
                   IF n \in Lost(u) THEN [u.nodes[n] EXCEPT !.st = "failure"]
                   ELSE u.nodes[n]]]
           cmds == {CommandFor(n, u.nodes[n].att) : n \in Lost(u)}
<1>1. u \in RunState
  BY UnparkType
<1>2. OnResumed(s) = IF u.status # "running" THEN Only(u)
                     ELSE IF u.cancel # "none"
                     THEN Settle(IF Lost(u) = {} THEN u ELSE MarkStoppedWork(f))
                     ELSE [Settle(u) EXCEPT !.todo = @ \cup cmds]
  BY DEF OnResumed, ResumeCancelled
<1> HIDE DEF u
<1>3. Lost(u) \in SUBSET Nodes
  BY DEF Lost
<1>4. f \in RunState /\ f.status = u.status
  BY <1>1, <1>3, FailAllType, FailAllFacts
<1> HIDE DEF f
<1>5. MarkStoppedWork(f) \in RunState /\ MarkStoppedWork(f).status = u.status
  BY <1>4, MarkStoppedWorkType, MarkStoppedWorkFacts
<1>6. /\ Settle(MarkStoppedWork(f)).state.status = u.status /\ Settle(u).state.status = u.status
      /\ Settle(u) \in FoldResult
  BY <1>1, <1>5, SettleCancel, SettleType
<1>7. [Settle(u) EXCEPT !.todo = @ \cup cmds].state = Settle(u).state
  BY <1>6 DEF FoldResult
<1> HIDE DEF cmds
<1>8. OnResumed(s).state.status = u.status
  BY <1>2, <1>6, <1>7 DEF Only
<1> QED BY <1>8 DEF u

LEMMA StatusMoves ==
  ASSUME NEW s \in RunState, NEW e \in Event
  PROVE  StatusMove(s, e, Reduce(s, e).state)
<1>0. Only(s).state.status = s.status
  BY DEF Only
<1>1. \A st : Only([s EXCEPT !.status = st]).state.status = st
  BY DEF Only, RunState
<1>2. CASE s.status = "pending"
  <2>1. Settle([s EXCEPT !.status = "running"]).state.status = "running"
    <3>1. [s EXCEPT !.status = "running"] \in RunState /\ [s EXCEPT !.status = "running"].status = "running"
      BY DEF RunState, RunStatus
    <3> QED BY <3>1, SettleCancel
  <2>2. Finish([s EXCEPT !.cancel = "requested"], "cancelled").state.status = s.status
    BY DEF Finish, RunState
  <2>3. Reduce(s, e) = ReducePending(s, e)
    BY <1>2 DEF Reduce
  <2>4. CASE e.type = "run.started"
    BY <1>2, <2>1, <2>3, <2>4 DEF ReducePending, StatusMove
  <2>5. CASE e.type = "run.interrupted"
    BY <1>1, <1>2, <2>3, <2>5 DEF ReducePending, StatusMove
  <2>6. CASE e.type = "run.cancelRequested"
    BY <1>0, <2>2, <2>3, <2>6 DEF ReducePending, StatusMove
  <2>7. CASE e.type = "run.finished"
    BY <1>0, <1>1, <1>2, <2>3, <2>7 DEF ReducePending, StatusMove
  <2>8. CASE e.type \notin {"run.started", "run.interrupted", "run.cancelRequested", "run.finished"}
    BY <1>0, <2>3, <2>8 DEF ReducePending, StatusMove
  <2> QED BY <2>4, <2>5, <2>6, <2>7, <2>8
<1>3. CASE s.status = "running" \/ (s.status = "waiting" /\ e.type \in UnparkEvents)
  <2>0. Reduce(s, e) = ReduceLive(s, e)
    BY <1>3 DEF Reduce
  <2>1. CASE e \in [type : RunEventType]
    <3>1. CASE e.type = "run.cancelRequested"
      <4>1. Reduce(s, e) = OnCancelRequested(s)
        BY <2>0, <3>1 DEF ReduceLive
      <4> QED BY <1>3, <3>1, <4>1, CancelStatus, UnparkStatus DEF StatusMove, UnparkEvents
    <3>2. CASE e.type = "run.resumed"
      <4>1. Reduce(s, e) = OnResumed(s)
        BY <2>0, <3>2 DEF ReduceLive
      <4> QED BY <1>3, <3>2, <4>1, ResumeStatus, UnparkStatus DEF StatusMove, UnparkEvents
    <3>3. CASE e.type \in {"run.started", "run.interrupted", "run.waiting"}
      BY <1>0, <1>1, <1>3, <2>0, <3>3 DEF ReduceLive, StatusMove, UnparkEvents
    <3> QED BY <2>1, <3>1, <3>2, <3>3 DEF RunEventType
  <2>2. CASE e \in [type : NodeEventType, node : Nodes, att : Nat]
    <3>1. e.type \in NodeEventType /\ e.node \in Nodes /\ e.att \in Nat
      BY <2>2
    <3>2. CASE e.type = "timer.due"
      <4>1. Reduce(s, e) = OnWaitDue(s, e.node, e.att)
        BY <2>0, <3>2 DEF ReduceLive
      <4> QED BY <1>3, <3>1, <3>2, <4>1, NodeHandlersStatus, UnparkStatus
              DEF StatusMove, UnparkEvents, FailureKind
    <3>3. CASE e.type # "timer.due"
      <4>1. ReduceLive(s, e).state.status = s.status
        BY <1>0, <3>1, <3>3, NodeHandlersStatus DEF ReduceLive, NodeEventType, FailureKind
      <4> QED BY <2>0, <4>1 DEF StatusMove
    <3> QED BY <3>2, <3>3
  <2>3. CASE e \in [type : {"node.failed"}, node : Nodes, att : Nat, kind : FailureKind]
    <3>1. e.type = "node.failed" /\ e.node \in Nodes /\ e.att \in Nat /\ e.kind \in FailureKind
      BY <2>3
    <3>2. ReduceLive(s, e).state.status = s.status
      BY <3>1, NodeHandlersStatus DEF ReduceLive
    <3> QED BY <2>0, <3>2 DEF StatusMove
  <2>4. CASE e \in [type : {"run.finished"}, kind : {"success", "failure", "cancelled"}]
    <3>1. ReduceLive(s, e) = OnFinished(s, e.kind) /\ e.type = "run.finished"
      BY <2>4 DEF ReduceLive
    <3>2. s.status = "running"
      BY <1>3, <3>1 DEF UnparkEvents
    <3> QED BY <1>1, <2>0, <3>1, <3>2 DEF OnFinished, Finish, StatusMove
  <2> QED BY <2>1, <2>2, <2>3, <2>4 DEF Event
<1>4. CASE /\ s.status # "pending" /\ s.status # "running"
           /\ ~(s.status = "waiting" /\ e.type \in UnparkEvents)
  BY <1>0, <1>4 DEF Reduce, StatusMove
<1> QED BY <1>2, <1>3, <1>4

\* However long the log, the state it folds to stays sound (Sound): every event
\* the drive can append takes a sound run state to a sound one.
THEOREM SoundStep ==
  ASSUME NEW s \in RunState, Sound(s), NEW e \in Event, Proper(e)
  PROVE  Sound(Reduce(s, e).state)
<1> DEFINE t == Reduce(s, e).state
<1>1. t \in RunState
  BY ReduceType DEF FoldResult
<1>2. /\ \A n \in Nodes : NodeMove(s, e, t, n)
      /\ StatusMove(s, e, t)
  BY ReduceMoves, StatusMoves
<1>3. s.status = "pending" /\ t.status = "pending" => t.nodes = s.nodes
  <2> SUFFICES ASSUME s.status = "pending", t.status = "pending" PROVE t.nodes = s.nodes
    OBVIOUS
  <2>1. Reduce(s, e) = ReducePending(s, e)
    BY DEF Reduce
  <2>2. CASE e.type = "run.started"
    <3>1. [s EXCEPT !.status = "running"] \in RunState /\ [s EXCEPT !.status = "running"].status = "running"
      BY DEF RunState, RunStatus
    <3>2. Settle([s EXCEPT !.status = "running"]).state.status = "running"
      BY <3>1, SettleCancel
    <3> QED BY <2>1, <2>2, <3>2 DEF ReducePending
  <2>3. CASE e.type # "run.started"
    <3>1. /\ \A st : [s EXCEPT !.status = st].nodes = s.nodes
          /\ [s EXCEPT !.cancel = "requested"].nodes = s.nodes
      BY DEF RunState
    <3> QED BY <2>1, <2>3, <3>1 DEF ReducePending, Only, Finish
  <2> QED BY <2>2, <2>3
<1>4. t.cancel # "none" => NoneHeld(t)
  <2>1. CASE s.cancel # "none"
    BY <2>1, CancelledStartsNothing DEF Sound, Stopped
  <2>2. CASE s.cancel = "none" /\ t.cancel # "none"
    <3>1. e.type = "run.cancelRequested"
      BY <2>2, CancelFlag DEF SameCancel
    <3>2. CASE s.status \in {"running", "waiting"}
      <4>1. Reduce(s, e) = OnCancelRequested(s)
        BY <3>1, <3>2 DEF Reduce, ReduceLive, UnparkEvents
      <4> QED BY <3>1, <3>2, <4>1, CancelMoves
    <3>3. CASE s.status \notin {"running", "waiting"}
      <4>1. Reduce(s, e) = IF s.status = "pending" THEN Finish([s EXCEPT !.cancel = "requested"], "cancelled")
                           ELSE Only(s)
        BY <2>2, <3>1, <3>3 DEF Reduce, ReducePending
      <4>2. [s EXCEPT !.cancel = "requested"].nodes = s.nodes
        BY DEF RunState
      <4>3. s.status = "pending" => \A n \in Nodes : s.nodes[n].st = "pending"
        BY DEF Sound
      <4> QED BY <2>2, <4>1, <4>2, <4>3 DEF Finish, Only, NoneHeld
    <3> QED BY <3>2, <3>3
  <2> QED BY <2>1, <2>2 DEF RunState
<1>5. \A n \in Nodes : /\ s.nodes[n] \in NodeState /\ t.nodes[n] \in NodeState
                       /\ s.nodes[n].att \in Nat /\ s.nodes[n].retries \in Nat
  BY <1>1 DEF RunState, NodeState
<1> HIDE DEF t
<1>6. \A n \in Nodes : s.nodes[n].st = "success" => t.nodes[n].st = "success"
  BY <1>2 DEF NodeMove, WalkMove, OwnMove, RunMove
<1>7. ASSUME NEW n \in Nodes
      PROVE  LET x == t.nodes[n] IN
             /\ x.st = "pending" => x.att = 0
             /\ x.st \in {"ready", "dispatched", "retry_pending", "wait_pending"} => x.att > 0
             /\ x.retries < x.att \/ (x.att = 0 /\ x.retries = 0)
             /\ x.st \notin {"pending", "skipped"} => \A m \in Anc[n] : t.nodes[m].st = "success"
             /\ n \in Waits => x.st \notin {"dispatched", "retry_pending"}
  <2>1. CASE t.nodes[n] = s.nodes[n]
    BY <1>6, <2>1, GraphAssumption DEF Sound
  <2>2. CASE WalkMove(s, t, n, s.nodes[n], t.nodes[n])
    BY <1>5, <2>2 DEF Sound, WalkMove, Turns, Renews
  <2>3. CASE OwnMove(s, e, n, s.nodes[n], t.nodes[n]) \/ RunMove(s, e, s.nodes[n], t.nodes[n])
    <3>1. s.nodes[n].st \notin {"pending", "skipped"}
      BY <2>3 DEF OwnMove, RunMove
    <3>2. \A m \in Anc[n] : t.nodes[m].st = "success"
      BY <1>6, <3>1, GraphAssumption DEF Sound
    <3>3. s.nodes[n].att > 0
      BY <1>5, <2>3 DEF Sound, OwnMove, RunMove
    <3>4. /\ t.nodes[n].st \notin {"pending"}
          /\ t.nodes[n].retries < t.nodes[n].att /\ t.nodes[n].att > 0
      BY <1>5, <2>3, <3>3 DEF Sound, OwnMove, RunMove, Turns, Renews
    <3>5. n \in Waits => t.nodes[n].st \notin {"dispatched", "retry_pending"}
      BY <2>3 DEF Proper, OwnMove, RunMove, Turns, Renews
    <3> QED BY <3>2, <3>4, <3>5
  <2> QED BY <1>2, <2>1, <2>2, <2>3 DEF NodeMove
<1>8. t.status = "pending" => \A n \in Nodes : t.nodes[n].st = "pending"
  <2>1. t.status = "pending" => s.status = "pending"
    <3>1. e.type = "run.finished" => e.kind # "pending"
      BY DEF Event, RunEventType, NodeEventType
    <3> QED BY <1>2, <3>1 DEF StatusMove
  <2> QED BY <1>3, <2>1 DEF Sound
<1>9. Sound(t)
  BY <1>4, <1>7, <1>8 DEF Sound
<1> QED BY <1>9 DEF t
=============================================================================
