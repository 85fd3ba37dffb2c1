--------------------------- MODULE RunSoloProofs ---------------------------
(***************************************************************************)
(* What RunDrive guarantees of a document in which every wait stands alone *)
(* (SoloWaits), for every such document, limit and number of crashes and   *)
(* thrown writes: no attempt is executed twice, the log knows of every     *)
(* execution, a logged success is earned, a pump that fell behind the log  *)
(* has a drive queued, and a parked run has an alarm that wakes it.        *)
(*                                                                         *)
(* A wait beside other work can fire under the pump that drives that work. *)
(* The pump then neither reads nor writes what the alarm appended, and the *)
(* runs double_run and stranded_park show an attempt executed twice and a  *)
(* park nothing wakes: without SoloWaits two of these theorems are false.  *)
(***************************************************************************)
EXTENDS RunLifeProofs

-----------------------------------------------------------------------------
(* What every fold leaves behind: the readiness walk has nothing to do, a   *)
(* skipped node has a failed one, and a park has a wait to wake it.         *)

Walked(s) ==
  s.status \in {"running", "waiting"} => \A n \in Nodes : ~Startable(s, n) /\ ~Dead(s, n)

SkipsExplained(s) ==
  \A n \in Nodes : s.nodes[n].st = "skipped" => \E m \in Nodes : s.nodes[m].st = "failure"

Parkable(s) == s.cancel = "none" /\ \E n \in Nodes : s.nodes[n].st = "wait_pending"

Kept(s) == Walked(s) /\ SkipsExplained(s)

Fine(r) == Kept(r.state) /\ (r.end = "park" => Parkable(r.state))

Open == {"ready", "dispatched", "retry_pending", "wait_pending"}

\* A node that changes has been open and is not skipped.
Eases(s, t) ==
  \A n \in Nodes : \/ t.nodes[n].st = s.nodes[n].st
                   \/ s.nodes[n].st \in Open /\ t.nodes[n].st \notin {"pending", "skipped"}

LEMMA WalkNode ==
  ASSUME NEW b \in RunState, NEW n \in Nodes
  PROVE  /\ Settle(b).state = Walk(b) /\ Walk(b) \in RunState
         /\ Walk(b).status = b.status /\ Walk(b).cancel = b.cancel
         /\ Walk(b).nodes[n] = IF Dead(b, n) THEN [b.nodes[n] EXCEPT !.st = "skipped"]
                               ELSE IF Startable(b, n)
                                    THEN [st |-> "ready", att |-> b.nodes[n].att + 1,
                                          retries |-> b.nodes[n].retries]
                                    ELSE b.nodes[n]
         /\ b.nodes[n] \in NodeState
BY WalkType DEF Settle, Walk, RunState

LEMMA WalkStatus ==
  ASSUME NEW b \in RunState, NEW n \in Nodes
  PROVE  /\ Dead(b, n) => b.nodes[n].st = "pending" /\ Walk(b).nodes[n].st = "skipped"
         /\ ~Dead(b, n) /\ Startable(b, n) => b.nodes[n].st = "pending" /\ Walk(b).nodes[n].st = "ready"
         /\ ~Dead(b, n) /\ ~Startable(b, n) => Walk(b).nodes[n] = b.nodes[n]
<1>1. Dead(b, n) => Walk(b).nodes[n] = [b.nodes[n] EXCEPT !.st = "skipped"]
  BY WalkNode
<1>2. [b.nodes[n] EXCEPT !.st = "skipped"].st = "skipped"
  BY WalkNode DEF NodeState
<1>3. ~Dead(b, n) /\ Startable(b, n) =>
        Walk(b).nodes[n] = [st |-> "ready", att |-> b.nodes[n].att + 1, retries |-> b.nodes[n].retries]
  BY WalkNode
<1>4. ~Dead(b, n) /\ ~Startable(b, n) => Walk(b).nodes[n] = b.nodes[n]
  BY WalkNode
<1>5. Dead(b, n) \/ Startable(b, n) => b.nodes[n].st = "pending"
  BY DEF Dead, Startable
<1>6. Dead(b, n) => Walk(b).nodes[n].st = "skipped"
  BY <1>1, <1>2
<1>7. ~Dead(b, n) /\ Startable(b, n) => Walk(b).nodes[n].st = "ready"
  <2> SUFFICES ASSUME ~Dead(b, n) /\ Startable(b, n) PROVE Walk(b).nodes[n].st = "ready"
    OBVIOUS
  <2> HIDE DEF Walk, Dead, Startable
  <2> QED BY <1>3
<1> QED BY <1>4, <1>5, <1>6, <1>7

LEMMA SettleFine ==
  ASSUME NEW b \in RunState, SkipsExplained(b)
  PROVE  Fine(Settle(b))
<1> DEFINE t == Walk(b)
<1>1. /\ Settle(b).state = t /\ t.cancel = b.cancel /\ Settle(b).end = Verdict(t)
  BY DEF Settle, Walk, RunState
<1> HIDE DEF t
<1>2. ASSUME NEW n \in Nodes
      PROVE  /\ Dead(b, n) => b.nodes[n].st = "pending" /\ t.nodes[n].st = "skipped"
             /\ ~Dead(b, n) /\ Startable(b, n) => b.nodes[n].st = "pending" /\ t.nodes[n].st = "ready"
             /\ ~Dead(b, n) /\ ~Startable(b, n) => t.nodes[n] = b.nodes[n]
  BY WalkStatus DEF t
<1>3. ASSUME NEW n \in Nodes, Startable(t, n)
      PROVE  FALSE
  <2>1. ~Dead(b, n) /\ ~Startable(b, n) /\ b.nodes[n].st = "pending"
    BY <1>2, <1>3 DEF Startable
  <2>2. \A m \in Deps[n] : m \in Nodes /\ b.nodes[m].st = "success"
    BY <1>2, <1>3, GraphAssumption DEF Startable
  <2> QED BY <1>1, <1>3, <2>1, <2>2 DEF Startable
<1>4. ASSUME NEW n \in Nodes, Dead(t, n)
      PROVE  FALSE
  <2>1. ~Dead(b, n) /\ b.nodes[n].st = "pending"
    BY <1>2, <1>4 DEF Dead
  <2>2. PICK m \in Anc[n] : t.nodes[m].st \in {"failure", "skipped"}
    BY <1>4 DEF Dead
  <2>3. m \in Nodes /\ Anc[m] \subseteq Anc[n]
    BY GraphAssumption
  <2>4. CASE b.nodes[m].st \in {"failure", "skipped"}
    BY <2>1, <2>4 DEF Dead
  <2>5. CASE b.nodes[m].st \notin {"failure", "skipped"}
    <3>1. Dead(b, m)
      BY <1>2, <2>2, <2>3, <2>5
    <3> QED BY <2>1, <2>3, <3>1 DEF Dead
  <2> QED BY <2>4, <2>5
<1>5. Walked(t)
  BY <1>3, <1>4 DEF Walked
<1>6. SkipsExplained(t)
  <2> SUFFICES ASSUME NEW n \in Nodes, t.nodes[n].st = "skipped"
               PROVE  \E m \in Nodes : t.nodes[m].st = "failure"
    BY DEF SkipsExplained
  <2>1. \E m \in Nodes : b.nodes[m].st \in {"failure", "skipped"}
    <3>1. CASE Dead(b, n)
      BY <3>1, GraphAssumption DEF Dead
    <3>2. CASE ~Dead(b, n)
      BY <1>2, <3>2
    <3> QED BY <3>1, <3>2
  <2>2. PICK m \in Nodes : b.nodes[m].st = "failure"
    BY <2>1 DEF SkipsExplained
  <2>3. t.nodes[m].st = "failure"
    BY <1>2, <2>2
  <2> QED BY <2>3
<1>7. Verdict(t) = "park" => Parkable(t)
  BY DEF Verdict, Parkable, AwaitsEvent, Outcome
<1> QED BY <1>1, <1>5, <1>6, <1>7 DEF Fine, Kept

LEMMA EasesSkips ==
  ASSUME NEW s, NEW t, SkipsExplained(s), Eases(s, t)
  PROVE  SkipsExplained(t)
<1> SUFFICES ASSUME NEW n \in Nodes, t.nodes[n].st = "skipped"
             PROVE  \E m \in Nodes : t.nodes[m].st = "failure"
  BY DEF SkipsExplained
<1>1. PICK m \in Nodes : s.nodes[m].st = "failure"
  BY DEF Eases, SkipsExplained
<1>2. t.nodes[m].st = "failure"
  BY <1>1 DEF Eases, Open
<1> QED BY <1>2

\* A fold that settles after the event's own change.
LEMMA EasedFine ==
  ASSUME NEW s, NEW b \in RunState, SkipsExplained(s), Eases(s, b)
  PROVE  Fine(Settle(b))
BY EasesSkips, SettleFine

\* A fold that settles nothing.
LEMMA QuietFine ==
  ASSUME NEW s, NEW r, Kept(s), r.end # "park",
         r.state.status \in {"running", "waiting"} => s.status \in {"running", "waiting"},
         r.state.cancel = "none" => s.cancel = "none", Eases(s, r.state),
         \A n \in Nodes : r.state.nodes[n].st \in {"success", "failure"} => r.state.nodes[n].st = s.nodes[n].st
  PROVE  Fine(r)
<1> DEFINE t == r.state
<1>1. SkipsExplained(t)
  BY EasesSkips DEF Kept
<1>2. ASSUME NEW n \in Nodes, Startable(t, n), t.status \in {"running", "waiting"}
      PROVE  FALSE
  <2>1. \A m \in Deps[n] : m \in Nodes /\ s.nodes[m].st = "success"
    BY <1>2, GraphAssumption DEF Startable
  <2>2. Startable(s, n)
    BY <1>2, <2>1 DEF Startable, Eases
  <2> QED BY <1>2, <2>2 DEF Kept, Walked
<1>3. ASSUME NEW n \in Nodes, Dead(t, n), t.status \in {"running", "waiting"}
      PROVE  FALSE
  <2>1. PICK m \in Anc[n] : t.nodes[m].st \in {"failure", "skipped"}
    BY <1>3 DEF Dead
  <2>2. m \in Nodes
    BY GraphAssumption
  <2>3. Dead(s, n)
    BY <1>3, <2>1, <2>2 DEF Dead, Eases
  <2> QED BY <1>3, <2>3 DEF Kept, Walked
<1> QED BY <1>1, <1>2, <1>3 DEF Fine, Kept, Walked

LEMMA NodeHandlersFine ==
  ASSUME NEW s \in RunState, Kept(s), NEW e \in Event,
         e.type \in NodeEventType \cup {"node.failed"}, s.status \in {"running", "waiting"}
  PROVE  Fine(ReduceLive(s, e))
<1> DEFINE n == e.node
           x == s.nodes[n]
<1>0. /\ e.node \in Nodes /\ e.att \in Nat
      /\ e.type = "node.failed" => e.kind \in FailureKind
      /\ e.type # "run.finished" /\ e.type # "run.cancelRequested"
  BY DEF Event, NodeEventType, RunEventType
<1>1. Fine(Only(s)) /\ Fine(Finish(s, "failure"))
  BY DEF Fine, Only, Finish
<1>2. ASSUME NEW u \in RunState, u.nodes = s.nodes, u.cancel = s.cancel,
             NEW st \in NodeStatus \ {"pending", "skipped"}, x.st \in Open
      PROVE  /\ Fine(Settle(WithNode(u, n, st)))
             /\ Fine(Settle(MarkStoppedWork(WithNode(u, n, st))))
  <2> DEFINE b == WithNode(u, n, st)
  <2>1. /\ b \in RunState /\ b.nodes[n].st = st
        /\ \A m \in Nodes \ {n} : b.nodes[m] = s.nodes[m]
    BY <1>0, <1>2, WithNodeTurns DEF Turns
  <2>2. MarkStoppedWork(b) \in RunState /\ MarkStoppedWork(b).nodes = b.nodes
    BY <2>1, MarkStoppedWorkType, MarkStoppedWorkFacts
  <2> HIDE DEF b
  <2>3. Eases(s, b) /\ Eases(s, MarkStoppedWork(b))
    BY <1>2, <2>1, <2>2 DEF Eases
  <2>4. Fine(Settle(b)) /\ Fine(Settle(MarkStoppedWork(b)))
    BY <2>1, <2>2, <2>3, EasedFine DEF Kept
  <2> QED BY <2>4 DEF b
<1>3. ASSUME NEW r, r.end # "park", r.state.status = s.status, r.state.cancel = s.cancel, x.st \in Open,
             r.state.nodes[n].st \in Open, \A m \in Nodes \ {n} : r.state.nodes[m] = s.nodes[m]
      PROVE  Fine(r)
  <2>1. Eases(s, r.state)
    BY <1>3 DEF Eases, Open
  <2>2. \A m \in Nodes : r.state.nodes[m].st \in {"success", "failure"} => r.state.nodes[m].st = s.nodes[m].st
    BY <1>3 DEF Open
  <2> QED BY <1>3, <2>1, <2>2, QuietFine
<1>4. ASSUME NEW st \in Open, NEW todo1, x.st \in Open
      PROVE  Fine([state |-> WithNode(s, n, st), todo |-> todo1, end |-> "none"])
  <2> DEFINE r == [state |-> WithNode(s, n, st), todo |-> todo1, end |-> "none"]
  <2>1. /\ r.state = WithNode(s, n, st) /\ r.end = "none"
    OBVIOUS
  <2>2. st \in NodeStatus
    BY DEF Open, NodeStatus
  <2> DEFINE b == WithNode(s, n, st)
  <2>3. /\ b.status = s.status /\ b.cancel = s.cancel /\ b.nodes[n].st = st
        /\ \A m \in Nodes \ {n} : b.nodes[m] = s.nodes[m]
    BY <1>0, <2>2, WithNodeTurns DEF Turns
  <2>4. r.state = b
    BY <2>1
  <2> HIDE DEF r, b
  <2>5. Fine(r)
    BY <1>3, <1>4, <2>1, <2>3, <2>4
  <2> QED BY <2>5 DEF r
<1>5. ASSUME NEW k, x.st \in Open
      PROVE  Fine(Redispatch(s, n, k))
  <2> DEFINE r == Redispatch(s, n, k)
  <2>1. /\ r.end = "none" /\ r.state.status = s.status /\ r.state.cancel = s.cancel
        /\ r.state.nodes[n].st = "ready"
        /\ \A m \in Nodes \ {n} : r.state.nodes[m] = s.nodes[m]
    BY <1>0 DEF Redispatch, RunState
  <2> HIDE DEF r
  <2>2. Fine(r)
    BY <1>3, <1>5, <2>1 DEF Open
  <2> QED BY <2>2 DEF r
<1>6. CASE e.type = "node.dispatched"
  <2>1. ReduceLive(s, e) = OnDispatched(s, n, e.att)
    BY <1>6 DEF ReduceLive
  <2> QED BY <1>1, <1>4, <2>1 DEF OnDispatched, Only, Open
<1>7. CASE e.type = "node.succeeded"
  <2>1. ReduceLive(s, e) = OnSucceeded(s, n, e.att)
    BY <1>7 DEF ReduceLive
  <2> QED BY <1>1, <1>2, <2>1 DEF OnSucceeded, Open, NodeStatus
<1>8. CASE e.type = "node.failed"
  <2>1. ReduceLive(s, e) = OnFailed(s, n, e.att, e.kind)
    BY <1>8 DEF ReduceLive
  <2>2. CASE x.st \in {"ready", "dispatched"} /\ Current(s, n, e.att)
    <3>1. /\ Fine(Settle(WithNode(s, n, "failure")))
          /\ Fine(Settle(MarkStoppedWork(WithNode(s, n, "failure"))))
          /\ Fine([state |-> WithNode(s, n, "retry_pending"),
                   todo  |-> {[type |-> "scheduleRetry", node |-> n, att |-> e.att]}, end |-> "none"])
      BY <1>2, <1>4, <2>2 DEF Open, NodeStatus
    <3> QED BY <2>1, <2>2, <3>1 DEF OnFailed
  <2>3. CASE ~(x.st \in {"ready", "dispatched"} /\ Current(s, n, e.att))
    BY <1>1, <2>1, <2>3 DEF OnFailed
  <2> QED BY <2>2, <2>3
<1>9. CASE e.type = "node.retryDue"
  <2>1. ReduceLive(s, e) = OnRetryDue(s, n, e.att)
    BY <1>9 DEF ReduceLive
  <2> QED BY <1>1, <1>5, <2>1 DEF OnRetryDue, Open
<1>10. CASE e.type = "node.retryRequested"
  <2>1. ReduceLive(s, e) = OnRetryRequested(s, n, e.att)
    BY <1>10 DEF ReduceLive
  <2> QED BY <1>1, <1>2, <1>5, <2>1 DEF OnRetryRequested, Open, NodeStatus
<1>11. CASE e.type = "timer.waitScheduled"
  <2>1. ReduceLive(s, e) = OnWaitScheduled(s, n, e.att)
    BY <1>11 DEF ReduceLive
  <2> QED BY <1>1, <1>2, <2>1 DEF OnWaitScheduled, Open, NodeStatus
<1>12. CASE e.type = "timer.due"
  <2>1. ReduceLive(s, e) = OnWaitDue(s, n, e.att)
    BY <1>12 DEF ReduceLive
  <2>2. /\ UnparkIfWaiting(s) \in RunState /\ UnparkIfWaiting(s).nodes = s.nodes
        /\ UnparkIfWaiting(s).cancel = s.cancel
    BY UnparkType, UnparkFacts
  <2>3. x.st = "wait_pending" => Fine(Settle(WithNode(UnparkIfWaiting(s), n, "success")))
    BY <1>2, <2>2 DEF Open, NodeStatus
  <2> QED BY <1>1, <2>1, <2>3 DEF OnWaitDue
<1>13. CASE e.type = "node.retryScheduled"
  BY <1>1, <1>13 DEF ReduceLive
<1> QED BY <1>6, <1>7, <1>8, <1>9, <1>10, <1>11, <1>12, <1>13 DEF NodeEventType

LEMMA CancelFine ==
  ASSUME NEW s \in RunState, Kept(s)
  PROVE  Fine(OnCancelRequested(s))
<1>1. CASE s.cancel # "none"
  BY <1>1 DEF OnCancelRequested, Only, Fine
<1>2. CASE s.cancel = "none"
  <2> DEFINE held == {n \in Nodes : s.nodes[n].st = "retry_pending"}
             flag == IF held = {} THEN "requested" ELSE "stopped"
             nodes == [n \in Nodes |-> IF n \in held THEN [s.nodes[n] EXCEPT !.st = "failure"]
                                       ELSE s.nodes[n]]
             next == [UnparkIfWaiting(s) EXCEPT !.cancel = flag, !.nodes = nodes]
  <2>1. nodes \in [Nodes -> NodeState]
    <3>1. [s EXCEPT !.nodes = nodes] \in RunState
      BY FailAllType
    <3> QED BY <3>1 DEF RunState
  <2>2. flag \in {"requested", "stopped"}
    OBVIOUS
  <2>3. OnCancelRequested(s) = Settle(next)
    BY <1>2 DEF OnCancelRequested
  <2>4. \A n \in Nodes : s.nodes[n] \in NodeState
    BY DEF RunState
  <2>5. \A n \in Nodes : \/ nodes[n] = s.nodes[n]
                         \/ s.nodes[n].st = "retry_pending" /\ nodes[n].st = "failure"
    BY <2>4 DEF NodeState
  <2>6. UnparkIfWaiting(s) \in RunState
    BY UnparkType
  <2> HIDE DEF nodes, flag
  <2>7. next \in RunState /\ next.nodes = nodes
    BY <2>1, <2>2, <2>6 DEF RunState
  <2> HIDE DEF next
  <2>8. Eases(s, next)
    BY <2>5, <2>7 DEF Eases, Open
  <2> QED BY <2>3, <2>7, <2>8, EasedFine DEF Kept
<1> QED BY <1>1, <1>2

LEMMA ResumeFine ==
  ASSUME NEW s \in RunState, Kept(s), s.status \in {"running", "waiting"}
  PROVE  Fine(OnResumed(s))
<1> DEFINE u == UnparkIfWaiting(s)
           f == [u EXCEPT !.nodes = [n \in Nodes |->
                   IF n \in Lost(u) THEN [u.nodes[n] EXCEPT !.st = "failure"]
                   ELSE u.nodes[n]]]
           b == IF Lost(u) = {} THEN u ELSE MarkStoppedWork(f)
           cmds == {CommandFor(n, u.nodes[n].att) : n \in Lost(u)}
<1>1. /\ u \in RunState /\ u.status = "running" /\ u.nodes = s.nodes /\ u.cancel = s.cancel
      /\ Lost(u) = {n \in Nodes : s.nodes[n].st = "ready"} /\ Lost(u) \in SUBSET Nodes
  BY UnparkType, UnparkFacts DEF UnparkIfWaiting, RunState, Lost
<1>2. OnResumed(s) = IF u.cancel # "none" THEN Settle(b)
                     ELSE [Settle(u) EXCEPT !.todo = @ \cup cmds]
  BY <1>1 DEF OnResumed, ResumeCancelled
<1> HIDE DEF u
<1>3. f \in RunState
  BY <1>1, FailAllType
<1>4. \A n \in Nodes : f.nodes[n].st = IF n \in Lost(u) THEN "failure" ELSE s.nodes[n].st
  <2>1. \A n \in Nodes : s.nodes[n] \in NodeState
    BY DEF RunState
  <2>2. \A n \in Nodes : f.nodes[n] = IF n \in Lost(u) THEN [s.nodes[n] EXCEPT !.st = "failure"]
                                      ELSE s.nodes[n]
    BY <1>1 DEF RunState
  <2> HIDE DEF f
  <2> QED BY <2>1, <2>2 DEF NodeState
<1> HIDE DEF f
<1>5. MarkStoppedWork(f) \in RunState /\ MarkStoppedWork(f).nodes = f.nodes
  BY <1>3, MarkStoppedWorkType, MarkStoppedWorkFacts
<1>6. b \in RunState /\ Eases(s, b)
  BY <1>1, <1>4, <1>5 DEF Eases, Open
<1> HIDE DEF b
<1>7. Fine(Settle(b)) /\ Fine(Settle(u))
  BY <1>1, <1>6, EasedFine DEF Kept, Eases
<1>8. /\ [Settle(u) EXCEPT !.todo = @ \cup cmds].state = Settle(u).state
      /\ [Settle(u) EXCEPT !.todo = @ \cup cmds].end = Settle(u).end
  BY DEF Settle
<1> QED BY <1>2, <1>7, <1>8 DEF Fine

LEMMA ReduceFine ==
  ASSUME NEW s \in RunState, Kept(s), NEW e \in Event
  PROVE  Fine(Reduce(s, e))
<1>1. Fine(Only(s)) /\ Fine(Finish(s, "failure"))
  BY DEF Fine, Only, Finish
<1>2. ASSUME NEW t, t.nodes = s.nodes, t.cancel = s.cancel,
             t.status \in {"running", "waiting"} => s.status \in {"running", "waiting"}
      PROVE  Fine(Only(t))
  <2>1. Only(t).state = t /\ Only(t).end = "none"
    BY DEF Only
  <2>2. Eases(s, t)
    BY <1>2 DEF Eases
  <2> QED BY <1>2, <2>1, <2>2, QuietFine
<1>3. CASE s.status = "pending"
  <2>1. Fine(Settle([s EXCEPT !.status = "running"]))
    <3>1. [s EXCEPT !.status = "running"] \in RunState /\ [s EXCEPT !.status = "running"].nodes = s.nodes
      BY DEF RunState, RunStatus
    <3> QED BY <3>1, EasedFine DEF Kept, Eases
  <2>2. \A o \in Terminal : Fine(Only([s EXCEPT !.status = o]))
    BY <1>2 DEF RunState, Terminal
  <2>3. Fine(Finish([s EXCEPT !.cancel = "requested"], "cancelled"))
    BY <1>3 DEF Fine, Kept, Walked, SkipsExplained, Finish, RunState
  <2> QED BY <1>1, <1>3, <2>1, <2>2, <2>3 DEF Reduce, ReducePending, Terminal
<1>4. CASE s.status \in {"running", "waiting"}
  <2>1. CASE e.type \in NodeEventType \cup {"node.failed"}
    BY <1>1, <1>4, <2>1, NodeHandlersFine DEF Reduce
  <2>2. CASE e.type = "run.finished"
    <3>1. Fine(Only([s EXCEPT !.status = e.kind]))
      BY <1>2, <1>4 DEF RunState
    <3>2. ReduceLive(s, e) = OnFinished(s, e.kind)
      BY <2>2 DEF ReduceLive
    <3> QED BY <1>1, <1>4, <3>1, <3>2 DEF Reduce, OnFinished
  <2>3. CASE e.type \in RunEventType
    <3>1. /\ e.type = "run.cancelRequested" => ReduceLive(s, e) = OnCancelRequested(s)
          /\ e.type = "run.resumed" => ReduceLive(s, e) = OnResumed(s)
          /\ e.type = "run.waiting" => ReduceLive(s, e) = Only([s EXCEPT !.status = "waiting"])
          /\ e.type = "run.interrupted" => ReduceLive(s, e) = Only([s EXCEPT !.status = "interrupted"])
          /\ e.type = "run.started" => ReduceLive(s, e) = Only(s)
      BY DEF ReduceLive
    <3>2. Fine(Only([s EXCEPT !.status = "waiting"])) /\ Fine(Only([s EXCEPT !.status = "interrupted"]))
      BY <1>2, <1>4 DEF RunState
    <3>3. Fine(ReduceLive(s, e))
      BY <1>1, <1>4, <2>3, <3>1, <3>2, CancelFine, ResumeFine DEF RunEventType
    <3> QED BY <1>1, <1>4, <3>3 DEF Reduce
  <2> QED BY <2>1, <2>2, <2>3 DEF Event
<1>5. CASE s.status \notin {"pending", "running", "waiting"}
  BY <1>1, <1>5 DEF Reduce
<1> QED BY <1>3, <1>4, <1>5

-----------------------------------------------------------------------------
(* How the pump's state of the run, m, may differ from the log's, p: a      *)
(* retry alarm may have gone off since the pump loaded, and once the run is *)
(* cancelled the pump may have failed what a crash leaves open in the log.  *)

\* The log's node has been given the retry the pump still holds.
Ahead(x, y) ==
  /\ x.st = "retry_pending" /\ y.st = "ready"
  /\ y.att = x.att + 1 /\ y.retries = x.retries + 1

Related(x, y, cancel) ==
  \/ x = y
  \/ cancel = "none" /\ Ahead(x, y)
  \/ cancel # "none" /\ x.st \in {"failure", "skipped"}

View(m, p) ==
  /\ m.cancel = "none" <=> p.cancel = "none"
  /\ \A n \in Nodes : Related(m.nodes[n], p.nodes[n], m.cancel)

\* No node has fallen behind that was not.
NoFurther(m, p, m1, p1) ==
  \A n \in Nodes : Ahead(m1.nodes[n], p1.nodes[n]) => Ahead(m.nodes[n], p.nodes[n])

LEMMA WalkAgrees ==
  ASSUME NEW m \in RunState, NEW p \in RunState, View(m, p), NEW n \in Nodes, m.nodes[n] = p.nodes[n]
  PROVE  /\ Dead(p, n) => Dead(m, n)
         /\ m.cancel = "none" => (Dead(m, n) <=> Dead(p, n)) /\ (Startable(m, n) <=> Startable(p, n))
         /\ m.cancel # "none" => ~Startable(m, n) /\ ~Startable(p, n)
<1>0. \A a \in Anc[n] \cup Deps[n] : a \in Nodes /\ Related(m.nodes[a], p.nodes[a], m.cancel)
  BY GraphAssumption DEF View
<1>1. Dead(p, n) => Dead(m, n)
  BY <1>0 DEF Dead, Related, Ahead
<1>2. ASSUME m.cancel = "none"
      PROVE  (Dead(m, n) => Dead(p, n)) /\ (Startable(m, n) <=> Startable(p, n))
  <2>1. \A a \in Anc[n] \cup Deps[n] :
          /\ m.nodes[a].st = "success" <=> p.nodes[a].st = "success"
          /\ m.nodes[a].st \in {"failure", "skipped"} => p.nodes[a].st \in {"failure", "skipped"}
    BY <1>0, <1>2 DEF Related, Ahead
  <2> QED BY <1>2, <2>1 DEF Dead, Startable, View
<1> QED BY <1>1, <1>2 DEF Startable, View

LEMMA SettleView ==
  ASSUME NEW m \in RunState, NEW p \in RunState, View(m, p)
  PROVE  /\ View(Settle(m).state, Settle(p).state)
         /\ NoFurther(m, p, Settle(m).state, Settle(p).state)
<1> DEFINE m1 == Settle(m).state
           p1 == Settle(p).state
<1>1. m1.cancel = m.cancel /\ p1.cancel = p.cancel
  BY WalkNode, SettleCancel
<1>2. ASSUME NEW n \in Nodes
      PROVE  /\ m1.nodes[n] = IF Dead(m, n) THEN [m.nodes[n] EXCEPT !.st = "skipped"]
                              ELSE IF Startable(m, n)
                                   THEN [st |-> "ready", att |-> m.nodes[n].att + 1,
                                         retries |-> m.nodes[n].retries]
                                   ELSE m.nodes[n]
             /\ p1.nodes[n] = IF Dead(p, n) THEN [p.nodes[n] EXCEPT !.st = "skipped"]
                              ELSE IF Startable(p, n)
                                   THEN [st |-> "ready", att |-> p.nodes[n].att + 1,
                                         retries |-> p.nodes[n].retries]
                                   ELSE p.nodes[n]
  BY WalkNode
<1> HIDE DEF m1, p1
<1>3. ASSUME NEW n \in Nodes
      PROVE  /\ Related(m1.nodes[n], p1.nodes[n], m1.cancel)
             /\ Ahead(m1.nodes[n], p1.nodes[n]) => Ahead(m.nodes[n], p.nodes[n])
  <2>0. m.nodes[n] \in NodeState /\ p.nodes[n] \in NodeState
    BY DEF RunState
  <2>1. CASE m.nodes[n] = p.nodes[n] /\ (Dead(m, n) <=> Dead(p, n))
    <3>1. m.nodes[n] = p.nodes[n] /\ (Startable(m, n) <=> Startable(p, n))
      BY <2>1, WalkAgrees
    <3>2. m1.nodes[n] = p1.nodes[n]
      BY <1>2, <2>1, <3>1
    <3> QED BY <3>2 DEF Related, Ahead
  <2>2. CASE m.nodes[n] = p.nodes[n] /\ Dead(m, n) /\ ~Dead(p, n)
    <3>1. m.cancel # "none"
      BY <2>2, WalkAgrees
    <3>2. m1.nodes[n] = [m.nodes[n] EXCEPT !.st = "skipped"]
      BY <1>2, <2>2
    <3>3. m1.nodes[n].st = "skipped"
      BY <2>0, <3>2 DEF NodeState
    <3> QED BY <1>1, <3>1, <3>3 DEF Related, Ahead
  <2>3. CASE m.nodes[n] # p.nodes[n]
    <3>1. m.nodes[n].st \in {"retry_pending", "failure", "skipped"}
      BY <2>3 DEF View, Related, Ahead
    <3>2. m1.nodes[n] = m.nodes[n]
      BY <1>2, <3>1 DEF Dead, Startable
    <3>3. CASE m.cancel = "none"
      <4>1. p.nodes[n].st = "ready"
        BY <2>3, <3>3 DEF View, Related, Ahead
      <4>2. p1.nodes[n] = p.nodes[n]
        BY <1>2, <4>1 DEF Dead, Startable
      <4> QED BY <1>1, <3>2, <4>2 DEF View
    <3>4. CASE m.cancel # "none"
      BY <1>1, <2>3, <3>2, <3>4 DEF View, Related, Ahead
    <3> QED BY <3>3, <3>4
  <2> QED BY <2>1, <2>2, <2>3, WalkAgrees
<1>4. View(m1, p1) /\ NoFurther(m, p, m1, p1)
  BY <1>1, <1>3 DEF View, NoFurther
<1> QED BY <1>4 DEF m1, p1

\* One node turns in both.
LEMMA TurnView ==
  ASSUME NEW m \in RunState, NEW p \in RunState, View(m, p),
         NEW n \in Nodes, m.nodes[n] = p.nodes[n], NEW st \in NodeStatus
  PROVE  /\ View(WithNode(m, n, st), WithNode(p, n, st))
         /\ NoFurther(m, p, WithNode(m, n, st), WithNode(p, n, st))
         /\ WithNode(m, n, st) \in RunState /\ WithNode(p, n, st) \in RunState
<1> DEFINE m1 == WithNode(m, n, st)
           p1 == WithNode(p, n, st)
<1>1. /\ m1 \in RunState /\ p1 \in RunState /\ m1.cancel = m.cancel /\ p1.cancel = p.cancel
      /\ \A k \in Nodes \ {n} : m1.nodes[k] = m.nodes[k] /\ p1.nodes[k] = p.nodes[k]
  BY WithNodeTurns
<1>2. m1.nodes[n] = p1.nodes[n]
  BY DEF WithNode, RunState
<1> HIDE DEF m1, p1
<1>3. ASSUME NEW k \in Nodes
      PROVE  /\ Related(m1.nodes[k], p1.nodes[k], m1.cancel)
             /\ Ahead(m1.nodes[k], p1.nodes[k]) => Ahead(m.nodes[k], p.nodes[k])
  <2>1. CASE k = n
    BY <1>2, <2>1 DEF Related, Ahead
  <2>2. CASE k # n
    BY <1>1, <2>2 DEF View
  <2> QED BY <2>1, <2>2
<1>4. View(m1, p1) /\ NoFurther(m, p, m1, p1)
  BY <1>1, <1>3 DEF View, NoFurther
<1> QED BY <1>1, <1>4 DEF m1, p1

LEMMA MarkView ==
  ASSUME NEW m \in RunState, NEW p \in RunState, View(m, p)
  PROVE  /\ View(MarkStoppedWork(m), MarkStoppedWork(p))
         /\ NoFurther(m, p, MarkStoppedWork(m), MarkStoppedWork(p))
         /\ MarkStoppedWork(m) \in RunState /\ MarkStoppedWork(p) \in RunState
<1> DEFINE m1 == MarkStoppedWork(m)
           p1 == MarkStoppedWork(p)
<1>1. /\ m1 \in RunState /\ p1 \in RunState /\ m1.nodes = m.nodes /\ p1.nodes = p.nodes
      /\ m1.cancel = "none" <=> m.cancel = "none"
      /\ p1.cancel = "none" <=> p.cancel = "none"
  BY MarkStoppedWorkType, MarkStoppedWorkFacts DEF MarkStoppedWork, RunState
<1> HIDE DEF m1, p1
<1>2. View(m1, p1) /\ NoFurther(m, p, m1, p1)
  BY <1>1 DEF View, Related, NoFurther
<1> QED BY <1>1, <1>2 DEF m1, p1

LEMMA FurtherSettles ==
  ASSUME NEW m, NEW p, NEW b \in RunState, NEW c \in RunState, View(b, c), NoFurther(m, p, b, c)
  PROVE  /\ View(Settle(b).state, Settle(c).state)
         /\ NoFurther(m, p, Settle(b).state, Settle(c).state)
BY SettleView DEF NoFurther

\* A node's event folded onto both, when they agree about that node.
LEMMA NodeFoldView ==
  ASSUME NEW m \in RunState, NEW p \in RunState, View(m, p), m.status = "running", p.status = "running",
         NEW e \in Event, e.type \in NodeEvents,
         e.type # "node.retryScheduled" => m.nodes[e.node] = p.nodes[e.node]
  PROVE  /\ View(Reduce(m, e).state, Reduce(p, e).state)
         /\ NoFurther(m, p, Reduce(m, e).state, Reduce(p, e).state)
<1> DEFINE n == e.node
<1>0. n \in Nodes /\ (e.type = "node.failed" => e.kind \in FailureKind)
  BY DEF Event, NodeEventType, RunEventType, NodeEvents
<1>1. Reduce(m, e) = ReduceLive(m, e) /\ Reduce(p, e) = ReduceLive(p, e)
  BY DEF Reduce
<1>2. Only(m).state = m /\ Only(p).state = p /\ NoFurther(m, p, m, p)
      /\ Finish(m, "failure").state = m /\ Finish(p, "failure").state = p
  BY DEF Only, Finish, NoFurther
<1>3. ASSUME NEW st \in NodeStatus, m.nodes[n] = p.nodes[n]
      PROVE  LET b == WithNode(m, n, st)  c == WithNode(p, n, st) IN
             /\ View(b, c) /\ NoFurther(m, p, b, c)
             /\ View(Settle(b).state, Settle(c).state)
             /\ NoFurther(m, p, Settle(b).state, Settle(c).state)
             /\ View(Settle(MarkStoppedWork(b)).state, Settle(MarkStoppedWork(c)).state)
             /\ NoFurther(m, p, Settle(MarkStoppedWork(b)).state, Settle(MarkStoppedWork(c)).state)
  <2> DEFINE b == WithNode(m, n, st)
             c == WithNode(p, n, st)
  <2>1. b \in RunState /\ c \in RunState /\ View(b, c) /\ NoFurther(m, p, b, c)
    BY <1>0, <1>3, TurnView
  <2> HIDE DEF b, c
  <2>2. /\ MarkStoppedWork(b) \in RunState /\ MarkStoppedWork(c) \in RunState
        /\ View(MarkStoppedWork(b), MarkStoppedWork(c))
        /\ NoFurther(m, p, MarkStoppedWork(b), MarkStoppedWork(c))
    BY <2>1, MarkView DEF NoFurther
  <2>3. /\ View(Settle(b).state, Settle(c).state)
        /\ NoFurther(m, p, Settle(b).state, Settle(c).state)
    BY <2>1, FurtherSettles
  <2>4. /\ View(Settle(MarkStoppedWork(b)).state, Settle(MarkStoppedWork(c)).state)
        /\ NoFurther(m, p, Settle(MarkStoppedWork(b)).state, Settle(MarkStoppedWork(c)).state)
    BY <2>2, FurtherSettles
  <2> QED BY <2>1, <2>3, <2>4 DEF b, c
<1>4. CASE e.type = "node.dispatched"
  <2>1. Reduce(m, e) = OnDispatched(m, n, e.att) /\ Reduce(p, e) = OnDispatched(p, n, e.att)
    BY <1>1, <1>4 DEF ReduceLive
  <2>2. m.nodes[n] = p.nodes[n] /\ "dispatched" \in NodeStatus
    BY <1>4 DEF NodeStatus
  <2>3. CASE Current(m, n, e.att) /\ m.nodes[n].st = "ready"
    <3>1. Reduce(m, e).state = WithNode(m, n, "dispatched") /\ Reduce(p, e).state = WithNode(p, n, "dispatched")
      BY <2>1, <2>2, <2>3 DEF OnDispatched, Only, Current
    <3> QED BY <1>3, <2>2, <3>1
  <2>4. CASE ~(Current(m, n, e.att) /\ m.nodes[n].st = "ready")
    <3>1. Reduce(m, e).state = m /\ Reduce(p, e).state = p
      BY <2>1, <2>2, <2>4 DEF OnDispatched, Only, Current
    <3> QED BY <1>2, <3>1
  <2> QED BY <2>3, <2>4
<1>5. CASE e.type = "node.succeeded"
  <2>1. Reduce(m, e) = OnSucceeded(m, n, e.att) /\ Reduce(p, e) = OnSucceeded(p, n, e.att)
    BY <1>1, <1>5 DEF ReduceLive
  <2>2. m.nodes[n] = p.nodes[n] /\ "success" \in NodeStatus
    BY <1>5 DEF NodeStatus
  <2>3. CASE m.nodes[n].st \in {"ready", "dispatched"} /\ Current(m, n, e.att)
    <3>1. /\ Reduce(m, e) = Settle(WithNode(m, n, "success"))
          /\ Reduce(p, e) = Settle(WithNode(p, n, "success"))
      BY <2>1, <2>2, <2>3 DEF OnSucceeded, Current
    <3> QED BY <1>3, <2>2, <3>1
  <2>4. CASE ~(m.nodes[n].st \in {"ready", "dispatched"} /\ Current(m, n, e.att))
    <3>1. Reduce(m, e).state = m /\ Reduce(p, e).state = p
      BY <1>2, <2>1, <2>2, <2>4 DEF OnSucceeded, Current
    <3> QED BY <1>2, <3>1
  <2> QED BY <2>3, <2>4
<1>6. CASE e.type = "node.failed"
  <2>1. Reduce(m, e) = OnFailed(m, n, e.att, e.kind) /\ Reduce(p, e) = OnFailed(p, n, e.att, e.kind)
    BY <1>1, <1>6 DEF ReduceLive
  <2>2. /\ m.nodes[n] = p.nodes[n] /\ "failure" \in NodeStatus /\ "retry_pending" \in NodeStatus
        /\ m.cancel # "none" <=> p.cancel # "none"
    BY <1>6 DEF NodeStatus, View
  <2>3. RetryEligible(m, n, e.kind) <=> RetryEligible(p, n, e.kind)
    BY <2>2 DEF RetryEligible
  <2>4. CASE m.nodes[n].st \in {"ready", "dispatched"} /\ Current(m, n, e.att)
    <3>1. \/ /\ Reduce(m, e) = Settle(WithNode(m, n, "failure"))
             /\ Reduce(p, e) = Settle(WithNode(p, n, "failure"))
          \/ /\ Reduce(m, e) = Settle(MarkStoppedWork(WithNode(m, n, "failure")))
             /\ Reduce(p, e) = Settle(MarkStoppedWork(WithNode(p, n, "failure")))
          \/ /\ Reduce(m, e).state = WithNode(m, n, "retry_pending")
             /\ Reduce(p, e).state = WithNode(p, n, "retry_pending")
      <4>1. /\ Current(p, n, e.att) /\ p.nodes[n].st \in {"ready", "dispatched"}
        BY <2>2, <2>4 DEF Current
      <4>2. ASSUME NEW s \in {m, p}
            PROVE  /\ s.cancel # "none" /\ (e.kind = "cancelled" \/ RetryEligible(s, n, e.kind)) =>
                        Reduce(s, e) = Settle(MarkStoppedWork(WithNode(s, n, "failure")))
                   /\ s.cancel # "none" /\ ~(e.kind = "cancelled" \/ RetryEligible(s, n, e.kind)) =>
                        Reduce(s, e) = Settle(WithNode(s, n, "failure"))
                   /\ s.cancel = "none" /\ RetryEligible(s, n, e.kind) =>
                        Reduce(s, e).state = WithNode(s, n, "retry_pending")
                   /\ s.cancel = "none" /\ ~RetryEligible(s, n, e.kind) =>
                        Reduce(s, e) = Settle(WithNode(s, n, "failure"))
        BY <2>1, <2>4, <4>1 DEF OnFailed
      <4> QED BY <2>2, <2>3, <4>2
    <3> QED BY <1>3, <2>2, <3>1
  <2>5. CASE ~(m.nodes[n].st \in {"ready", "dispatched"} /\ Current(m, n, e.att))
    <3>1. Reduce(m, e).state = m /\ Reduce(p, e).state = p
      BY <1>2, <2>1, <2>2, <2>5 DEF OnFailed, Current
    <3> QED BY <1>2, <3>1
  <2> QED BY <2>4, <2>5
<1>7. CASE e.type = "timer.waitScheduled"
  <2>1. Reduce(m, e) = OnWaitScheduled(m, n, e.att) /\ Reduce(p, e) = OnWaitScheduled(p, n, e.att)
    BY <1>1, <1>7 DEF ReduceLive
  <2>2. m.nodes[n] = p.nodes[n] /\ "wait_pending" \in NodeStatus
    BY <1>7 DEF NodeStatus
  <2>3. CASE m.nodes[n].st = "ready" /\ Current(m, n, e.att)
    <3>1. /\ Reduce(m, e) = Settle(WithNode(m, n, "wait_pending"))
          /\ Reduce(p, e) = Settle(WithNode(p, n, "wait_pending"))
      BY <2>1, <2>2, <2>3 DEF OnWaitScheduled, Current
    <3> QED BY <1>3, <2>2, <3>1
  <2>4. CASE ~(m.nodes[n].st = "ready" /\ Current(m, n, e.att))
    <3>1. Reduce(m, e).state = m /\ Reduce(p, e).state = p
      BY <1>2, <2>1, <2>2, <2>4 DEF OnWaitScheduled, Current
    <3> QED BY <1>2, <3>1
  <2> QED BY <2>3, <2>4
<1>8. CASE e.type = "node.retryScheduled"
  <2>1. Reduce(m, e).state = m /\ Reduce(p, e).state = p
    BY <1>1, <1>2, <1>8 DEF ReduceLive
  <2> QED BY <1>2, <2>1
<1> QED BY <1>4, <1>5, <1>6, <1>7, <1>8 DEF NodeEvents

\* The state a cancel settles.
LEMMA CancelBase ==
  ASSUME NEW s \in RunState, s.cancel = "none"
  PROVE  \E b \in RunState :
           /\ OnCancelRequested(s) = Settle(b) /\ b.cancel # "none"
           /\ b.status = UnparkIfWaiting(s).status
           /\ \A n \in Nodes : b.nodes[n] = IF s.nodes[n].st = "retry_pending"
                                            THEN [s.nodes[n] EXCEPT !.st = "failure"]
                                            ELSE s.nodes[n]
<1> DEFINE held == {n \in Nodes : s.nodes[n].st = "retry_pending"}
           flag == IF held = {} THEN "requested" ELSE "stopped"
           nodes == [n \in Nodes |-> IF n \in held THEN [s.nodes[n] EXCEPT !.st = "failure"]
                                     ELSE s.nodes[n]]
           next == [UnparkIfWaiting(s) EXCEPT !.cancel = flag, !.nodes = nodes]
<1>1. [s EXCEPT !.nodes = nodes] \in RunState
  BY FailAllType
<1>2. nodes \in [Nodes -> NodeState] /\ flag \in {"requested", "stopped"}
  BY <1>1 DEF RunState
<1>3. OnCancelRequested(s) = Settle(next)
  BY DEF OnCancelRequested
<1>4. \A n \in Nodes : nodes[n] = IF s.nodes[n].st = "retry_pending"
                                  THEN [s.nodes[n] EXCEPT !.st = "failure"] ELSE s.nodes[n]
  OBVIOUS
<1> HIDE DEF nodes, flag
<1>5. /\ next \in RunState /\ next.status = UnparkIfWaiting(s).status /\ next.cancel # "none"
      /\ next.nodes = nodes
  BY <1>2, UnparkType DEF RunState
<1> HIDE DEF next
<1> QED BY <1>3, <1>4, <1>5

LEMMA CancelFoldView ==
  ASSUME NEW m \in RunState, NEW p \in RunState, View(m, p), Sound(m), m.status = p.status,
         m.status \notin Terminal, NEW e \in Event, e.type = "run.cancelRequested"
  PROVE  /\ View(Reduce(m, e).state, Reduce(p, e).state)
         /\ NoFurther(m, p, Reduce(m, e).state, Reduce(p, e).state)
         /\ Reduce(m, e).state.status = Reduce(p, e).state.status
<1>0. m.status \in {"pending", "running", "waiting"} /\ (m.cancel = "none" <=> p.cancel = "none")
  BY DEF RunState, RunStatus, View
<1>1. NoFurther(m, p, m, p) /\ Only(m).state = m /\ Only(p).state = p
  BY DEF NoFurther, Only
<1>2. CASE m.status = "pending"
  <2>1. /\ Reduce(m, e) = ReducePending(m, e) /\ Reduce(p, e) = ReducePending(p, e)
    BY <1>2 DEF Reduce
  <2>2. CASE m.cancel # "none"
    <3>1. Reduce(m, e).state = m /\ Reduce(p, e).state = p
      BY <1>0, <1>1, <2>1, <2>2 DEF ReducePending
    <3> QED BY <1>1, <3>1
  <2>3. CASE m.cancel = "none"
    <3>1. /\ Reduce(m, e).state = [m EXCEPT !.cancel = "requested"]
          /\ Reduce(p, e).state = [p EXCEPT !.cancel = "requested"]
      BY <1>0, <2>1, <2>3 DEF ReducePending, Finish
    <3>2. \A n \in Nodes : m.nodes[n] = p.nodes[n]
      BY <1>2 DEF Sound, View, Related, Ahead
    <3>3. /\ Reduce(m, e).state.cancel = "requested" /\ Reduce(p, e).state.cancel = "requested"
          /\ Reduce(m, e).state.nodes = m.nodes /\ Reduce(p, e).state.nodes = p.nodes
          /\ Reduce(m, e).state.status = m.status /\ Reduce(p, e).state.status = p.status
      BY <3>1 DEF RunState
    <3> QED BY <3>2, <3>3 DEF View, Related, NoFurther, Ahead
  <2> QED BY <2>2, <2>3
<1>3. CASE m.status # "pending"
  <2>1. Reduce(m, e) = OnCancelRequested(m) /\ Reduce(p, e) = OnCancelRequested(p)
    BY <1>0, <1>3 DEF Reduce, ReduceLive, UnparkEvents
  <2>2. CASE m.cancel # "none"
    <3>1. Reduce(m, e).state = m /\ Reduce(p, e).state = p
      BY <1>0, <1>1, <2>1, <2>2 DEF OnCancelRequested
    <3> QED BY <1>1, <3>1
  <2>3. CASE m.cancel = "none"
    <3>1. PICK b \in RunState :
            /\ OnCancelRequested(m) = Settle(b) /\ b.cancel # "none"
            /\ b.status = UnparkIfWaiting(m).status
            /\ \A n \in Nodes : b.nodes[n] = IF m.nodes[n].st = "retry_pending"
                                             THEN [m.nodes[n] EXCEPT !.st = "failure"]
                                             ELSE m.nodes[n]
      BY <2>3, CancelBase
    <3>2. PICK c \in RunState :
            /\ OnCancelRequested(p) = Settle(c) /\ c.cancel # "none"
            /\ c.status = UnparkIfWaiting(p).status
            /\ \A n \in Nodes : c.nodes[n] = IF p.nodes[n].st = "retry_pending"
                                             THEN [p.nodes[n] EXCEPT !.st = "failure"]
                                             ELSE p.nodes[n]
      BY <1>0, <2>3, CancelBase
    <3>3. ASSUME NEW n \in Nodes
          PROVE  /\ Related(b.nodes[n], c.nodes[n], b.cancel)
                 /\ ~Ahead(b.nodes[n], c.nodes[n])
      <4>0. m.nodes[n] \in NodeState
        BY DEF RunState
      <4>1. CASE m.nodes[n] = p.nodes[n]
        <5> DEFINE z == IF m.nodes[n].st = "retry_pending" THEN [m.nodes[n] EXCEPT !.st = "failure"]
                        ELSE m.nodes[n]
        <5>1. b.nodes[n] = z
          BY <3>1
        <5>2. c.nodes[n] = z
          BY <3>2, <4>1
        <5> HIDE DEF z
        <5> QED BY <5>1, <5>2 DEF Related, Ahead
      <4>2. CASE m.nodes[n] # p.nodes[n]
        <5>1. m.nodes[n].st = "retry_pending"
          BY <2>3, <4>2 DEF View, Related, Ahead
        <5>2. b.nodes[n] = [m.nodes[n] EXCEPT !.st = "failure"]
          BY <3>1, <5>1
        <5>3. b.nodes[n].st = "failure"
          BY <4>0, <5>2 DEF NodeState
        <5> QED BY <3>1, <5>3 DEF Related, Ahead
      <4> QED BY <4>1, <4>2
    <3>4. View(b, c) /\ NoFurther(m, p, b, c)
      BY <3>1, <3>2, <3>3 DEF View, NoFurther
    <3>5. Settle(b).state.status = Settle(c).state.status
      BY <3>1, <3>2, SettleCancel, UnparkStatus
    <3> QED BY <2>1, <3>1, <3>2, <3>4, <3>5, FurtherSettles
  <2> QED BY <2>2, <2>3
<1> QED BY <1>2, <1>3

\* run.resumed folded in memory onto what the log holds.
LEMMA ResumeView ==
  ASSUME NEW p \in RunState, Kept(p), Sound(p), p.status \in {"running", "waiting"},
         p.status = "waiting" =>
           /\ p.cancel = "none" /\ \E w \in Nodes : p.nodes[w].st = "wait_pending"
           /\ \A n \in Nodes : ~InFlight(p.nodes[n].st)
  PROVE  /\ View(OnResumed(p).state, p) /\ OnResumed(p).state.status = "running"
         /\ \A n \in Nodes : ~Ahead(OnResumed(p).state.nodes[n], p.nodes[n])
         /\ p.status = "waiting" => OnResumed(p).end = "park"
<1> DEFINE u == UnparkIfWaiting(p)
           f == [u EXCEPT !.nodes = [n \in Nodes |->
                   IF n \in Lost(u) THEN [u.nodes[n] EXCEPT !.st = "failure"]
                   ELSE u.nodes[n]]]
           b == IF Lost(u) = {} THEN u ELSE MarkStoppedWork(f)
           cmds == {CommandFor(n, u.nodes[n].att) : n \in Lost(u)}
<1>1. /\ u \in RunState /\ u.status = "running" /\ u.nodes = p.nodes /\ u.cancel = p.cancel
      /\ Lost(u) = {n \in Nodes : p.nodes[n].st = "ready"} /\ Lost(u) \in SUBSET Nodes
  BY UnparkType, UnparkFacts DEF UnparkIfWaiting, RunState, Lost
<1>2. OnResumed(p) = IF u.cancel # "none" THEN Settle(b)
                     ELSE [Settle(u) EXCEPT !.todo = @ \cup cmds]
  BY <1>1 DEF OnResumed, ResumeCancelled
<1> HIDE DEF u
<1>3. ASSUME NEW n \in Nodes
      PROVE  ~Startable(u, n) /\ ~Dead(u, n)
  BY <1>1, <1>3 DEF Kept, Walked, Startable, Dead
<1>4. CASE p.cancel = "none"
  <2>1. Settle(u) \in FoldResult /\ Settle(u).state = Walk(u) /\ Settle(u).end = Verdict(Walk(u))
    BY <1>1, SettleType DEF Settle
  <2>2. OnResumed(p).state = Walk(u) /\ OnResumed(p).end = Verdict(Walk(u))
    BY <1>1, <1>2, <1>4, <2>1 DEF FoldResult
  <2>3. /\ Walk(u).status = "running" /\ Walk(u).cancel = "none"
        /\ \A n \in Nodes : Walk(u).nodes[n] = p.nodes[n]
    <3>1. \A n \in Nodes : Walk(u).nodes[n] = u.nodes[n]
      BY <1>1, <1>3, WalkStatus
    <3> QED BY <1>1, <1>4, <3>1, WalkType, SettleCancel, <2>1
  <2>4. p.status = "waiting" => Verdict(Walk(u)) = "park"
    BY <2>3 DEF Verdict, AllTerminal, Done, AwaitsEvent
  <2> QED BY <1>4, <2>2, <2>3, <2>4 DEF View, Related, Ahead
<1>5. CASE p.cancel # "none"
  <2>1. f \in RunState
    BY <1>1, FailAllType
  <2>2. \A n \in Nodes : f.nodes[n] = IF n \in Lost(u) THEN [p.nodes[n] EXCEPT !.st = "failure"]
                                      ELSE p.nodes[n]
    BY <1>1 DEF RunState
  <2>3. f.status = "running" /\ f.cancel = p.cancel
    BY <1>1 DEF RunState
  <2> HIDE DEF f
  <2>4. /\ MarkStoppedWork(f) \in RunState /\ MarkStoppedWork(f).nodes = f.nodes
        /\ MarkStoppedWork(f).status = "running" /\ MarkStoppedWork(f).cancel # "none"
    BY <1>5, <2>1, <2>3, MarkStoppedWorkType, MarkStoppedWorkFacts DEF MarkStoppedWork, RunState
  <2>5. /\ b \in RunState /\ b.status = "running" /\ b.cancel # "none"
    BY <1>1, <1>5, <2>4
  <2>6. ASSUME NEW n \in Nodes
        PROVE  b.nodes[n] = p.nodes[n] \/ b.nodes[n].st = "failure"
    <3>1. CASE n \in Lost(u)
      <4>1. p.nodes[n] \in NodeState /\ f.nodes[n] = [p.nodes[n] EXCEPT !.st = "failure"]
        BY <2>2, <3>1 DEF RunState
      <4>2. f.nodes[n].st = "failure"
        BY <4>1 DEF NodeState
      <4> QED BY <2>4, <3>1, <4>2
    <3>2. CASE n \notin Lost(u)
      BY <1>1, <2>2, <2>4, <3>2
    <3> QED BY <3>1, <3>2
  <2> HIDE DEF b
  <2>7. OnResumed(p) = Settle(b)
    BY <1>1, <1>2, <1>5
  <2>8. ASSUME NEW n \in Nodes
        PROVE  LET x == Settle(b).state.nodes[n] IN x = p.nodes[n] \/ x.st \in {"failure", "skipped"}
    <3>1. Settle(b).state = Walk(b)
      BY DEF Settle
    <3>2. CASE Dead(b, n)
      BY <2>5, <3>1, <3>2, WalkStatus
    <3>3. CASE ~Dead(b, n)
      <4>1. Walk(b).nodes[n] = b.nodes[n]
        BY <2>5, <3>3, WalkStatus DEF Startable
      <4> QED BY <2>6, <3>1, <4>1
    <3> QED BY <3>2, <3>3
  <2>9. Settle(b).state.cancel # "none" /\ Settle(b).state.status = "running"
    BY <2>5, SettleCancel
  <2> QED BY <1>5, <2>7, <2>8, <2>9 DEF View, Related, Ahead
<1> QED BY <1>4, <1>5

\* What is parked stays as it is until something unparks it.
LEMMA ParkedStays ==
  ASSUME NEW s \in RunState, NEW e \in Event, s.status = "waiting", s.cancel = "none",
         Reduce(s, e).state.status = "waiting"
  PROVE  Reduce(s, e).state = s
<1>1. CASE e.type \notin UnparkEvents
  BY <1>1, WaitingStays
<1>2. CASE e.type \in UnparkEvents
  <2>1. Reduce(s, e) = ReduceLive(s, e) /\ UnparkIfWaiting(s).status = "running"
    BY <1>2, UnparkStatus DEF Reduce
  <2>2. CASE e.type = "run.resumed"
    <3>1. Reduce(s, e) = OnResumed(s)
      BY <2>1, <2>2 DEF ReduceLive
    <3> QED BY <2>1, <3>1, ResumeStatus
  <2>3. CASE e.type = "run.cancelRequested"
    <3>1. Reduce(s, e) = OnCancelRequested(s)
      BY <2>1, <2>3 DEF ReduceLive
    <3> QED BY <2>1, <3>1, CancelBase, SettleCancel
  <2>4. CASE e.type = "timer.due"
    <3>1. Reduce(s, e) = OnWaitDue(s, e.node, e.att) /\ e.node \in Nodes /\ e.att \in Nat
      BY <2>1, <2>4 DEF ReduceLive, Event, RunEventType, NodeEventType
    <3>2. CASE s.nodes[e.node].st = "wait_pending" /\ Current(s, e.node, e.att)
      <4>1. "transient" \in FailureKind
        BY DEF FailureKind
      <4> QED BY <2>1, <3>1, <3>2, <4>1, NodeHandlersStatus
    <3>3. CASE ~(s.nodes[e.node].st = "wait_pending" /\ Current(s, e.node, e.att))
      BY <3>1, <3>3 DEF OnWaitDue, Only
    <3> QED BY <3>2, <3>3
  <2> QED BY <1>2, <2>2, <2>3, <2>4 DEF UnparkEvents
<1> QED BY <1>1, <1>2

-----------------------------------------------------------------------------
(* The log, the pump's state and the park.                                  *)

\* Every wait stands alone: each other node is upstream or downstream of it.
SoloWaits == \A w \in Waits : \A n \in Nodes \ {w} : n \in Anc[w] \/ w \in Anc[n]

FineInv ==
  /\ Kept(proj)
  /\ Loaded => Kept(mem) /\ (ending = "park" => Parkable(mem))

\* A parked log has a wait to wake it and nothing else open.
ParkInv ==
  proj.status = "waiting" =>
    Parkable(proj) /\ (fact = "none" => \A n \in Nodes : ~InFlight(proj.nodes[n].st))

\* The pump's state is the log's but for what View allows; a pump that resumed
\* a parked run is about to park it again.
TrackInv ==
  pc = "pump" /\ fact = "none" =>
    /\ View(mem, proj)
    /\ \/ proj.status = mem.status
       \/ proj.status = "waiting" /\ mem.status = "running" /\ ending = "park"

LEMMA SeedKept == Kept(Seed)
BY DEF Kept, Walked, SkipsExplained, Seed

\* A step of the log is the fold of an event, and the log's end stays.
LEMMA LogStep ==
  ASSUME TypeOK, Step
  PROVE  /\ proj' = proj \/ \E e \in Event : Proper(e) /\ proj' = Reduce(proj, e).state
         /\ fact' = "none" => fact = "none"
         /\ fact # "none" => proj' = proj
<1>1. CASE Beside \/ Leaves \/ Loads \/ Resyncs \/ Resumes \/ Requeued \/ Refuses \/ Syncs
  BY <1>1 DEF Beside, Leaves, Loads, Resyncs, Resumes, Requeued, Refuses, Syncs
<1>2. ASSUME NEW e \in Event, PumpFolds(e) \/ JobFolds(e) \/ StartFolds(e)
      PROVE  Proper(e) /\ proj' = Reduce(proj, e).state /\ fact = "none"
  BY <1>2 DEF PumpFolds, JobFolds, StartFolds, FoldsOn, Logs
<1>3. ASSUME NEW o \in {"success", "failure", "cancelled"}, Finishes(o)
      PROVE  /\ proj' = Reduce(proj, FinishedEvent(o)).state /\ fact = "none" /\ FinishedEvent(o) \in Event
             /\ Proper(FinishedEvent(o))
  BY <1>3, FinishedFacts DEF Finishes, Logs
<1>4. ASSUME Interrupts
      PROVE  /\ proj' = Reduce(proj, RunEvent("run.interrupted")).state /\ fact = "none"
             /\ RunEvent("run.interrupted") \in Event /\ Proper(RunEvent("run.interrupted"))
  BY <1>4, RunEventFacts DEF Interrupts, Logs, RunEventType
<1>5. ASSUME NEW n \in Nodes, NEW k \in Nat, Fires(n, k)
      PROVE  /\ proj' = Reduce(proj, DueEvent(n, k)).state /\ fact = "none"
             /\ DueEvent(n, k) \in Event /\ Proper(DueEvent(n, k))
  BY <1>5, DueEventFacts DEF Fires, Fresh, Logs
<1> QED BY <1>1, <1>2, <1>3, <1>4, <1>5 DEF Step

LEMMA FineStep ==
  ASSUME TypeOK, PumpInv, PumpInv', LifeInv, FineInv, Step
  PROVE  FineInv'
<1>0. /\ proj \in RunState /\ mem \in RunState /\ QueueInv /\ UnbornInv
      /\ pc = "start" => mem = Seed
  BY DEF TypeOK, PumpInv, LifeInv, UnbornInv
<1>1. Kept(proj')
  <2>1. CASE proj' = proj
    BY <2>1 DEF FineInv
  <2>2. ASSUME NEW e \in Event, proj' = Reduce(proj, e).state
        PROVE  Kept(proj')
    BY <1>0, <2>2, ReduceFine DEF FineInv, Fine
  <2> QED BY <2>1, <2>2, LogStep
<1>2. ASSUME NEW e \in Event, mem' = Reduce(mem, e).state, Loaded \/ pc = "start"
      PROVE  Kept(mem') /\ (Reduce(mem, e).end = "park" => Parkable(mem'))
  <2>1. Kept(mem)
    BY <1>0, <1>2, SeedKept DEF FineInv
  <2> QED BY <1>0, <1>2, <2>1, ReduceFine DEF Fine
<1>3. ~Loaded \/ mem.cancel # "none" => ending # "park"
  BY <1>0 DEF QueueInv, FineInv, Parkable
<1>4. CASE Beside \/ Syncs
  BY <1>1, <1>4 DEF Beside, Syncs, FineInv, Loaded
<1>5. CASE Leaves \/ Resyncs \/ Interrupts \/ Refuses
  BY <1>1, <1>5 DEF Leaves, Resyncs, Interrupts, Refuses, FineInv, Loaded
<1>6. CASE Loads
  BY <1>1, <1>3, <1>6 DEF Loads, FineInv, Loaded
<1>7. CASE Requeued
  BY <1>1, <1>7 DEF Requeued, FineInv, Loaded
<1>8. ASSUME NEW e \in Event, PumpFolds(e) \/ JobFolds(e) \/ StartFolds(e)
      PROVE  FineInv'
  <2>1. /\ mem' = Reduce(mem, e).state /\ (Loaded \/ pc = "start")
        /\ ending' = Reduce(mem, e).end \/ (mem.cancel # "none" /\ UNCHANGED ending)
    BY <1>8 DEF PumpFolds, JobFolds, StartFolds, FoldsOn, Loaded
  <2> QED BY <1>1, <1>2, <1>3, <2>1 DEF FineInv
<1>9. CASE Resumes
  <2>1. RunEvent("run.resumed") \in Event
    BY RunEventFacts DEF RunEventType
  <2>2. Loaded
    BY <1>9 DEF Resumes, Loaded
  <2>3. CASE mem.status = "pending"
    BY <1>1, <1>9, <2>2, <2>3 DEF Resumes, FineInv
  <2>4. CASE mem.status # "pending"
    <3>1. mem' = Reduce(mem, RunEvent("run.resumed")).state /\ ending' = Reduce(mem, RunEvent("run.resumed")).end
      BY <1>9, <2>4 DEF Resumes
    <3> QED BY <1>1, <1>2, <2>1, <2>2, <3>1 DEF FineInv
  <2> QED BY <2>3, <2>4
<1>10. ASSUME NEW o \in {"success", "failure", "cancelled"}, Finishes(o)
       PROVE  FineInv'
  <2>1. mem' = Reduce(mem, FinishedEvent(o)).state /\ Loaded /\ mem'.status = o
    BY <1>10 DEF Finishes, Loaded
  <2>2. ending' # "park"
    BY <1>10, <2>1 DEF PumpInv, QueueInv, EndMove
  <2> QED BY <1>1, <1>2, <1>10, <2>1, <2>2, FinishedFacts DEF FineInv
<1>11. ASSUME NEW n \in Nodes, NEW k \in Nat, Fires(n, k)
       PROVE  FineInv'
  BY <1>1, <1>11 DEF Fires, FineInv, Loaded
<1> QED BY <1>4, <1>5, <1>6, <1>7, <1>8, <1>9, <1>10, <1>11 DEF Step

LEMMA ParkStep ==
  ASSUME TypeOK, TypeOK', PumpInv, LifeInv, FineInv, ParkInv, TrackInv, Step
  PROVE  ParkInv'
<1> SUFFICES ASSUME proj'.status = "waiting"
             PROVE  Parkable(proj') /\ (fact' = "none" => \A n \in Nodes : ~InFlight(proj'.nodes[n].st))
  BY DEF ParkInv
<1>0. proj \in RunState /\ (fact' = "none" => fact = "none")
  BY LogStep DEF TypeOK
<1>1. CASE proj.status = "waiting"
  <2>1. Parkable(proj)
    BY <1>1 DEF ParkInv
  <2>2. proj' = proj
    BY <1>0, <1>1, <2>1, LogStep, ParkedStays DEF Parkable
  <2> QED BY <1>0, <1>1, <2>1, <2>2 DEF ParkInv
<1>2. CASE proj.status # "waiting"
  <2>1. PICK e \in Event : e.type = "run.waiting" /\ PumpFolds(e) /\ proj.status = "running"
    <3>0. ASSUME NEW e \in Event, proj' = Reduce(proj, e).state
          PROVE  e.type = "run.waiting" /\ proj.status = "running"
      <4>1. StatusMove(proj, e, proj') /\ (e.type = "run.finished" => e.kind # "waiting")
        BY <1>0, <3>0, StatusMoves DEF Event, RunEventType, NodeEventType
      <4> QED BY <1>2, <4>1 DEF StatusMove
    <3>1. CASE Beside \/ Leaves \/ Loads \/ Resyncs \/ Resumes \/ Requeued \/ Refuses \/ Syncs
      BY <1>2, <3>1 DEF Beside, Leaves, Loads, Resyncs, Resumes, Requeued, Refuses, Syncs
    <3>2. ASSUME NEW e \in Event, PumpFolds(e) \/ JobFolds(e) \/ StartFolds(e)
          PROVE  PumpFolds(e) /\ e.type = "run.waiting" /\ proj.status = "running"
      <4>1. proj' = Reduce(proj, e).state
        BY <3>2 DEF PumpFolds, JobFolds, StartFolds, FoldsOn, Logs
      <4> QED BY <3>0, <3>2, <4>1 DEF JobFolds, StartFolds
    <3>3. ASSUME NEW o \in {"success", "failure", "cancelled"}, Finishes(o)
          PROVE  FALSE
      BY <3>0, <3>3, FinishedFacts DEF Finishes, Logs
    <3>4. ~Interrupts
      BY <3>0, RunEventFacts DEF Interrupts, Logs, RunEventType
    <3>5. ASSUME NEW n \in Nodes, NEW k \in Nat, Fires(n, k)
          PROVE  FALSE
      BY <3>0, <3>5, DueEventFacts DEF Fires, Logs
    <3> QED BY <3>1, <3>2, <3>3, <3>4, <3>5 DEF Step
  <2>2. /\ pc = "pump" /\ fact = "none" /\ ending = "park" /\ proj' = Reduce(proj, e).state
    BY <2>1 DEF PumpFolds, FoldsOn, Logs
  <2>3. /\ Parkable(mem) /\ View(mem, proj) /\ \A n \in Nodes : ~InFlight(mem.nodes[n].st)
    BY <2>2 DEF FineInv, Loaded, TrackInv, PumpInv, QueueInv, EndMove
  <2>4. \A n \in Nodes : proj.nodes[n] = mem.nodes[n]
    BY <2>3 DEF View, Related, Ahead, InFlight, Parkable
  <2>5. /\ proj'.nodes = proj.nodes /\ proj'.cancel = proj.cancel
    BY <1>0, <2>1, <2>2 DEF Reduce, ReduceLive, Only, RunState
  <2>6. proj'.cancel = "none"
    BY <2>3, <2>5 DEF View, Parkable
  <2> QED BY <2>3, <2>4, <2>5, <2>6 DEF Parkable
<1> QED BY <1>1, <1>2

\* Nothing is in flight beside a pending wait.
LEMMA SoloAlone ==
  ASSUME SoloWaits, NEW p, Sound(p), NEW w \in Waits, p.nodes[w].st = "wait_pending", NEW n \in Nodes
  PROVE  ~InFlight(p.nodes[n].st)
<1>1. w \in Nodes /\ w # n => n \in Anc[w] \/ w \in Anc[n]
  BY GraphAssumption DEF SoloWaits
<1> QED BY <1>1, GraphAssumption DEF Sound, InFlight

LEMMA RetryDue ==
  ASSUME NEW p \in RunState, p.status = "running", NEW e, e.type = "node.retryDue", e.node \in Nodes,
         p.nodes[e.node].st = "retry_pending", p.nodes[e.node].att = e.att
  PROVE  LET q == Reduce(p, e).state  n == e.node IN
         /\ q.status = p.status /\ q.cancel = p.cancel
         /\ \A j \in Nodes \ {n} : q.nodes[j] = p.nodes[j]
         /\ Ahead(p.nodes[n], q.nodes[n])
<1>1. Reduce(p, e) = Redispatch(p, e.node, p.nodes[e.node].retries + 1)
  BY DEF Reduce, ReduceLive, OnRetryDue, Current
<1> QED BY <1>1 DEF Redispatch, RunState, Ahead

LEMMA TrackFolds ==
  ASSUME TypeOK, PumpInv, LifeInv, TrackInv, NEW e \in Event, PumpFolds(e)
  PROVE  /\ TrackInv' /\ NoFurther(mem, proj, mem', proj')
<1>0. /\ proj \in RunState /\ mem \in RunState /\ Sound(mem) /\ QueueInv /\ StreamInv
      /\ pc = "pump" /\ fact = "none" /\ mem.status \notin Terminal
      /\ mem' = Reduce(mem, e).state /\ proj' = Reduce(proj, e).state
      /\ e.type = "run.waiting" <=> ending = "park"
      /\ e.type \in PumpEvents \ {"run.finished"} /\ View(mem, proj)
      /\ \/ proj.status = mem.status
         \/ proj.status = "waiting" /\ mem.status = "running" /\ ending = "park"
  BY DEF TypeOK, PumpInv, LifeInv, PumpFolds, FoldsOn, Logs, FactInv, TrackInv, Terminal
<1>1. CASE e.type = "run.waiting"
  <2>1. mem.status = "running" /\ proj.status \in {"running", "waiting"}
    BY <1>0, <1>1 DEF QueueInv, EndMove
  <2>2. /\ mem'.status = "waiting" /\ mem'.cancel = mem.cancel /\ mem'.nodes = mem.nodes
    BY <1>0, <1>1, <2>1 DEF Reduce, ReduceLive, Only, RunState
  <2>3. /\ proj'.status = "waiting" /\ proj'.cancel = proj.cancel /\ proj'.nodes = proj.nodes
    BY <1>0, <1>1, <2>1 DEF Reduce, ReduceLive, Only, RunState, UnparkEvents
  <2> QED BY <1>0, <2>2, <2>3 DEF TrackInv, View, NoFurther
<1>2. CASE e.type = "run.cancelRequested"
  <2>1. mem.status = proj.status
    BY <1>0, <1>2
  <2> QED BY <1>0, <1>2, <2>1, CancelFoldView DEF TrackInv
<1>3. CASE e.type = "node.retryScheduled"
  <2>1. mem' = mem /\ proj' = proj
    BY <1>0, <1>3 DEF Reduce, ReducePending, ReduceLive, Only
  <2> QED BY <1>0, <1>3, <2>1 DEF TrackInv, NoFurther
<1>4. CASE e.type \in NodeEvents \ {"node.retryScheduled"}
  <2>1. mem.status = "running" /\ e.node \in Nodes /\ mem.nodes[e.node].st \in {"ready", "dispatched"}
    <3>1. CASE e.type = "timer.waitScheduled"
      <4>1. e.node \in Nodes
        BY <1>4 DEF Event, RunEventType, NodeEventType, NodeEvents
      <4>2. hand = [type |-> "scheduleWait", node |-> e.node, att |-> e.att]
        BY <3>1 DEF PumpFolds
      <4>3. hand # NoCommand
        BY <4>2 DEF NoCommand
      <4>4. Asked(hand)
        BY <1>0, <4>3 DEF QueueInv
      <4>5. hand.node = e.node /\ hand.type = "scheduleWait"
        BY <4>2
      <4> QED BY <4>1, <4>4, <4>5 DEF Asked
    <3>2. CASE e.type \in {"node.dispatched", "node.succeeded", "node.failed"}
      BY <1>0, <3>2 DEF PumpFolds, StreamInv
    <3> QED BY <1>4, <3>1, <3>2 DEF NodeEvents
  <2>2. mem.nodes[e.node] = proj.nodes[e.node] /\ proj.status = "running"
    <3>1. ending # "park"
      BY <1>0, <1>4 DEF NodeEvents
    <3> QED BY <1>0, <2>1, <3>1 DEF View, Related, Ahead
  <2>3. View(mem', proj') /\ NoFurther(mem, proj, mem', proj')
    BY <1>0, <1>4, <2>1, <2>2, NodeFoldView DEF NodeEvents
  <2>4. StatusMove(mem, e, mem') /\ StatusMove(proj, e, proj')
    BY <1>0, StatusMoves
  <2>5. mem'.status = proj'.status
    BY <1>4, <2>1, <2>2, <2>4 DEF StatusMove, NodeEvents
  <2> QED BY <2>3, <2>5 DEF TrackInv
<1> QED BY <1>0, <1>1, <1>2, <1>3, <1>4 DEF PumpEvents, NodeEvents

LEMMA TrackResumes ==
  ASSUME TypeOK, PumpInv, LifeInv, FineInv, ParkInv, Resumes
  PROVE  /\ TrackInv' /\ \A n \in Nodes : ~Ahead(mem'.nodes[n], proj'.nodes[n])
<1>0. /\ proj \in RunState /\ Sound(proj) /\ mem = proj /\ fact = "none" /\ proj' = proj /\ Kept(proj)
      /\ proj.status \notin Terminal
  BY DEF TypeOK, PumpInv, LifeInv, Resumes, ViewInv, FactInv, FineInv, Terminal
<1>1. CASE mem.status = "pending"
  <2>1. mem' = proj'
    BY <1>0, <1>1 DEF Resumes
  <2> QED BY <2>1 DEF TrackInv, View, Related, Ahead
<1>2. CASE mem.status # "pending"
  <2>0. proj.status \in {"running", "waiting"}
    BY <1>0, <1>2 DEF RunState, RunStatus
  <2>1. Reduce(proj, RunEvent("run.resumed")) = OnResumed(proj)
    BY <2>0 DEF Reduce, ReduceLive, RunEvent, UnparkEvents
  <2>2. mem' = OnResumed(proj).state /\ ending' = OnResumed(proj).end
    BY <1>0, <1>2, <2>1 DEF Resumes
  <2>3. proj.status = "waiting" =>
           /\ proj.cancel = "none" /\ \E w \in Nodes : proj.nodes[w].st = "wait_pending"
           /\ \A n \in Nodes : ~InFlight(proj.nodes[n].st)
    BY <1>0 DEF ParkInv, Parkable
  <2>4. /\ View(mem', proj) /\ mem'.status = "running"
        /\ \A n \in Nodes : ~Ahead(mem'.nodes[n], proj.nodes[n])
        /\ proj.status = "waiting" => ending' = "park"
    BY <1>0, <2>0, <2>2, <2>3, ResumeView
  <2> QED BY <1>0, <2>0, <2>4 DEF TrackInv
<1> QED BY <1>1, <1>2

\* An alarm that goes off under a pump is a retry's.
LEMMA TrackFires ==
  ASSUME TypeOK, PumpInv, LifeInv, TrackInv, SoloWaits, NEW n \in Nodes, NEW k \in Nat, Fires(n, k),
         pc = "pump"
  PROVE  /\ TrackInv' /\ n \notin Waits
<1>0. /\ proj \in RunState /\ mem \in RunState /\ Sound(proj) /\ QueueInv /\ StreamInv
      /\ fact = "none" /\ mem.status = "running" /\ View(mem, proj)
      /\ mem' = mem /\ pc' = "pump" /\ ending' = ending
      /\ Current(proj, n, k) /\ proj' = Reduce(proj, DueEvent(n, k)).state
      /\ proj.nodes[n].st = IF n \in Waits THEN "wait_pending" ELSE "retry_pending"
  BY DEF TypeOK, PumpInv, Fires, Fresh, Logs, TrackInv
<1>1. PICK l \in Nodes : Live(l)
  BY DEF Fires
<1>2. mem.nodes[l].st \in {"ready", "dispatched"} /\ proj.nodes[l] = mem.nodes[l]
  BY <1>0, <1>1 DEF StreamInv, View, Related, Ahead
<1>3. n \notin Waits
  BY <1>0, <1>2, SoloAlone DEF InFlight
<1>4. proj.status = "running"
  <2>1. ending # "park"
    BY <1>0, <1>2 DEF QueueInv, EndMove, InFlight
  <2> QED BY <1>0, <2>1 DEF TrackInv
<1>5. mem.cancel = "none" /\ mem.nodes[n] = proj.nodes[n]
  BY <1>0, <1>3 DEF View, Related, Ahead, Sound, NoneHeld
<1>6. /\ proj'.status = proj.status /\ proj'.cancel = proj.cancel
      /\ \A j \in Nodes \ {n} : proj'.nodes[j] = proj.nodes[j]
      /\ Ahead(proj.nodes[n], proj'.nodes[n])
  BY <1>0, <1>3, <1>4, RetryDue, DueEventFacts DEF Current
<1>7. View(mem', proj')
  BY <1>0, <1>5, <1>6 DEF View, Related
<1> QED BY <1>0, <1>3, <1>4, <1>6, <1>7 DEF TrackInv

LEMMA TrackStep ==
  ASSUME TypeOK, PumpInv, LifeInv, FineInv, ParkInv, TrackInv, SoloWaits, Step
  PROVE  TrackInv'
<1>1. CASE Beside \/ Syncs
  BY <1>1 DEF Beside, Syncs, TrackInv
<1>2. CASE Leaves \/ Loads \/ Resyncs \/ Interrupts \/ Refuses
  BY <1>2 DEF Leaves, Loads, Resyncs, Interrupts, Refuses, TrackInv
<1>3. ASSUME NEW e \in Event, PumpFolds(e) \/ JobFolds(e)
      PROVE  TrackInv'
  BY <1>3, TrackFolds DEF JobFolds, TrackInv
<1>4. ASSUME NEW e \in Event, StartFolds(e)
      PROVE  TrackInv'
  <2>1. mem = Seed /\ proj = Seed
    BY <1>4, OnlySeed DEF TypeOK, PumpInv, LifeInv, StartFolds, UnbornInv, Unborn, NeverStarted
  <2>2. mem' = proj'
    BY <1>4, <2>1 DEF StartFolds, FoldsOn, Logs
  <2> QED BY <2>2 DEF TrackInv, View, Related
<1>5. CASE Resumes
  BY <1>5, TrackResumes
<1>6. CASE Requeued
  <2>1. mem' = proj'
    BY <1>6 DEF Requeued, LifeInv, ViewInv
  <2> QED BY <2>1 DEF TrackInv, View, Related
<1>7. ASSUME NEW o \in {"success", "failure", "cancelled"}, Finishes(o)
      PROVE  TrackInv'
  BY <1>7 DEF Finishes, TrackInv
<1>8. ASSUME NEW n \in Nodes, NEW k \in Nat, Fires(n, k)
      PROVE  TrackInv'
  <2>1. CASE pc = "pump"
    BY <1>8, <2>1, TrackFires
  <2>2. CASE pc # "pump"
    BY <1>8, <2>2 DEF Fires, TrackInv
  <2> QED BY <2>1, <2>2
<1> QED BY <1>1, <1>2, <1>3, <1>4, <1>5, <1>6, <1>7, <1>8 DEF Step

-----------------------------------------------------------------------------
(* A logged success.                                                        *)

LEMMA EarnedStep ==
  ASSUME TypeOK, PumpInv, LifeInv, FineInv, TrackInv, SuccessIsEarned, Step
  PROVE  SuccessIsEarned'
<1> SUFFICES ASSUME fact' = "success", NEW n \in Nodes
             PROVE  proj'.nodes[n].st = "success"
  BY DEF SuccessIsEarned
<1>1. CASE fact = "success"
  BY <1>1, LogStep DEF SuccessIsEarned
<1>2. CASE fact # "success"
  <2>1. Finishes("success")
    <3>1. CASE Beside \/ Leaves \/ Loads \/ Resyncs \/ Resumes \/ Requeued \/ Refuses \/ Syncs
      BY <1>2, <3>1 DEF Beside, Leaves, Loads, Resyncs, Resumes, Requeued, Refuses, Syncs
    <3>2. ASSUME NEW e \in Event, PumpFolds(e) \/ JobFolds(e) \/ StartFolds(e)
          PROVE  FALSE
      BY <1>2, <3>2 DEF PumpFolds, JobFolds, StartFolds, FoldsOn
    <3>3. ASSUME NEW m \in Nodes, NEW k \in Nat, Fires(m, k)
          PROVE  FALSE
      BY <1>2, <3>3 DEF Fires
    <3>4. ~Interrupts
      BY DEF Interrupts
    <3>5. ASSUME NEW o \in {"success", "failure", "cancelled"}, Finishes(o)
          PROVE  Finishes("success")
      BY <3>5 DEF Finishes
    <3> QED BY <3>1, <3>2, <3>3, <3>4, <3>5 DEF Step
  <2> DEFINE e == FinishedEvent("success")
  <2>2. e \in Event /\ Proper(e) /\ e.type = "run.finished" /\ e.kind = "success"
    BY FinishedFacts
  <2>3. /\ pc = "pump" /\ fact = "none" /\ Logs(e) /\ Reduce(mem, e).state.status = "success"
        /\ mem \in RunState /\ Sound(proj) /\ proj \in RunState
    BY <2>1 DEF Finishes, TypeOK, PumpInv
  <2> HIDE DEF e
  <2>4. AllTerminal(mem) /\ ~OutcomeFailed(mem)
    <3>1. StatusMove(mem, e, Reduce(mem, e).state)
      BY <2>2, <2>3, StatusMoves
    <3>2. mem.status # "success"
      BY <2>3 DEF LifeInv, FactInv, Terminal
    <3>3. mem.status = "running"
      BY <2>2, <2>3, <3>1, <3>2 DEF StatusMove
    <3>4. Reduce(mem, e) = OnFinished(mem, "success")
      BY <2>2, <3>3 DEF Reduce, ReduceLive
    <3> QED BY <2>3, <3>3, <3>4 DEF OnFinished, Finish
  <2>5. \A m \in Nodes : mem.nodes[m].st = "success"
    BY <2>3, <2>4 DEF AllTerminal, OutcomeFailed, Done, FineInv, Loaded, Kept, SkipsExplained
  <2>6. proj.nodes[n].st = "success"
    BY <2>3, <2>5 DEF TrackInv, View, Related, Ahead
  <2>7. NodeMove(proj, e, proj', n)
    BY <2>2, <2>3, LogFacts
  <2> QED BY <2>2, <2>6, <2>7 DEF NodeMove, WalkMove, OwnMove, RunMove
<1> QED BY <1>1, <1>2

-----------------------------------------------------------------------------
(* A pump that has fallen behind the log.                                   *)

DriveQueued == \E i \in DOMAIN lockq : lockq[i] = "drive"

BehindInv ==
  pc = "pump" /\ fact = "none" /\ (\E n \in Nodes : Ahead(mem.nodes[n], proj.nodes[n])) => DriveQueued

\* A process that is down holds no lock.
DownInv == up = "down" => pc = "idle" /\ lockq = <<>>

LEMMA DownStep ==
  ASSUME DownInv, [Next]_vars
  PROVE  DownInv'
<1> USE DEF durable, alarms, queueing, pumping, cancels, history, counters, DownInv
<1>1. CASE UNCHANGED vars
  BY <1>1 DEF vars
<1>2. CASE StartSteps
  BY <1>2 DEF StartSteps, StartRefused, StartCancelled, StartContext, StartRun, Starting
<1>3. CASE LockSteps
  BY <1>3 DEF LockSteps, Acquire, EnterCancel, EnterResume, Release, SyncRow
<1>4. CASE PumpSteps
  BY <1>4 DEF PumpSteps, AppendScheduled, Park, FinishRun, FoldMarker, PumpEnd,
              PumpReturn, Spawn, Arm, FoldStream, Working, Waiting
<1>5. CASE StreamSteps
  BY <1>5 DEF StreamSteps, OpenStream, Preflight, AbortQueued, StartAdapter, AdapterEnds, DropStream, StreamStep
<1>6. CASE AlarmSteps
  BY <1>6 DEF AlarmSteps, FireAlarm, SuppressAlarm
<1>7. CASE ReconcileSteps
  BY <1>7 DEF ReconcileSteps, RcResync, RcCancel, RcFinishCancelled, RcInterrupt, RcHold, Reconciling,
              RcUndecided, RcRecoverable,
              RcResume, RcPump, Boot, BootDone, RcFailDispatched, RcRearm, RcRetry
<1>8. CASE RequestCancel \/ LeaseReclaim \/ Mishaps \/ Over
  BY <1>8 DEF RequestCancel, LeaseReclaim, Mishaps, Crash, WriteThrows, StreamThrows,
              Over, vars
<1> QED BY <1>1, <1>2, <1>3, <1>4, <1>5, <1>6, <1>7, <1>8 DEF Next

\* Only whoever takes the lock, or a crash, takes a job off its queue.
LEMMA DriveStays ==
  ASSUME TypeOK, DownInv, [Next]_vars, DriveQueued, pc = "pump", pc' = "pump"
  PROVE  DriveQueued'
<1> USE DEF durable, alarms, queueing, pumping, cancels, history, counters, DownInv
<1>0. CASE UNCHANGED lockq
  BY <1>0 DEF DriveQueued
<1>1. ASSUME NEW j \in Jobs, lockq' = Append(lockq, j)
      PROVE  DriveQueued'
  BY <1>1 DEF DriveQueued, TypeOK, Jobs
<1>2. CASE StartSteps \/ LockSteps
  BY <1>0, <1>2 DEF StartSteps, StartRefused, StartCancelled, StartContext, StartRun, Starting,
              LockSteps, Acquire, EnterCancel, EnterResume, Release, SyncRow
<1>4. CASE PumpSteps
  BY <1>0, <1>4 DEF PumpSteps, AppendScheduled, Park, FinishRun, FoldMarker, PumpEnd,
              PumpReturn, Spawn, Arm, FoldStream
<1>5. CASE StreamSteps
  BY <1>0, <1>5 DEF StreamSteps, OpenStream, Preflight, AbortQueued, StartAdapter, AdapterEnds, DropStream, StreamStep
<1>6. CASE AlarmSteps
  <2>1. "drive" \in Jobs
    BY DEF Jobs
  <2> QED BY <1>0, <1>1, <1>6, <2>1 DEF AlarmSteps, FireAlarm, SuppressAlarm
<1>7. CASE ReconcileSteps
  BY <1>0, <1>7 DEF ReconcileSteps, RcResync, RcCancel, RcFinishCancelled, RcInterrupt, RcHold,
              RcResume, RcPump, Boot, BootDone, RcFailDispatched, RcRearm, RcRetry
<1>8. CASE RequestCancel
  <2>1. "cancel" \in Jobs
    BY DEF Jobs
  <2> QED BY <1>1, <1>8, <2>1 DEF RequestCancel
<1>9. CASE LeaseReclaim \/ Mishaps \/ Over \/ UNCHANGED vars
  BY <1>0, <1>9 DEF LeaseReclaim, Mishaps, Crash, WriteThrows, StreamThrows, Over, vars
<1> QED BY <1>2, <1>4, <1>5, <1>6, <1>7, <1>8, <1>9 DEF Next

LEMMA BehindStep ==
  ASSUME TypeOK, PumpInv, LifeInv, FineInv, ParkInv, TrackInv, BehindInv, DownInv, Step, [Next]_vars
  PROVE  BehindInv'
<1> SUFFICES ASSUME pc' = "pump", fact' = "none", NEW n \in Nodes, Ahead(mem'.nodes[n], proj'.nodes[n])
             PROVE  DriveQueued'
  BY DEF BehindInv
<1>0. fact = "none"
  BY LogStep
<1>1. CASE pc = "pump" /\ Ahead(mem.nodes[n], proj.nodes[n])
  BY <1>0, <1>1, DriveStays DEF BehindInv
<1>2. mem' # proj'
  BY DEF Ahead
<1>3. CASE Beside \/ Syncs
  BY <1>1, <1>3 DEF Beside, Syncs
<1>4. CASE Leaves \/ Loads \/ Resyncs \/ Interrupts \/ Refuses
  BY <1>4 DEF Leaves, Loads, Resyncs, Interrupts, Refuses
<1>5. ASSUME NEW e \in Event, PumpFolds(e) \/ JobFolds(e)
      PROVE  DriveQueued'
  BY <1>1, <1>5, TrackFolds DEF JobFolds, PumpFolds, NoFurther
<1>6. ASSUME NEW e \in Event, StartFolds(e)
      PROVE  DriveQueued'
  <2>1. mem = Seed /\ proj = Seed
    BY <1>6, OnlySeed DEF TypeOK, PumpInv, LifeInv, StartFolds, UnbornInv, Unborn, NeverStarted
  <2> QED BY <1>2, <1>6, <2>1 DEF StartFolds, FoldsOn, Logs
<1>7. CASE Resumes
  BY <1>7, TrackResumes
<1>8. CASE Requeued
  BY <1>2, <1>8 DEF Requeued, LifeInv, ViewInv
<1>9. ASSUME NEW o \in {"success", "failure", "cancelled"}, Finishes(o)
      PROVE  DriveQueued'
  BY <1>9 DEF Finishes
<1>10. ASSUME NEW m \in Nodes, NEW k \in Nat, Fires(m, k)
       PROVE  DriveQueued'
  <2>1. lockq' = Append(lockq, "drive") /\ lockq \in Seq(Jobs)
    BY <1>10 DEF Fires, TypeOK
  <2>2. Len(lockq) + 1 \in DOMAIN lockq' /\ lockq'[Len(lockq) + 1] = "drive"
    BY <2>1
  <2> QED BY <2>2 DEF DriveQueued
<1> QED BY <1>3, <1>4, <1>5, <1>6, <1>7, <1>8, <1>9, <1>10 DEF Step

-----------------------------------------------------------------------------
(* The dispatch streams, the log and the attempts that were started.        *)

\* The log's node x is at the point where a stream s may be at work for it.
Backs(x, s) ==
  /\ x.att = s.att
  /\ s.ph \in {"queued", "preflight", "offerD"} => x.st = "ready"
  /\ s.ph \in {"slot", "exec"} => x.st = "dispatched"
  /\ s.ph = "offerR" => x.st \in {"ready", "dispatched"}

LiveInv ==
  \A n \in Nodes : Live(n) =>
    /\ fact = "none" /\ Backs(proj.nodes[n], streams[n])
    /\ streams[n].ph = "slot" => <<n, streams[n].att>> \notin began

\* A started attempt is in the log's past, or its node is past `ready`.
BegunAt(x, k) == k <= x.att /\ (k = x.att => x.st \notin {"pending", "ready"})

BegunInv == \A a \in began : BegunAt(proj.nodes[a[1]], a[2])

Dispatches(n) == FoldStream(n) /\ streams[n].ph = "offerD"

LEMMA OnlySpawnStarts ==
  ASSUME TypeOK, [Next]_vars, NEW n \in Nodes, ~Live(n), Live(n)'
  PROVE  Spawn(n)
<1> USE DEF durable, alarms, queueing, pumping, cancels, history, counters
<1>0. ~UNCHANGED streams
  BY DEF Live
<1>1. CASE \E m \in Nodes : Spawn(m)
  BY <1>1 DEF Spawn, TypeOK, StreamsType, Live
<1>2. CASE \E m \in Nodes : FoldStream(m)
  BY <1>2 DEF FoldStream, TypeOK, StreamsType, Stream, Live, NoStream
<1>3. CASE FoldMarker
  BY <1>3 DEF FoldMarker, AbortRun, TypeOK, StreamsType, Stream, Live
<1>4. CASE StreamSteps
  BY <1>4, StreamsGoOn
<1>5. CASE Crash
  BY <1>5 DEF Crash, Live, NoStreams, NoStream
<1>6. CASE \E m \in Nodes : StreamThrows(m)
  BY <1>6 DEF StreamThrows, TypeOK, StreamsType, Stream, Live, NoStream
<1>7. CASE StartSteps \/ LockSteps
  BY <1>0, <1>7 DEF StartSteps, StartRefused, StartCancelled, StartContext, StartRun, LockSteps, Acquire,
     EnterCancel, EnterResume, Release, SyncRow
<1>8. CASE AppendScheduled \/ Park \/ FinishRun \/ PumpEnd \/ PumpReturn \/ \E m \in Nodes : Arm(m)
  BY <1>0, <1>8 DEF AppendScheduled, Park, FinishRun, PumpEnd, PumpReturn, Arm
<1>9. CASE ReconcileSteps
  BY <1>0, <1>9 DEF ReconcileSteps, RcResync, RcCancel, RcFinishCancelled, RcInterrupt, RcHold, RcResume,
     RcPump, Boot, BootDone, RcFailDispatched, RcRearm, RcRetry
<1>10. CASE AlarmSteps \/ RequestCancel \/ LeaseReclaim \/ WriteThrows \/ Over \/ UNCHANGED vars
  BY <1>0, <1>10 DEF AlarmSteps, FireAlarm, SuppressAlarm, RequestCancel, LeaseReclaim, WriteThrows, Over, vars
<1> QED BY <1>1, <1>2, <1>3, <1>4, <1>5, <1>6, <1>7, <1>8, <1>9, <1>10 DEF Next, PumpSteps, Mishaps

\* How a stream goes on: without a fold the log's node stays good for it.
GoesOn(s, t) ==
  /\ t.att = s.att
  /\ \/ t.ph = s.ph
     \/ s.ph \in {"queued", "preflight"} /\ t.ph \in {"preflight", "offerD", "offerR"}
     \/ s.ph \in {"slot", "exec"} /\ t.ph \in {"exec", "offerR"}

LEMMA StreamGoesOn ==
  ASSUME TypeOK, PumpInv, [Next]_vars, NEW n \in Nodes, Live(n), Live(n)', ~Dispatches(n)
  PROVE  GoesOn(streams[n], streams'[n])
<1> USE DEF durable, alarms, queueing, pumping, cancels, history, counters
<1>a. streams \in [Nodes -> Stream]
  BY DEF TypeOK, StreamsType
<1>0. CASE UNCHANGED streams
  BY <1>0 DEF GoesOn
<1>b. ASSUME NEW m \in Nodes, NEW s, streams' = [streams EXCEPT ![m] = s], n # m \/ GoesOn(streams[n], s)
      PROVE  GoesOn(streams[n], streams'[n])
  BY <1>a, <1>b DEF GoesOn
<1>c. ASSUME NEW m \in Nodes, NEW to, NEW out,
             streams' = [streams EXCEPT ![m] = [@ EXCEPT !.ph = to, !.out = out]],
             \/ streams[m].ph \in {"queued", "preflight"} /\ to \in {"preflight", "offerD", "offerR"}
             \/ streams[m].ph \in {"slot", "exec"} /\ to \in {"exec", "offerR"}
      PROVE  GoesOn(streams[n], streams'[n])
  <2>1. streams[m] \in Stream
    BY <1>a
  <2>2. GoesOn(streams[m], [streams[m] EXCEPT !.ph = to, !.out = out])
    BY <1>c, <2>1 DEF GoesOn, Stream
  <2> QED BY <1>a, <1>b, <1>c, <2>2
<1>1. CASE \E m \in Nodes : Spawn(m)
  <2>1. PICK m \in Nodes : Spawn(m)
    BY <1>1
  <2>2. CASE n # m
    BY <1>b, <2>1, <2>2 DEF Spawn
  <2>3. CASE n = m
    <3>1. PICK c \in todo : /\ c.type = "dispatchNode" /\ c.node = n
      BY <2>1, <2>3 DEF Spawn
    <3> QED BY <3>1 DEF PumpInv, QueueInv, Asked
  <2> QED BY <2>2, <2>3
<1>2. CASE \E m \in Nodes : FoldStream(m)
  <2>1. PICK m \in Nodes : FoldStream(m)
    BY <1>2
  <2>2. CASE n # m
    BY <1>b, <2>1, <2>2 DEF FoldStream
  <2>3. CASE n = m
    BY <1>a, <2>1, <2>3 DEF FoldStream, Dispatches, Live, NoStream
  <2> QED BY <2>2, <2>3
<1>3. CASE FoldMarker
  BY <1>3 DEF FoldMarker, AbortRun, TypeOK, StreamsType, Stream, GoesOn
<1>4. CASE StreamSteps
  <2>1. PICK m \in Nodes : \/ OpenStream(m) \/ Preflight(m) \/ AbortQueued(m)
                           \/ StartAdapter(m) \/ AdapterEnds(m) \/ DropStream(m)
    BY <1>4 DEF StreamSteps
  <2>2. CASE OpenStream(m)
    BY <1>c, <2>2 DEF OpenStream, StreamStep
  <2>3. CASE Preflight(m)
    BY <1>c, <2>3 DEF Preflight, StreamStep
  <2>4. CASE AbortQueued(m)
    BY <1>c, <2>4 DEF AbortQueued, StreamStep
  <2>5. CASE AdapterEnds(m)
    BY <1>c, <2>5 DEF AdapterEnds, StreamStep
  <2>6. CASE StartAdapter(m)
    BY <1>a, <2>6 DEF StartAdapter, GoesOn, Stream
  <2>7. CASE DropStream(m)
    BY <1>a, <2>7 DEF DropStream, GoesOn, NoStream, Live
  <2> QED BY <2>1, <2>2, <2>3, <2>4, <2>5, <2>6, <2>7
<1>5. CASE Crash
  BY <1>5 DEF Crash, Live, NoStreams, NoStream
<1>6. CASE \E m \in Nodes : StreamThrows(m)
  BY <1>a, <1>6 DEF StreamThrows, Live, NoStream, GoesOn
<1>7. CASE StartSteps \/ LockSteps
  BY <1>0, <1>7 DEF StartSteps, StartRefused, StartCancelled, StartContext, StartRun, LockSteps, Acquire,
     EnterCancel, EnterResume, Release, SyncRow
<1>8. CASE AppendScheduled \/ Park \/ FinishRun \/ PumpEnd \/ PumpReturn \/ \E m \in Nodes : Arm(m)
  BY <1>0, <1>8 DEF AppendScheduled, Park, FinishRun, PumpEnd, PumpReturn, Arm
<1>9. CASE ReconcileSteps
  BY <1>0, <1>9 DEF ReconcileSteps, RcResync, RcCancel, RcFinishCancelled, RcInterrupt, RcHold, RcResume,
     RcPump, Boot, BootDone, RcFailDispatched, RcRearm, RcRetry
<1>10. CASE AlarmSteps \/ RequestCancel \/ LeaseReclaim \/ WriteThrows \/ Over \/ UNCHANGED vars
  BY <1>0, <1>10 DEF AlarmSteps, FireAlarm, SuppressAlarm, RequestCancel, LeaseReclaim, WriteThrows, Over, vars
<1> QED BY <1>1, <1>2, <1>3, <1>4, <1>5, <1>6, <1>7, <1>8, <1>9, <1>10 DEF Next, PumpSteps, Mishaps

\* While its stream lives, the log's node is moved by nothing but the stream.
LEMMA LiveLog ==
  ASSUME TypeOK, CancelInv, PumpInv, LifeInv, LiveInv, [Next]_vars, NEW n \in Nodes, Live(n), Live(n)',
         ~Dispatches(n)
  PROVE  fact' = "none" /\ proj'.nodes[n] = proj.nodes[n]
<1> USE DEF durable, alarms, queueing, pumping, cancels, history, counters
<1>a. /\ fact = "none" /\ proj.nodes[n].st \in {"ready", "dispatched"} /\ pc \in {"pump", "drain"}
      /\ pc = "pump" => mem.status = "running" /\ n \notin Waits /\ mem.nodes[n].st \in {"ready", "dispatched"}
      /\ Sound(proj) /\ QueueInv /\ TypeOK
  <2>1. streams[n].ph \in Phases
    BY DEF TypeOK, StreamsType, Stream
  <2> QED BY <2>1 DEF LiveInv, Backs, Live, Phases, CancelInv, StreamsUnderPump, PumpInv, StreamInv
<1>b. ASSUME NEW e \in Event, Proper(e), Logs(e), e.type \in NodeEvents => e.node # n,
             e.type \in NodeEvents \cup {"run.cancelRequested", "timer.due", "node.retryDue"}
      PROVE  proj'.nodes[n] = proj.nodes[n]
  <2>1. NodeMove(proj, e, proj', n)
    BY <1>a, <1>b, LogFacts
  <2> QED BY <1>a, <1>b, <2>1 DEF NodeMove, WalkMove, OwnMove, RunMove, NodeEvents
<1>0. CASE UNCHANGED <<proj, fact>>
  BY <1>0, <1>a
<1>1. CASE \E m \in Nodes : FoldStream(m)
  <2>1. PICK m \in Nodes : FoldStream(m)
    BY <1>1
  <2>2. streams[m].ph \in {"offerD", "offerR"} /\ Logs(OfferedEvent(m)) /\ fact' = fact /\ pc = "pump"
    BY <2>1 DEF FoldStream, AppendAndFold, Waiting
  <2>3. m # n
    BY <1>a, <2>1, <2>2 DEF FoldStream, Dispatches, Live, NoStream, TypeOK, StreamsType
  <2>4. /\ OfferedEvent(m) \in Event /\ OfferedEvent(m).node = m
        /\ OfferedEvent(m).type \in {"node.dispatched", "node.succeeded", "node.failed"}
    BY <2>2, OfferedEventFacts
  <2>5. Proper(OfferedEvent(m))
    <3>1. m \notin Waits
      BY <2>2 DEF PumpInv, StreamInv, Live
    <3> QED BY <2>4, <3>1 DEF Proper
  <2> QED BY <1>a, <1>b, <2>2, <2>3, <2>4, <2>5 DEF NodeEvents
<1>2. CASE FoldMarker
  <2>1. Logs(RunEvent("run.cancelRequested")) /\ fact' = fact
    BY <1>2 DEF FoldMarker, AppendAndFold
  <2>2. /\ RunEvent("run.cancelRequested") \in Event /\ Proper(RunEvent("run.cancelRequested"))
        /\ RunEvent("run.cancelRequested").type = "run.cancelRequested"
    BY RunEventFacts DEF RunEventType
  <2> QED BY <1>a, <1>b, <2>1, <2>2 DEF NodeEvents
<1>3. CASE AppendScheduled
  <2> DEFINE type == IF hand.type = "scheduleWait" THEN "timer.waitScheduled" ELSE "node.retryScheduled"
             e == NodeEvent(type, hand.node, hand.att)
  <2>1. Logs(e) /\ fact' = fact /\ hand # NoCommand /\ pc = "pump"
    BY <1>3 DEF AppendScheduled, AppendAndFold
  <2>2. hand \in Command /\ Asked(hand)
    BY <1>a, <2>1 DEF TypeOK, QueueInv
  <2>3. /\ e \in Event /\ e.type \in {"timer.waitScheduled", "node.retryScheduled"} /\ e.node = hand.node
    BY <2>2, EventTypes DEF Command, NodeEvent, NodeEventType
  <2>4. hand.node # n
    BY <1>a, <2>1, <2>2, <2>3 DEF QueueInv, Asked
  <2> HIDE DEF e
  <2>5. Proper(e)
    BY <2>3 DEF Proper
  <2> QED BY <1>a, <1>b, <2>1, <2>3, <2>4, <2>5 DEF NodeEvents
<1>4. CASE Park \/ FinishRun
  <2>1. pc = "pump" /\ ending # "none"
    BY <1>4 DEF Park, FinishRun, Working
  <2> QED BY <1>a, <2>1 DEF QueueInv, EndMove, InFlight
<1>5. CASE PumpEnd \/ \E m \in Nodes : Spawn(m) \/ Arm(m)
  BY <1>0, <1>5 DEF PumpEnd, Spawn, Arm
<1>6. CASE PumpReturn
  BY <1>6 DEF PumpReturn
<1>7. CASE StreamSteps
  BY <1>0, <1>7, StreamsGoOn
<1>8. CASE \E m \in Nodes : FireAlarm(m)
  <2>1. PICK m \in Nodes : FireAlarm(m)
    BY <1>8
  <2>2. PICK a \in armed : a[1] = m /\ Fresh(m, a[2]) /\ Logs(DueEvent(m, a[2])) /\ fact' = fact
    BY <2>1 DEF FireAlarm
  <2>3. a[2] \in Nat
    BY DEF TypeOK
  <2> QED BY <1>a, <1>b, <2>2, <2>3, DueEventFacts DEF NodeEvents
<1>9. CASE StartSteps \/ LockSteps
  BY <1>a, <1>0, <1>9 DEF StartSteps, StartRefused, StartCancelled, StartContext, StartRun, Starting,
     LockSteps, Acquire, EnterCancel, EnterResume, Release, SyncRow
<1>10. CASE ReconcileSteps
  BY <1>a, <1>0, <1>10 DEF ReconcileSteps, RcResync, RcCancel, RcFinishCancelled, RcInterrupt, RcHold, RcResume,
     RcPump, Boot, BootDone, RcFailDispatched, RcRearm, RcRetry, Reconciling, RcUndecided, RcRecoverable
<1>11. CASE RequestCancel \/ LeaseReclaim \/ Mishaps \/ Over \/ UNCHANGED vars \/ \E m \in Nodes : SuppressAlarm(m)
  BY <1>0, <1>11 DEF SuppressAlarm, RequestCancel, LeaseReclaim, Mishaps, Crash, WriteThrows, StreamThrows, Over, vars
<1> QED BY <1>1, <1>2, <1>3, <1>4, <1>5, <1>6, <1>7, <1>8, <1>9, <1>10, <1>11 DEF Next, PumpSteps, AlarmSteps

LEMMA LiveStep ==
  ASSUME TypeOK, CancelInv, PumpInv, LifeInv, TrackInv, LiveInv, BegunInv, [Next]_vars
  PROVE  LiveInv'
<1> SUFFICES ASSUME NEW n \in Nodes, Live(n)'
             PROVE  /\ fact' = "none" /\ Backs(proj'.nodes[n], streams'[n])
                    /\ streams'[n].ph = "slot" => <<n, streams'[n].att>> \notin began'
  BY DEF LiveInv, Live
<1>0. streams \in [Nodes -> Stream] /\ streams[n].ph \in Phases /\ proj \in RunState /\ mem \in RunState
  BY DEF TypeOK, StreamsType, Stream
<1>1. CASE ~Live(n)
  <2>1. Spawn(n)
    BY <1>1, OnlySpawnStarts
  <2>2. PICK c \in todo :
          /\ c.type = "dispatchNode" /\ c.node = n
          /\ streams' = [streams EXCEPT ![n] = [NoStream EXCEPT !.ph = "queued", !.att = c.att]]
    BY <2>1 DEF Spawn
  <2>3. /\ Asked(c) /\ pc = "pump" /\ proj' = proj /\ fact' = fact
    BY <2>1 DEF PumpInv, QueueInv, Spawn, Working, durable
  <2>4. mem.status = "running" /\ mem.nodes[n].att = c.att /\ mem.nodes[n].st = "ready"
    BY <2>2, <2>3 DEF Asked
  <2>5. fact = "none"
    BY <2>3, <2>4 DEF LifeInv, FactInv, Terminal
  <2>6. proj.nodes[n] = mem.nodes[n]
    BY <2>3, <2>4, <2>5 DEF TrackInv, View, Related, Ahead
  <2>7. streams'[n].ph = "queued" /\ streams'[n].att = c.att
    BY <1>0, <2>2 DEF NoStream
  <2> QED BY <2>3, <2>4, <2>5, <2>6, <2>7 DEF Backs
<1>2. CASE Live(n) /\ ~Dispatches(n)
  <2>1. GoesOn(streams[n], streams'[n]) /\ fact' = "none" /\ proj'.nodes[n] = proj.nodes[n]
    BY <1>2, StreamGoesOn, LiveLog
  <2>2. Backs(proj'.nodes[n], streams'[n])
    BY <1>2, <2>1 DEF LiveInv, Backs, GoesOn
  <2>3. ASSUME streams'[n].ph = "slot"
        PROVE  <<n, streams'[n].att>> \notin began'
    <3>1. streams[n].ph = "slot" /\ <<n, streams[n].att>> \notin began /\ streams'[n].att = streams[n].att
      BY <1>2, <2>1, <2>3 DEF LiveInv, GoesOn
    <3>2. CASE \E m \in Nodes : StartAdapter(m)
      <4>1. PICK m \in Nodes : StartAdapter(m)
        BY <3>2
      <4>2. m # n
        BY <1>0, <2>3, <4>1 DEF StartAdapter, Stream
      <4> QED BY <3>1, <4>1, <4>2 DEF StartAdapter
    <3>3. CASE \A m \in Nodes : ~StartAdapter(m)
      BY <3>1, <3>3, OnlyAdaptersBegin
    <3> QED BY <3>2, <3>3
  <2> QED BY <2>1, <2>2, <2>3
<1>3. CASE Live(n) /\ Dispatches(n)
  <2> DEFINE e == NodeEvent("node.dispatched", n, streams[n].att)
  <2>1. /\ proj' = Reduce(proj, OfferedEvent(n)).state /\ fact' = fact /\ pc = "pump" /\ ending = "none"
        /\ streams' = [streams EXCEPT ![n] = [streams[n] EXCEPT !.ph = "slot"]] /\ began' = began
    BY <1>0, <1>3 DEF Dispatches, FoldStream, AppendAndFold, Logs, Waiting, QueueEmpty, history
  <2>2. /\ fact = "none" /\ proj.nodes[n].att = streams[n].att /\ proj.nodes[n].st = "ready"
    BY <1>3 DEF LiveInv, Backs, Dispatches
  <2>3. OfferedEvent(n) = e
    BY <1>3 DEF Dispatches, OfferedEvent
  <2>4. proj.status = "running"
    BY <1>3, <2>1, <2>2 DEF PumpInv, StreamInv, TrackInv
  <2>5. Reduce(proj, e) = OnDispatched(proj, n, streams[n].att)
    BY <2>4 DEF Reduce, ReduceLive, NodeEvent
  <2>6. proj' = WithNode(proj, n, "dispatched")
    BY <2>1, <2>2, <2>3, <2>5 DEF OnDispatched, Current, Only
  <2>7. proj'.nodes[n].st = "dispatched" /\ proj'.nodes[n].att = streams[n].att
    <3>1. "dispatched" \in NodeStatus
      BY DEF NodeStatus
    <3>2. Turns(proj.nodes[n], WithNode(proj, n, "dispatched").nodes[n], "dispatched")
      BY <1>0, <3>1, WithNodeTurns
    <3> QED BY <2>2, <2>6, <3>2 DEF Turns
  <2>8. streams'[n].ph = "slot" /\ streams'[n].att = streams[n].att
    BY <1>0, <2>1 DEF Stream
  <2>9. <<n, streams[n].att>> \notin began
    <3> SUFFICES ASSUME <<n, streams[n].att>> \in began PROVE FALSE
      OBVIOUS
    <3>1. BegunAt(proj.nodes[n], streams[n].att)
      BY DEF BegunInv
    <3> QED BY <2>2, <3>1 DEF BegunAt
  <2> QED BY <2>1, <2>2, <2>7, <2>8, <2>9 DEF Backs
<1> QED BY <1>1, <1>2, <1>3

LEMMA BegunStays ==
  ASSUME NEW p \in RunState, NEW q \in RunState, Sound(p), NEW e, NEW n \in Nodes, NodeMove(p, e, q, n),
         NEW k \in Nat, BegunAt(p.nodes[n], k)
  PROVE  BegunAt(q.nodes[n], k)
<1>1. /\ p.nodes[n].att \in Nat /\ q.nodes[n].att \in Nat
      /\ p.nodes[n].st = "pending" => p.nodes[n].att = 0
  BY DEF RunState, NodeState, Sound
<1> QED BY <1>1 DEF BegunAt, NodeMove, WalkMove, OwnMove, RunMove, Turns, Renews

LEMMA BegunStep ==
  ASSUME TypeOK, TypeOK', PumpInv, LiveInv, BegunInv, Step, [Next]_vars
  PROVE  BegunInv'
<1>0. proj \in RunState /\ proj' \in RunState /\ Sound(proj)
  BY DEF TypeOK, PumpInv
<1>1. ASSUME NEW a \in began
      PROVE  BegunAt(proj'.nodes[a[1]], a[2])
  <2>0. a[1] \in Nodes /\ a[2] \in Nat /\ BegunAt(proj.nodes[a[1]], a[2])
    BY DEF TypeOK, BegunInv
  <2>1. CASE proj' = proj
    BY <2>0, <2>1
  <2>2. ASSUME NEW e \in Event, Proper(e), proj' = Reduce(proj, e).state
        PROVE  BegunAt(proj'.nodes[a[1]], a[2])
    <3>1. NodeMove(proj, e, proj', a[1])
      BY <1>0, <2>0, <2>2, ReduceMoves
    <3> QED BY <1>0, <2>0, <3>1, BegunStays
  <2> QED BY <2>1, <2>2, LogStep
<1>2. ASSUME NEW a \in began', a \notin began
      PROVE  BegunAt(proj'.nodes[a[1]], a[2])
  <2>1. PICK n \in Nodes : StartAdapter(n)
    BY <1>2, OnlyAdaptersBegin
  <2>2. a = <<n, streams[n].att>> /\ streams[n].ph = "slot" /\ proj' = proj
    BY <1>2, <2>1 DEF StartAdapter, durable
  <2>3. proj.nodes[n].att = streams[n].att /\ proj.nodes[n].st = "dispatched" /\ streams[n].att \in Nat
    BY <2>2 DEF LiveInv, Live, Backs, TypeOK, StreamsType, Stream
  <2> QED BY <2>2, <2>3 DEF BegunAt
<1> QED BY <1>1, <1>2 DEF BegunInv

LEMMA AgainStep ==
  ASSUME TypeOK, LiveInv, AttemptOnce, [Next]_vars
  PROVE  AttemptOnce'
<1> USE DEF durable, alarms, queueing, pumping, cancels, history, counters, AttemptOnce
<1>1. CASE \E n \in Nodes : StartAdapter(n)
  <2>1. PICK n \in Nodes : StartAdapter(n)
    BY <1>1
  <2>2. streams[n].ph = "slot" /\ Live(n)
    BY <2>1 DEF StartAdapter, Live
  <2> QED BY <2>1, <2>2 DEF StartAdapter, LiveInv
<1>2. CASE UNCHANGED vars
  BY <1>2 DEF vars
<1>3. CASE StartSteps \/ LockSteps
  BY <1>3 DEF StartSteps, StartRefused, StartCancelled, StartContext, StartRun,
              LockSteps, Acquire, EnterCancel, EnterResume, Release, SyncRow
<1>4. CASE PumpSteps
  BY <1>4 DEF PumpSteps, AppendScheduled, Park, FinishRun, FoldMarker, PumpEnd,
              PumpReturn, Spawn, Arm, FoldStream
<1>5. CASE StreamSteps
  BY <1>1, <1>5 DEF StreamSteps, OpenStream, Preflight, AbortQueued, AdapterEnds, DropStream, StreamStep
<1>6. CASE AlarmSteps
  BY <1>6 DEF AlarmSteps, FireAlarm, SuppressAlarm
<1>7. CASE ReconcileSteps
  BY <1>7 DEF ReconcileSteps, RcResync, RcCancel, RcFinishCancelled, RcInterrupt, RcHold,
              RcResume, RcPump, Boot, BootDone, RcFailDispatched, RcRearm, RcRetry
<1>8. CASE RequestCancel \/ LeaseReclaim \/ Mishaps \/ Over
  BY <1>8 DEF RequestCancel, LeaseReclaim, Mishaps, Crash, WriteThrows, StreamThrows,
              Over, vars
<1> QED BY <1>2, <1>3, <1>4, <1>5, <1>6, <1>7, <1>8 DEF Next

-----------------------------------------------------------------------------
(* The alarms of the waits.                                                 *)

\* A wait on record has its alarm, which is armed before the wait is logged,
\* and a parked row has a wait on record.
ArmedInv ==
  /\ fact = "none" => \A w \in Nodes : proj.nodes[w].st = "wait_pending" =>
                        w \in Waits /\ <<w, proj.nodes[w].att>> \in armed
  /\ hand.type = "scheduleWait" => <<hand.node, hand.att>> \in armed
  /\ row = "waiting" /\ fact = "none" => \E w \in Nodes : proj.nodes[w].st = "wait_pending"

LEMMA OnlyAlarmsDisarm ==
  ASSUME [Next]_vars, \A m \in Nodes : ~FireAlarm(m) /\ ~SuppressAlarm(m)
  PROVE  armed \subseteq armed'
<1> USE DEF durable, alarms, queueing, pumping, cancels, history, counters
<1>1. CASE UNCHANGED vars
  BY <1>1 DEF vars
<1>2. CASE StartSteps
  BY <1>2 DEF StartSteps, StartRefused, StartCancelled, StartContext, StartRun
<1>3. CASE LockSteps
  BY <1>3 DEF LockSteps, Acquire, EnterCancel, EnterResume, Release, SyncRow
<1>4. CASE PumpSteps
  BY <1>4 DEF PumpSteps, AppendScheduled, Park, FinishRun, FoldMarker, PumpEnd,
              PumpReturn, Spawn, Arm, ArmAlarm, FoldStream
<1>5. CASE StreamSteps
  BY <1>5 DEF StreamSteps, OpenStream, Preflight, AbortQueued, StartAdapter, AdapterEnds, DropStream, StreamStep
<1>6. CASE AlarmSteps
  BY <1>6 DEF AlarmSteps
<1>7. CASE ReconcileSteps
  BY <1>7 DEF ReconcileSteps, RcResync, RcCancel, RcFinishCancelled, RcInterrupt, RcHold,
              RcResume, RcPump, Boot, BootDone, RcFailDispatched, RcRearm, RcRetry
<1>8. CASE RequestCancel \/ LeaseReclaim \/ Mishaps \/ Over
  BY <1>8 DEF RequestCancel, LeaseReclaim, Mishaps, Crash, WriteThrows, StreamThrows,
              Over, vars
<1> QED BY <1>1, <1>2, <1>3, <1>4, <1>5, <1>6, <1>7, <1>8 DEF Next

LEMMA OnlyArmsHand ==
  ASSUME [Next]_vars, \A m \in Nodes : ~Arm(m)
  PROVE  hand' \in {hand, NoCommand}
<1> USE DEF durable, alarms, queueing, pumping, cancels, history, counters
<1>1. CASE UNCHANGED vars
  BY <1>1 DEF vars
<1>2. CASE StartSteps
  BY <1>2 DEF StartSteps, StartRefused, StartCancelled, StartContext, StartRun
<1>3. CASE LockSteps
  BY <1>3 DEF LockSteps, Acquire, EnterCancel, EnterResume, Release, SyncRow
<1>4. CASE PumpSteps
  BY <1>4 DEF PumpSteps, AppendScheduled, Park, FinishRun, FoldMarker, PumpEnd,
              PumpReturn, Spawn, FoldStream
<1>5. CASE StreamSteps
  BY <1>5 DEF StreamSteps, OpenStream, Preflight, AbortQueued, StartAdapter, AdapterEnds, DropStream, StreamStep
<1>6. CASE AlarmSteps
  BY <1>6 DEF AlarmSteps, FireAlarm, SuppressAlarm
<1>7. CASE ReconcileSteps
  BY <1>7 DEF ReconcileSteps, RcResync, RcCancel, RcFinishCancelled, RcInterrupt, RcHold,
              RcResume, RcPump, Boot, BootDone, RcFailDispatched, RcRearm, RcRetry
<1>8. CASE RequestCancel \/ LeaseReclaim \/ Mishaps \/ Over
  BY <1>8 DEF RequestCancel, LeaseReclaim, Mishaps, Crash, WriteThrows, StreamThrows,
              Over, vars
<1> QED BY <1>1, <1>2, <1>3, <1>4, <1>5, <1>6, <1>7, <1>8 DEF Next

LEMMA WaitDue ==
  ASSUME NEW p \in RunState, p.status \in {"running", "waiting"}, NEW e, e.type = "timer.due",
         e.node \in Nodes, p.nodes[e.node].st = "wait_pending", p.nodes[e.node].att = e.att
  PROVE  Reduce(p, e).state.nodes[e.node].st = "success"
<1> DEFINE n == e.node
           u == UnparkIfWaiting(p)
           b == WithNode(u, n, "success")
<1>1. Reduce(p, e) = Settle(b)
  BY DEF Reduce, ReduceLive, UnparkEvents, OnWaitDue, Current
<1>2. u \in RunState /\ "success" \in NodeStatus
  BY UnparkType DEF NodeStatus
<1> HIDE DEF u
<1>3. b \in RunState /\ Turns(u.nodes[n], b.nodes[n], "success")
  BY <1>2, WithNodeTurns
<1>4. b.nodes[n].st = "success"
  BY <1>3 DEF Turns
<1> HIDE DEF b
<1>5. Settle(b).state = Walk(b) /\ ~Dead(b, n) /\ ~Startable(b, n)
  BY <1>4 DEF Settle, Dead, Startable
<1>6. Walk(b).nodes[n] = b.nodes[n]
  BY <1>3, <1>5, WalkStatus
<1> QED BY <1>1, <1>4, <1>5, <1>6

\* A wait is only logged by the pump that has armed its alarm, and only its
\* due event ends it.
LEMMA WaitMoves ==
  ASSUME TypeOK, PumpInv, Step, NEW w \in Nodes
  PROVE  /\ proj'.nodes[w].st = "wait_pending" =>
              \/ proj'.nodes[w] = proj.nodes[w]
              \/ hand = [type |-> "scheduleWait", node |-> w, att |-> proj'.nodes[w].att]
         /\ proj.nodes[w].st = "wait_pending" =>
              \/ proj'.nodes[w] = proj.nodes[w]
              \/ \E n \in Nodes, k \in Nat : Fires(n, k)
<1>0. proj \in RunState /\ Sound(proj)
  BY DEF TypeOK, PumpInv
<1>1. ASSUME NEW e \in Event, Proper(e), Logs(e)
      PROVE  /\ proj'.nodes[w].st = "wait_pending" =>
                  \/ proj'.nodes[w] = proj.nodes[w]
                  \/ e.type = "timer.waitScheduled" /\ e.node = w /\ proj'.nodes[w].att = e.att
             /\ proj.nodes[w].st = "wait_pending" => proj'.nodes[w] = proj.nodes[w] \/ e.type = "timer.due"
  <2>1. NodeMove(proj, e, proj', w)
    BY <1>0, <1>1, LogFacts
  <2> QED BY <2>1 DEF NodeMove, WalkMove, OwnMove, RunMove, Turns, Renews
<1>2. CASE Beside \/ Leaves \/ Loads \/ Resyncs \/ Resumes \/ Requeued \/ Refuses \/ Syncs
  BY <1>2 DEF Beside, Leaves, Loads, Resyncs, Resumes, Requeued, Refuses, Syncs
<1>3. CASE \E e \in Event : PumpFolds(e)
  BY <1>1, <1>3 DEF PumpFolds, FoldsOn, PumpEvents
<1>4. CASE \E e \in Event : JobFolds(e) \/ StartFolds(e)
  BY <1>1, <1>4 DEF JobFolds, StartFolds, FoldsOn
<1>5. CASE \E o \in {"success", "failure", "cancelled"} : Finishes(o)
  BY <1>1, <1>5, FinishedFacts DEF Finishes
<1>6. CASE Interrupts
  BY <1>1, <1>6, RunEventFacts DEF Interrupts, RunEventType
<1>7. CASE \E n \in Nodes, k \in Nat : Fires(n, k)
  BY <1>1, <1>7, DueEventFacts DEF Fires
<1> QED BY <1>2, <1>3, <1>4, <1>5, <1>6, <1>7 DEF Step

LEMMA ArmedStep ==
  ASSUME TypeOK, PumpInv, LifeInv, ParkInv, TrackInv, ArmedInv, Step, [Next]_vars
  PROVE  ArmedInv'
<1>0. /\ proj \in RunState /\ Sound(proj) /\ QueueInv /\ (fact' = "none" => fact = "none")
  BY LogStep DEF TypeOK, PumpInv
<1>1. ASSUME NEW w \in Nodes, fact' = "none", proj'.nodes[w].st = "wait_pending"
      PROVE  w \in Waits /\ <<w, proj'.nodes[w].att>> \in armed'
  <2>0. fact = "none"
    BY <1>0, <1>1
  <2>1. w \in Waits /\ <<w, proj'.nodes[w].att>> \in armed
    <3>1. CASE proj'.nodes[w] = proj.nodes[w]
      BY <1>1, <2>0, <3>1 DEF ArmedInv
    <3>2. CASE hand = [type |-> "scheduleWait", node |-> w, att |-> proj'.nodes[w].att]
      <4>1. hand.type = "scheduleWait" /\ hand.node = w /\ hand.att = proj'.nodes[w].att /\ hand # NoCommand
        BY <3>2 DEF NoCommand
      <4> QED BY <1>0, <4>1 DEF ArmedInv, QueueInv, Asked
    <3> QED BY <1>1, <3>1, <3>2, WaitMoves
  <2>2. CASE \A m \in Nodes : ~FireAlarm(m) /\ ~SuppressAlarm(m)
    BY <2>1, <2>2, OnlyAlarmsDisarm
  <2>3. ASSUME NEW m \in Nodes, SuppressAlarm(m)
        PROVE  <<w, proj'.nodes[w].att>> \in armed'
    <3>1. PICK a \in armed : a[1] = m /\ ~Fresh(m, a[2]) /\ armed' = armed \ {a} /\ proj' = proj
      BY <2>3 DEF SuppressAlarm, Settled, durable
    <3>2. a # <<w, proj'.nodes[w].att>>
      BY <1>1, <2>0, <2>1, <3>1 DEF Fresh, Current
    <3> QED BY <2>1, <3>1, <3>2
  <2>4. ASSUME NEW m \in Nodes, FireAlarm(m)
        PROVE  <<w, proj'.nodes[w].att>> \in armed'
    <3>1. PICK a \in armed : a[1] = m /\ Fresh(m, a[2]) /\ armed' = armed \ {a} /\ Logs(DueEvent(m, a[2]))
      BY <2>4 DEF FireAlarm, Settled
    <3>2. a # <<w, proj'.nodes[w].att>>
      <4> SUFFICES ASSUME m = w PROVE FALSE
        BY <3>1
      <4>1. a[2] \in Nat
        BY DEF TypeOK
      <4>2. /\ DueEvent(m, a[2]).node = m /\ DueEvent(m, a[2]).att = a[2]
            /\ DueEvent(m, a[2]).type = "timer.due"
        BY <2>1, <4>1, DueEventFacts
      <4>3. proj.nodes[m].st = "wait_pending" /\ proj.nodes[m].att = a[2]
        BY <2>1, <3>1 DEF Fresh, Current
      <4>4. proj.status \in {"running", "waiting"}
        BY <1>0, <2>0, <4>3 DEF LifeInv, FactInv, Sound, RunState, RunStatus, Terminal
      <4>5. proj'.nodes[m].st = "success"
        BY <1>0, <3>1, <4>2, <4>3, <4>4, WaitDue DEF Logs
      <4> QED BY <1>1, <4>5
    <3> QED BY <2>1, <3>1, <3>2
  <2> QED BY <2>1, <2>2, <2>3, <2>4
<1>2. ASSUME hand'.type = "scheduleWait"
      PROVE  <<hand'.node, hand'.att>> \in armed'
  <2>1. CASE \E m \in Nodes : Arm(m)
    <3>1. PICK m \in Nodes : Arm(m)
      BY <2>1
    <3>2. PICK c \in todo : c.node = m /\ ArmAlarm(m, c.att) /\ hand' = c
      BY <3>1 DEF Arm
    <3>3. c.type = "scheduleWait" /\ Asked(c)
      BY <1>0, <1>2, <3>2 DEF QueueInv
    <3>4. m \in Waits
      BY <3>2, <3>3 DEF Asked
    <3> QED BY <3>2, <3>4 DEF ArmAlarm
  <2>2. CASE \A m \in Nodes : ~Arm(m)
    <3>1. hand' = hand
      BY <1>2, <2>2, OnlyArmsHand DEF NoCommand
    <3>2. hand # NoCommand
      BY <1>2, <3>1 DEF NoCommand
    <3>3. pc = "pump"
      BY <1>0, <3>2 DEF QueueInv
    <3>4. ~AtAwait
      BY <3>2, <3>3 DEF AtAwait, Waiting, QueueEmpty
    <3>5. armed \subseteq armed'
      BY <3>4, OnlyAlarmsDisarm DEF FireAlarm, SuppressAlarm
    <3> QED BY <1>2, <3>1, <3>5 DEF ArmedInv
  <2> QED BY <2>1, <2>2
<1>3. ASSUME row' = "waiting", fact' = "none"
      PROVE  \E w \in Nodes : proj'.nodes[w].st = "wait_pending"
  <2>0. fact = "none"
    BY <1>0, <1>3
  <2>1. CASE Syncs
    <3>1. mem.status = "waiting" /\ dirty /\ proj' = proj
      BY <1>3, <2>1 DEF Syncs
    <3>2. pc \in {"enter", "reconcile", "pump"}
      BY <2>0, <3>1 DEF LifeInv, DirtyInv
    <3>3. proj.status = "waiting"
      BY <2>0, <3>1, <3>2 DEF LifeInv, ViewInv, TrackInv
    <3> QED BY <3>1, <3>3 DEF ParkInv, Parkable
  <2>2. ASSUME NEW n \in Nodes, NEW k \in Nat, Fires(n, k)
        PROVE  FALSE
    BY <1>3, <2>2, FiresRun DEF Fires
  <2>3. CASE ~Syncs
    <3>1. row = "waiting"
      BY <1>3, <2>2, <2>3 DEF Step, Beside, Leaves, Loads, Resyncs, Resumes, Requeued, Interrupts, Refuses,
           PumpFolds, JobFolds, StartFolds, FoldsOn, Finishes
    <3>2. PICK w \in Nodes : proj.nodes[w].st = "wait_pending"
      BY <2>0, <3>1 DEF ArmedInv
    <3> QED BY <2>2, <3>2, WaitMoves
  <2> QED BY <2>1, <2>3
<1> QED BY <1>1, <1>2, <1>3 DEF ArmedInv

-----------------------------------------------------------------------------
SoloInv ==
  /\ FineInv /\ ParkInv /\ TrackInv /\ SuccessIsEarned /\ DownInv /\ BehindInv
  /\ LiveInv /\ BegunInv /\ AttemptOnce /\ ArmedInv

LEMMA InitSoloInv == Init => SoloInv
<1> SUFFICES ASSUME Init PROVE SoloInv
  OBVIOUS
<1>1. /\ proj = Seed /\ mem = Seed /\ fact = "none" /\ row = "pending" /\ pc = "start" /\ up = "up"
      /\ ending = "none" /\ hand = NoCommand /\ began = {} /\ again = {} /\ streams = NoStreams
  BY DEF Init
<1>2. FineInv
  BY <1>1, SeedKept DEF FineInv, Loaded
<1>3. ParkInv /\ TrackInv /\ SuccessIsEarned /\ DownInv /\ BehindInv
  BY <1>1 DEF ParkInv, Seed, TrackInv, SuccessIsEarned, DownInv, BehindInv
<1>4. LiveInv /\ BegunInv /\ AttemptOnce
  BY <1>1 DEF LiveInv, Live, NoStreams, NoStream, BegunInv, AttemptOnce
<1>5. ArmedInv
  BY <1>1 DEF ArmedInv, Seed, NoCommand
<1> QED BY <1>2, <1>3, <1>4, <1>5 DEF SoloInv

LEMMA SoloStep ==
  ASSUME SoloWaits, DriveInv, DriveInv', SoloInv, [Next]_vars
  PROVE  SoloInv'
<1>1. /\ TypeOK /\ TypeOK' /\ CancelInv /\ PumpInv /\ PumpInv' /\ LifeInv
      /\ FineInv /\ ParkInv /\ TrackInv /\ SuccessIsEarned /\ DownInv /\ BehindInv
      /\ LiveInv /\ BegunInv /\ AttemptOnce /\ ArmedInv
  BY DEF DriveInv, SoloInv
<1>2. Step
  BY <1>1, StepKinds
<1>3. FineInv' /\ ParkInv' /\ TrackInv'
  BY <1>1, <1>2, FineStep, ParkStep, TrackStep
<1>4. SuccessIsEarned' /\ DownInv' /\ BehindInv'
  BY <1>1, <1>2, EarnedStep, DownStep, BehindStep
<1>5. LiveInv' /\ BegunInv' /\ AttemptOnce'
  BY <1>1, <1>2, LiveStep, BegunStep, AgainStep
<1>6. ArmedInv'
  BY <1>1, <1>2, ArmedStep
<1> QED BY <1>3, <1>4, <1>5, <1>6 DEF SoloInv

\* The inductive invariant behind the theorems below: the pump's own state
\* differs from the log only by what a fired retry or the start of its own
\* streams explains, and both know what was executed, armed and skipped.
THEOREM SoloInvariant ==
  ASSUME SoloWaits
  PROVE  Spec => []SoloInv
<1>1. Init => SoloInv
  BY InitSoloInv
<1>2. DriveInv /\ DriveInv' /\ SoloInv /\ [Next]_vars => SoloInv'
  BY SoloStep
<1> QED BY <1>1, <1>2, DriveInvariant, PTL DEF Spec

\* No attempt is executed twice: not by a drive queued behind a pump that has
\* not read the fired alarm, not by a boot after a crash, not by a reclaim.
THEOREM Once ==
  ASSUME SoloWaits
  PROVE  Spec => []AttemptOnce
<1>1. SoloInv => AttemptOnce
  BY DEF SoloInv
<1> QED BY <1>1, SoloInvariant, PTL

\* Once an adapter has started, the log holds its attempt as dispatched or
\* later, so that a crash at any point after the side effect leaves
\* reconcileRunningRun a node it recognises as begun.
THEOREM EffectsLogged ==
  ASSUME SoloWaits
  PROVE  Spec => []EffectLeavesDispatched
<1>1. SoloInv => EffectLeavesDispatched
  <2> SUFFICES ASSUME SoloInv, NEW n \in Nodes, <<n, proj.nodes[n].att>> \in began
               PROVE  proj.nodes[n].st \notin {"pending", "ready"}
    BY DEF EffectLeavesDispatched
  <2>1. BegunAt(proj.nodes[n], proj.nodes[n].att)
    BY DEF SoloInv, BegunInv
  <2> QED BY <2>1 DEF BegunAt
<1> QED BY <1>1, SoloInvariant, PTL

\* The row shows the end the log holds, and a success the pump decides on its
\* own state is one the log supports: all of its nodes succeeded there too.
THEOREM EndsTrue ==
  ASSUME SoloWaits
  PROVE  Spec => []EndIsTrue
<1>1. SoloInv /\ RowEndIsLogged => EndIsTrue
  BY DEF SoloInv, EndIsTrue
<1> QED BY <1>1, SoloInvariant, RowEnds, PTL

\* A waiting pump whose state the alarms have overtaken always has a drive
\* queued behind it in the lock that folds the log afresh: the alarm handler
\* enqueues one for every due event it appends.
THEOREM StaleDriven ==
  ASSUME SoloWaits
  PROVE  Spec => []StaleHasDrive
<1>1. DriveInv /\ SoloInv => StaleHasDrive
  <2> SUFFICES ASSUME DriveInv, SoloInv, Waiting, mem.cancel = "none", mem.nodes # proj.nodes
               PROVE  DriveQueued
    BY DEF StaleHasDrive, DriveQueued
  <2>1. pc = "pump" /\ fact = "none"
    BY DEF Waiting, DriveInv, LifeInv, FactInv
  <2>2. PICK n \in Nodes : mem.nodes[n] # proj.nodes[n]
    BY DEF DriveInv, TypeOK, RunState
  <2>3. Ahead(mem.nodes[n], proj.nodes[n])
    BY <2>1, <2>2 DEF SoloInv, TrackInv, View, Related
  <2> QED BY <2>1, <2>3 DEF SoloInv, BehindInv
<1> QED BY <1>1, DriveInvariant, SoloInvariant, PTL

\* A parked run that nobody drives holds a pending alarm of the current attempt
\* of a node the log shows waiting: reconcileOnBoot may skip waiting rows.
THEOREM ParkedWakes ==
  ASSUME SoloWaits
  PROVE  Spec => []WaitingHasLiveAlarm
<1>1. SoloInv => WaitingHasLiveAlarm
  <2> SUFFICES ASSUME SoloInv, row = "waiting", fact = "none"
               PROVE  \E a \in armed : Fresh(a[1], a[2])
    BY DEF WaitingHasLiveAlarm
  <2>1. PICK w \in Nodes : proj.nodes[w].st = "wait_pending"
    BY DEF SoloInv, ArmedInv
  <2>2. w \in Waits /\ <<w, proj.nodes[w].att>> \in armed
    BY <2>1 DEF SoloInv, ArmedInv
  <2>3. Fresh(w, proj.nodes[w].att)
    BY <2>1, <2>2 DEF Fresh, Current
  <2> QED BY <2>2, <2>3
<1> QED BY <1>1, SoloInvariant, PTL

=============================================================================
