----------------------------- MODULE KeyedQueue -----------------------------
(***************************************************************************)
(* One key of util/keyed-queue.ts: a chain of promises behind a map entry  *)
(* that holds the chain's tail and is dropped when the chain drains.  A    *)
(* ticket is a submission, numbered in submission order; `prev` is the     *)
(* tail it was chained to, 0 when the key had no entry.  Keys share        *)
(* nothing.  A ticket of `run` is an acquire nobody aborts.                *)
(***************************************************************************)
EXTENDS Integers

CONSTANT MaxTickets   \* bound of the instance

ASSUME QueueAssumption == MaxTickets \in Nat

Tickets == 1..MaxTickets

VARIABLES
  count,     \* tickets submitted so far
  tail,      \* the map entry of the key: a ticket, 0 when absent
  ticket,    \* [Tickets -> [st, prev]]
  rejected,  \* tickets whose acquire was rejected
  swept      \* tickets whose settled guard has run its map clean-up

queueVars == <<count, tail, ticket, rejected, swept>>

\* Mutant of Cleared: the entry is dropped whoever the tail is.
ClearedBlindly(t) == 0

\* The entry goes only if no later submission has replaced the tail.
Cleared(t) == IF tail = t THEN 0 ELSE tail

Submit ==
  /\ count < MaxTickets /\ count' = count + 1 /\ tail' = count + 1
  /\ ticket' = [ticket EXCEPT ![count + 1] = [st |-> "queued", prev |-> tail]]
  /\ UNCHANGED <<rejected, swept>>

\* An abort while queued rejects at once; once granted it does nothing here.
Abort(t) ==
  /\ ticket[t].st = "queued" /\ rejected' = rejected \cup {t}
  /\ UNCHANGED <<count, tail, ticket, swept>>

\* The predecessor's guard has settled, or there was none.
Turn(t) == ticket[t].prev \in {0} \cup {u \in Tickets : ticket[u].st = "done"}

\* Mutant of Granted: an aborted ticket stops instead of handing the slot on.
GrantedOrStuck(t) == IF t \in rejected THEN "rejected" ELSE "held"

Granted(t) == IF t \in rejected THEN "done" ELSE "held"

\* The queued function runs: an aborted ticket gives its slot straight back.
Enter(t) ==
  /\ ticket[t].st = "queued" /\ Turn(t)
  /\ ticket' = [ticket EXCEPT ![t].st = Granted(t)]
  /\ UNCHANGED <<count, tail, rejected, swept>>

\* The holder releases, or its task settles either way.
ReleaseSlot(t) ==
  /\ ticket[t].st = "held"
  /\ ticket' = [ticket EXCEPT ![t].st = "done"]
  /\ UNCHANGED <<count, tail, rejected, swept>>

\* The settled guard's clean-up, a microtask of its own.
ClearEntry(t) ==
  /\ ticket[t].st = "done" /\ t \notin swept
  /\ swept' = swept \cup {t} /\ tail' = Cleared(t)
  /\ UNCHANGED <<count, ticket, rejected>>

QueueInit ==
  /\ count = 0 /\ tail = 0 /\ rejected = {} /\ swept = {}
  /\ ticket = [t \in Tickets |-> [st |-> "free", prev |-> 0]]

QueueNext ==
  Submit \/ \E t \in Tickets : Abort(t) \/ Enter(t) \/ ReleaseSlot(t) \/ ClearEntry(t)

QueueSpec == QueueInit /\ [][QueueNext]_queueVars

\* Microtasks run, and a holder's `finally` releases.
QueueFairness ==
  \A t \in Tickets : WF_queueVars(Enter(t)) /\ WF_queueVars(ReleaseSlot(t))

-----------------------------------------------------------------------------

\* Every variable of the queue keeps its type.
QueueTypeOK ==
  /\ count \in 0..MaxTickets /\ tail \in 0..MaxTickets /\ rejected \subseteq Tickets
  /\ swept \subseteq Tickets
  /\ ticket \in [Tickets -> [st : {"free", "queued", "held", "done"}, prev : 0..MaxTickets]]

\* The slot is held by one ticket at a time and in submission order, although
\* tickets are aborted while they wait and the map entry comes and goes: a
\* ticket holds or has held the slot only when every earlier one is done.
OneHolderInOrder ==
  \A t \in Tickets : ticket[t].st \in {"held", "done"} =>
    \A u \in 1..(t - 1) : ticket[u].st = "done"

\* A rejected acquire never gets the slot: rejection means "aborted while
\* waiting", and nothing else.
RejectedNeverHolds ==
  \A t \in rejected : ticket[t].st \in {"queued", "done"}

\* Every ticket is done in the end: an aborted one blocks nobody behind it.
EveryTicketIsServed ==
  \A t \in Tickets : ticket[t].st = "queued" ~> ticket[t].st = "done"
=============================================================================
