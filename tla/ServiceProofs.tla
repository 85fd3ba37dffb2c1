--------------------------- MODULE ServiceProofs ----------------------------
(***************************************************************************)
(* The keyed queue, the delivery ledger, the quota reader, the run lease   *)
(* and the external wait for any number of tickets, keys, deliveries,      *)
(* failures, windows, drives, attempts, crashes and clock steps.           *)
(***************************************************************************)
EXTENDS KeyedQueue, DeliveryLedger, QuotaReader, RunLease, ExternalWait, TLAPS

-----------------------------------------------------------------------------
(* The keyed queue.  The map entry is either the last ticket or, once that *)
(* one is done, absent: so a ticket is chained to its direct predecessor   *)
(* or was submitted when every earlier one was done.                       *)

Chained ==
  \A t \in Tickets :
    /\ ticket[t].st = "free" <=> t > count
    /\ t <= count =>
         \/ ticket[t].prev = t - 1
         \/ ticket[t].prev = 0 /\ \A u \in 1..(t - 1) : ticket[u].st = "done"

TailIsLast ==
  /\ tail \in {0, count}
  /\ tail = 0 => \A t \in 1..count : ticket[t].st = "done"

\* The inductive invariant of the queue.
QueueInv == QueueTypeOK /\ Chained /\ TailIsLast /\ OneHolderInOrder /\ RejectedNeverHolds

\* Each step of the queue keeps its invariant.
LEMMA QueueInvStep == QueueInv /\ [QueueNext]_queueVars => QueueInv'
<1> SUFFICES ASSUME QueueInv, [QueueNext]_queueVars PROVE QueueInv'
  OBVIOUS
<1> USE QueueAssumption
    DEF QueueInv, QueueTypeOK, Chained, TailIsLast, OneHolderInOrder, RejectedNeverHolds, Tickets
<1>1. CASE Submit
  <2>1. /\ count + 1 \in 1..MaxTickets /\ count' = count + 1 /\ tail' = count + 1
        /\ UNCHANGED <<rejected, swept>>
        /\ ticket' = [ticket EXCEPT ![count + 1] = [st |-> "queued", prev |-> tail]]
    BY <1>1 DEF Submit
  <2>2. /\ ticket'[count + 1] = [st |-> "queued", prev |-> tail]
        /\ \A t \in 1..MaxTickets : t # count + 1 => ticket'[t] = ticket[t]
    BY <2>1
  <2>3. QueueTypeOK'
    BY <2>1
  <2>4. Chained'
    BY <2>1, <2>2
  <2>5. TailIsLast'
    BY <2>1
  <2>6. ticket[count + 1].st = "free"
    BY <2>1
  <2>7. OneHolderInOrder' /\ RejectedNeverHolds'
    BY <2>1, <2>2, <2>6
  <2>8. QED
    BY <2>3, <2>4, <2>5, <2>7
<1>2. ASSUME NEW t \in Tickets, Abort(t)
      PROVE  QueueInv'
  <2>1. /\ ticket[t].st = "queued" /\ UNCHANGED <<count, tail, ticket, swept>>
        /\ rejected' = rejected \cup {t}
    BY <1>2 DEF Abort
  <2>2. QED
    BY <2>1
<1>3. ASSUME NEW t \in Tickets, Enter(t)
      PROVE  QueueInv'
  <2>1. /\ ticket[t].st = "queued" /\ UNCHANGED <<count, tail, rejected, swept>>
        /\ ticket[t].prev \in {0} \cup {u \in 1..MaxTickets : ticket[u].st = "done"}
        /\ ticket' = [ticket EXCEPT ![t].st = Granted(t)]
        /\ Granted(t) \in {"held", "done"} /\ (t \in rejected => Granted(t) = "done")
    BY <1>3 DEF Enter, Turn, Granted
  <2>2. /\ ticket'[t].st = Granted(t) /\ ticket'[t].prev = ticket[t].prev
        /\ \A u \in 1..MaxTickets : u # t => ticket'[u] = ticket[u]
    BY <2>1
  <2>3. t <= count /\ \A u \in 1..(t - 1) : ticket[u].st = "done"
    <3>1. t <= count
      BY <2>1
    <3>2. CASE ticket[t].prev = 0 /\ ticket[t].prev # t - 1
      BY <3>1, <3>2
    <3>3. CASE ticket[t].prev = t - 1
      BY <2>1, <3>3
    <3>4. QED
      BY <3>1, <3>2, <3>3
  <2>4. QueueTypeOK'
    BY <2>1
  <2>5. Chained' /\ TailIsLast'
    BY <2>1, <2>2
  <2>6. OneHolderInOrder' /\ RejectedNeverHolds'
    BY <2>1, <2>2, <2>3
  <2>7. QED
    BY <2>4, <2>5, <2>6
<1>4. ASSUME NEW t \in Tickets, ReleaseSlot(t)
      PROVE  QueueInv'
  <2>1. /\ ticket[t].st = "held" /\ UNCHANGED <<count, tail, rejected, swept>>
        /\ ticket' = [ticket EXCEPT ![t].st = "done"]
    BY <1>4 DEF ReleaseSlot
  <2>2. /\ ticket'[t].st = "done" /\ ticket'[t].prev = ticket[t].prev
        /\ \A u \in 1..MaxTickets : u # t => ticket'[u] = ticket[u]
    BY <2>1
  <2>3. QueueTypeOK'
    BY <2>1
  <2>4. QED
    BY <2>1, <2>2, <2>3
<1>5. ASSUME NEW t \in Tickets, ClearEntry(t)
      PROVE  QueueInv'
  <2>1. /\ ticket[t].st = "done" /\ UNCHANGED <<count, ticket, rejected>>
        /\ swept' = swept \cup {t} /\ tail' = IF tail = t THEN 0 ELSE tail
    BY <1>5 DEF ClearEntry, Cleared
  <2>2. CASE tail = t
    <3>1. t = count /\ tail' = 0
      BY <2>1, <2>2
    <3>2. \A u \in 1..count : ticket[u].st = "done"
      BY <2>1, <3>1
    <3>3. QED
      BY <2>1, <3>1, <3>2
  <2>3. CASE tail # t
    BY <2>1, <2>3
  <2>4. QED
    BY <2>2, <2>3
<1>6. CASE UNCHANGED queueVars
  BY <1>6 DEF queueVars
<1>7. QED
  BY <1>1, <1>2, <1>3, <1>4, <1>5, <1>6 DEF QueueNext

\* The slot of util/keyed-queue.ts is held by one ticket at a time, in
\* submission order, and never by an aborted one.
THEOREM QueueSafe == QueueSpec => [](QueueTypeOK /\ OneHolderInOrder /\ RejectedNeverHolds)
<1>1. QueueInit => QueueInv
  BY QueueAssumption
  DEF QueueInit, QueueInv, QueueTypeOK, Chained, TailIsLast, OneHolderInOrder,
      RejectedNeverHolds, Tickets
<1>2. QueueInv => QueueTypeOK /\ OneHolderInOrder /\ RejectedNeverHolds
  BY DEF QueueInv
<1>3. QED
  BY <1>1, <1>2, QueueInvStep, PTL DEF QueueSpec


-----------------------------------------------------------------------------
(* The delivery ledger.  A free key has at most as many launches as        *)
(* outcomes that could not be written, and only a call that has launched   *)
(* and not yet written its outcome is one ahead.                           *)

CallHoldsClaim ==
  ~At("idle") =>
    /\ call.key \in Keys /\ entry[call.key] = "pending"
    /\ ~At("launched") => launched[call.key] <= unwritten[call.key]

FreeIsUnlaunched == \A k \in Keys : entry[k] = "none" => launched[k] <= unwritten[k]

\* The inductive invariant of the ledger.
LedgerInv ==
  LedgerTypeOK /\ CallHoldsClaim /\ FreeIsUnlaunched /\ LaunchedOncePerWrite /\ ClaimIsDecidedOrFreed

\* The call in progress, when there is one, is a record of a key and a phase.
LEMMA CallShape ==
  ASSUME LedgerTypeOK, ~At("idle")
  PROVE  call \in [key : Keys, ph : {"claimed", "launched", "declined", "refused", "release"}]
BY DEF LedgerTypeOK, At, Idle

\* Each step of the ledger keeps its invariant and what is decided.
LEMMA LedgerInvStep ==
  ASSUME LedgerInv, LedgerNext
  PROVE  LedgerInv' /\ \A k \in Keys : entry[k] = "final" => entry'[k] = "final" /\ launched'[k] = launched[k]
<1> DEFINE Kept == \A k \in Keys : entry[k] = "final" => entry'[k] = "final" /\ launched'[k] = launched[k]
<1> USE LedgerAssumption
    DEF LedgerInv, LedgerTypeOK, CallHoldsClaim, FreeIsUnlaunched, LaunchedOncePerWrite,
        ClaimIsDecidedOrFreed, At, Idle
<1>0. ~At("idle") =>
        call \in [key : Keys, ph : {"claimed", "launched", "declined", "refused", "release"}]
  BY CallShape
<1>1. ASSUME NEW k \in Keys, Gated(k) \/ Deliver(k)
      PROVE  LedgerInv' /\ Kept
  <2>1. CASE Gated(k)
    BY <1>0, <2>1 DEF Gated
  <2>2. CASE Deliver(k) /\ Claim(k)
    BY <1>0, <2>2 DEF Deliver, Claim
  <2>3. CASE Deliver(k) /\ ~Claim(k)
    BY <1>0, <2>3 DEF Deliver, Claim
  <2>4. QED
    BY <1>1, <2>1, <2>2, <2>3
<1>2. CASE FireLaunches
  BY <1>0, <1>2 DEF FireLaunches, Step
<1>3. CASE FireDeclines
  BY <1>0, <1>3 DEF FireDeclines, Step
<1>4. CASE FireUndecided
  BY <1>0, <1>4 DEF FireUndecided, Step
<1>5. CASE Finalize
  BY <1>0, <1>5 DEF Finalize, Finalized
<1>6. CASE ReleaseClaim
  BY <1>0, <1>6 DEF ReleaseClaim
<1>7. CASE FinalizeThrows
  <2>1. CASE At("refused")
    BY <1>0, <1>7, <2>1 DEF FinalizeThrows, Finalized, Fail
  <2>2. CASE At("launched")
    BY <1>0, <1>7, <2>2 DEF FinalizeThrows, Finalized, Fail, Step
  <2>3. CASE At("declined")
    BY <1>0, <1>7, <2>3 DEF FinalizeThrows, Finalized, Fail, Step
  <2>4. QED
    BY <1>7, <2>1, <2>2, <2>3 DEF FinalizeThrows, Finalized
<1>8. CASE ReleaseThrows
  BY <1>0, <1>8 DEF ReleaseThrows, Fail
<1>9. CASE BeginStop \/ ServerCrash \/ Restart
  BY <1>0, <1>9 DEF BeginStop, ServerCrash, Restart, Fail
<1>10. QED
  BY <1>1, <1>2, <1>3, <1>4, <1>5, <1>6, <1>7, <1>8, <1>9 DEF LedgerNext

\* For any keys, deliveries, crashes and failing writes: a key launches one
\* run plus one for each outcome that could not be written, a claim is being
\* worked on or was cut short, and a decided key stays decided.
THEOREM LedgerSafe ==
  LedgerSpec => [](LaunchedOncePerWrite /\ ClaimIsDecidedOrFreed) /\ DecidedIsFinal
<1> DEFINE Kept == \A k \in Keys : entry[k] = "final" => entry'[k] = "final" /\ launched'[k] = launched[k]
<1>1. LedgerInit => LedgerInv
  BY LedgerAssumption
  DEF LedgerInit, LedgerInv, LedgerTypeOK, CallHoldsClaim, FreeIsUnlaunched, LaunchedOncePerWrite,
      ClaimIsDecidedOrFreed, At, Idle
<1>2. LedgerInv /\ [LedgerNext]_ledgerVars => LedgerInv'
  <2>1. CASE LedgerNext
    BY <2>1, LedgerInvStep
  <2>2. CASE UNCHANGED ledgerVars
    BY <2>2
    DEF ledgerVars, LedgerInv, LedgerTypeOK, CallHoldsClaim, FreeIsUnlaunched,
        LaunchedOncePerWrite, ClaimIsDecidedOrFreed, At
  <2>3. QED
    BY <2>1, <2>2
<1>3. LedgerInv /\ [LedgerNext]_ledgerVars => [Kept]_ledgerVars
  BY LedgerInvStep
<1>4. LedgerInv => LaunchedOncePerWrite /\ ClaimIsDecidedOrFreed
  BY DEF LedgerInv
<1>5. QED
  BY <1>1, <1>2, <1>3, <1>4, PTL DEF LedgerSpec, DecidedIsFinal

\* A claim nobody is working on was left by a call that was cut short: a
\* transient refusal of any delivery never makes its retry a duplicate.
THEOREM ClaimsEnd == LedgerSpec => []ClaimIsDecidedOrFreed
BY LedgerSafe, PTL

-----------------------------------------------------------------------------
(* The quota reader.                                                       *)

\* The window is wide only under a limit, whose sample is never a reading.
WindowInv ==
  /\ throttle \in Ttl..Cap
  /\ ~limited => throttle = Ttl
  /\ cached = "value" => throttle = Ttl

\* The inductive invariant of the reader.
QuotaInv == QuotaTypeOK /\ ServedIsFresh /\ WindowInv

\* Each step of the reader keeps its invariant, and none but a reading ends the
\* limit or shortens the window.
LEMMA QuotaInvStep ==
  ASSUME QuotaInv, QuotaNext
  PROVE  QuotaInv' /\ (limited /\ cached' # "value" => limited' /\ throttle' >= throttle)
<1> USE QuotaAssumption DEF QuotaInv, QuotaTypeOK, ServedIsFresh, WindowInv, NoFlight
<1>1. CASE ReadHits
  BY <1>1 DEF ReadHits, Hit
<1>2. CASE ReadSamples
  BY <1>2 DEF ReadSamples
<1>3. CASE SampleEnds
  <2>1. PICK out \in {"value", "limited", "failed"} :
          /\ cached' = out /\ cachedAt' = flight /\ flight' = NoFlight /\ flight # NoFlight
          /\ ApplyOutcome(out) /\ UNCHANGED <<now, served>>
    BY <1>3, Zenon DEF SampleEnds
  <2>2. limited' \in BOOLEAN
    BY <2>1 DEF ApplyOutcome
  <2>3. CASE out = "value"
    BY <2>1, <2>2, <2>3 DEF ApplyOutcome
  <2>4. CASE out = "limited"
    <3>1. limited'
      BY <2>1, <2>4, Zenon DEF ApplyOutcome
    <3>2. throttle' = Widened(throttle)
      BY <2>1, <2>4 DEF ApplyOutcome
    <3>3. throttle' \in Ttl..Cap /\ throttle' >= throttle
      BY <3>2 DEF Widened
    <3>4. QuotaTypeOK' /\ ServedIsFresh'
      BY <2>1, <2>2, <2>4, <3>3
    <3>5. WindowInv'
      BY <2>1, <2>4, <3>1, <3>3
    <3>6. QED
      BY <3>1, <3>3, <3>4, <3>5
  <2>5. CASE out = "failed"
    <3>1. limited' = limited /\ throttle' = throttle
      BY <2>1, <2>5, Zenon DEF ApplyOutcome
    <3>2. QuotaInv'
      BY <2>1, <2>2, <2>5, <3>1
    <3>3. limited => limited'
      BY <3>1, Zenon
    <3>4. throttle' >= throttle
      BY <3>1
    <3>5. QED
      BY <3>2, <3>3, <3>4
  <2>6. QED
    BY <2>1, <2>3, <2>4, <2>5
<1>4. CASE ClockMoves
  BY <1>4 DEF ClockMoves
<1>5. QED
  BY <1>1, <1>2, <1>3, <1>4 DEF QuotaNext

\* For any window, cap and movement of the clock: a reading is served fresh, and
\* the window stays between its bounds, holds while the provider limits and is
\* reset by the reading that ends the limit (QuotaReader.read).
THEOREM QuotaSafe == QuotaSpec => []ServedIsFresh /\ WindowFollowsLimit
<1>1. ASSUME QuotaInit PROVE QuotaInv
  <2>1. limited \in BOOLEAN
    BY <1>1, Zenon DEF QuotaInit
  <2>2. QED
    BY <1>1, <2>1, QuotaAssumption
    DEF QuotaInit, QuotaInv, QuotaTypeOK, ServedIsFresh, WindowInv, NoFlight
<1>2. QuotaInv /\ [QuotaNext]_quotaVars => QuotaInv'
  <2>1. CASE QuotaNext
    BY <2>1, QuotaInvStep
  <2>2. CASE UNCHANGED quotaVars
    BY <2>2 DEF quotaVars, QuotaInv, QuotaTypeOK, ServedIsFresh, WindowInv
  <2>3. QED
    BY <2>1, <2>2
<1>3. QuotaInv /\ [QuotaNext]_quotaVars =>
        [/\ throttle' \in Ttl..Cap
         /\ limited /\ cached' # "value" => limited' /\ throttle' >= throttle
         /\ ~limited' => throttle' = Ttl]_quotaVars
  <2>1. QuotaInv' => throttle' \in Ttl..Cap /\ (~limited' => throttle' = Ttl)
    BY DEF QuotaInv, WindowInv
  <2>2. QED
    BY <2>1, QuotaInvStep
<1>4. QuotaInv => ServedIsFresh
  BY DEF QuotaInv
<1>5. QED
  BY <1>1, <1>2, <1>3, <1>4, PTL DEF QuotaSpec, WindowFollowsLimit

-----------------------------------------------------------------------------
(* The run lease.  The properties rest on how generations are ordered: a   *)
(* running row's lease is the largest generation ever armed, a spent       *)
(* generation lies strictly below anything granted now, and while a        *)
(* reclaim works no generation lies above the time it began.               *)

GensInPast ==
  /\ \A g \in pending : g <= clock + TTL
  /\ \A g \in spent : g < clock + TTL

LeaseIsNewest ==
  runRow = "running" =>
    /\ lease \in Nat /\ lease <= clock + TTL
    /\ \A g \in Gens : g <= lease

ReclaimIsNewest ==
  reclaim.ph = "working" => reclaim.at <= clock /\ \A g \in Gens : g <= reclaim.at

\* The inductive invariant.
LeaseInv ==
  LeaseTypeOK /\ GensInPast /\ LeaseIsNewest /\ ReclaimIsNewest /\ LiveLeaseUnspent

-----------------------------------------------------------------------------
\* The first state has no lease, no alarm and no reclaim.
LEMMA LeaseInvInit == LeaseInit => LeaseInv
  BY LeaseAssumption
  DEF LeaseInit, LeaseInv, LeaseTypeOK, GensInPast, LeaseIsNewest, ReclaimIsNewest,
      LiveLeaseUnspent, NoLease, NoReclaim, Gens

\* The sweep: a renewal moves the lease to the newest possible generation, a
\* bump moves it past every generation there is.
LEMMA SweepKeepsInv == LeaseInv /\ Sweep => LeaseInv'
<1> SUFFICES ASSUME LeaseInv, Sweep PROVE LeaseInv'
  OBVIOUS
<1> USE LeaseAssumption DEF LeaseInv, LeaseTypeOK, NoLease, Gens
<1>1. clock' = clock /\ runRow' = runRow /\ chain' = chain /\ reclaim' = reclaim
      /\ crashes' = crashes /\ proc' = "up"
  BY DEF Sweep
<1>2. CASE runRow # "running" \/ reclaim.ph # "none"
  <2>1. UNCHANGED <<lease, beat, pending, spent>>
    BY <1>2 DEF Sweep, SweepOne
  <2>2. QED
    BY <1>1, <2>1 DEF GensInPast, LeaseIsNewest, ReclaimIsNewest, LiveLeaseUnspent
<1>3. CASE runRow = "running" /\ reclaim.ph = "none" /\ chain # <<>>
  <2>1. Renew
    BY <1>3 DEF Sweep, SweepOne
  <2>2. CASE lease = clock + TTL
    <3>1. /\ beat' = clock /\ lease' = clock + TTL /\ spent' = spent
          /\ pending' \subseteq pending \cup {clock + TTL}
      BY <2>1, <2>2 DEF Renew, Armed
    <3>2. QED
      BY <1>1, <1>3, <2>2, <3>1
      DEF GensInPast, LeaseIsNewest, ReclaimIsNewest, LiveLeaseUnspent
  <2>3. CASE lease # clock + TTL /\ clock + TTL \in Gens
    <3>1. UNCHANGED <<beat, lease, pending, spent>>
      BY <1>3, <2>1, <2>3 DEF Renew, LeaseIsNewest
    <3>2. QED
      BY <1>1, <3>1 DEF GensInPast, LeaseIsNewest, ReclaimIsNewest, LiveLeaseUnspent
  <2>4. CASE lease # clock + TTL /\ clock + TTL \notin Gens
    <3>1. /\ beat' = clock /\ lease' = clock + TTL
          /\ pending' \subseteq pending \cup {clock + TTL}
          /\ spent' \subseteq spent \cup {lease}
      BY <1>3, <2>1, <2>4 DEF Renew, LeaseIsNewest
    <3>2. lease \in Nat /\ lease < clock + TTL
      BY <1>3, <2>4 DEF LeaseIsNewest
    <3>3. QED
      BY <1>1, <1>3, <2>4, <3>1, <3>2
      DEF GensInPast, LeaseIsNewest, ReclaimIsNewest, LiveLeaseUnspent
  <2>5. QED
    BY <2>2, <2>3, <2>4
<1>4. CASE runRow = "running" /\ reclaim.ph = "none" /\ chain = <<>>
  <2>1. Watch
    BY <1>4 DEF Sweep, SweepOne
  <2>2. CASE lease > clock /\ lease \notin spent
    <3>1. UNCHANGED <<beat, spent, lease>> /\ pending' = pending \cup {lease}
      BY <2>1, <2>2 DEF Watch
    <3>2. QED
      BY <1>1, <1>4, <3>1
      DEF GensInPast, LeaseIsNewest, ReclaimIsNewest, LiveLeaseUnspent
  <2>3. CASE ~(lease > clock /\ lease \notin spent)
    <3>1. lease \in Nat /\ lease <= clock
      BY <1>4, <2>3 DEF LeaseIsNewest, LiveLeaseUnspent
    <3>2. /\ BumpTo \in Nat /\ BumpTo > lease /\ BumpTo >= clock
          /\ BumpTo <= clock + TTL
      BY <3>1 DEF BumpTo
    <3>3. UNCHANGED <<beat, spent>> /\ lease' = BumpTo
          /\ pending' \subseteq pending \cup {BumpTo}
      BY <2>1, <2>3 DEF Watch, Armed
    <3>4. QED
      BY <1>1, <1>4, <3>1, <3>2, <3>3
      DEF GensInPast, LeaseIsNewest, ReclaimIsNewest, LiveLeaseUnspent
  <2>4. QED
    BY <2>2, <2>3
<1>5. QED
  BY <1>2, <1>3, <1>4

\* A settled alarm moves a due generation from pending to spent.
LEMMA SettleKeepsInv ==
  ASSUME LeaseInv, NEW g \in pending, FireLease(g) \/ SuppressLease(g)
  PROVE  LeaseInv'
<1> USE LeaseAssumption DEF LeaseInv, LeaseTypeOK, NoLease, Gens
<1>1. /\ g \in Nat /\ g <= clock
      /\ pending' = pending \ {g} /\ spent' = spent \cup {g}
      /\ UNCHANGED <<clock, runRow, lease, beat, proc, crashes>>
  BY DEF FireLease, SuppressLease, Settle
<1>2. /\ chain' \in Seq({"drive", "reclaim"})
      /\ reclaim' = reclaim \/ reclaim' = [ph |-> "queued", at |-> 0]
  BY DEF FireLease, SuppressLease
<1>3. LeaseTypeOK'
  BY <1>1, <1>2
<1>4. GensInPast' /\ LeaseIsNewest' /\ LiveLeaseUnspent'
  BY <1>1 DEF GensInPast, LeaseIsNewest, LiveLeaseUnspent
<1>5. ReclaimIsNewest'
  BY <1>1, <1>2 DEF ReclaimIsNewest
<1>6. QED
  BY <1>3, <1>4, <1>5

\* The reclaim begins on a lease that has run out, so every generation lies
\* at or below its time, and a held run is granted one above them all.
LEMMA ReclaimKeepsInv ==
  LeaseInv /\ (BeginReclaim \/ ReclaimHeld \/ ReclaimMoves \/ ReclaimLeaves) => LeaseInv'
<1> SUFFICES ASSUME LeaseInv, BeginReclaim \/ ReclaimHeld \/ ReclaimMoves \/ ReclaimLeaves
             PROVE LeaseInv'
  OBVIOUS
<1> USE LeaseAssumption DEF LeaseInv, LeaseTypeOK, NoLease, Gens
<1>1. CASE BeginReclaim
  <2>1. UNCHANGED <<clock, runRow, lease, beat, pending, spent, proc, crashes>>
    BY <1>1 DEF BeginReclaim, durable
  <2>2. \/ runRow = "running" /\ lease <= clock /\ chain' = chain
           /\ reclaim' = [ph |-> "working", at |-> clock]
        \/ chain # <<>> /\ chain' = Tail(chain) /\ reclaim' = [ph |-> "none", at |-> 0]
    BY <1>1 DEF BeginReclaim, Leave, HoldsLock, NoReclaim
  <2>3. LeaseTypeOK'
    BY <2>1, <2>2
  <2>4. QED
    BY <2>1, <2>2, <2>3 DEF GensInPast, LeaseIsNewest, ReclaimIsNewest, LiveLeaseUnspent
<1>2. CASE ReclaimHeld
  <2>1. /\ UNCHANGED <<clock, runRow, beat, spent, proc, crashes>>
        /\ chain # <<>> /\ chain' = Tail(chain) /\ reclaim' = [ph |-> "none", at |-> 0]
        /\ reclaim.ph = "working"
    BY <1>2 DEF ReclaimHeld, Reclaiming, Leave, HoldsLock, NoReclaim
  <2>2. PICK at \in {reclaim.at, clock} :
          IF runRow = "running" THEN RenewHeldLease(at) ELSE UNCHANGED <<lease, pending>>
    BY <1>2 DEF ReclaimHeld
  <2>3. /\ at \in Nat /\ at <= clock /\ \A g \in Gens : g <= at
    BY <2>1, <2>2 DEF ReclaimIsNewest
  <2>4. CASE runRow = "running"
    <3>1. lease' = at + TTL /\ pending' \subseteq pending \cup {at + TTL}
      BY <2>2, <2>4 DEF RenewHeldLease, Armed
    <3>2. LeaseTypeOK'
      BY <2>1, <2>3, <3>1
    <3>3. QED
      BY <2>1, <2>3, <2>4, <3>1, <3>2
      DEF GensInPast, LeaseIsNewest, ReclaimIsNewest, LiveLeaseUnspent
  <2>5. CASE runRow # "running"
    <3>1. UNCHANGED <<lease, pending>>
      BY <2>2, <2>5
    <3>2. LeaseTypeOK'
      BY <2>1, <3>1
    <3>3. QED
      BY <2>1, <2>5, <3>1, <3>2
      DEF GensInPast, LeaseIsNewest, ReclaimIsNewest, LiveLeaseUnspent
  <2>6. QED
    BY <2>4, <2>5
<1>3. CASE ReclaimMoves
  <2>1. /\ UNCHANGED <<clock, beat, pending, spent, chain, reclaim, proc, crashes>>
        /\ runRow' \in {"running", "waiting", "ended"} /\ runRow' # runRow
        /\ lease' = IF runRow' = "running" THEN clock + TTL ELSE -1
    BY <1>3 DEF ReclaimMoves, SyncRunLifecycle
  <2>2. QED
    BY <2>1 DEF GensInPast, LeaseIsNewest, ReclaimIsNewest, LiveLeaseUnspent
<1>4. CASE ReclaimLeaves
  <2>1. /\ UNCHANGED <<clock, runRow, lease, beat, pending, spent, proc, crashes>>
        /\ chain # <<>> /\ chain' = Tail(chain) /\ reclaim' = [ph |-> "none", at |-> 0]
    BY <1>4 DEF ReclaimLeaves, Reclaiming, Leave, HoldsLock, NoReclaim, durable
  <2>2. LeaseTypeOK'
    BY <2>1
  <2>3. QED
    BY <2>1, <2>2 DEF GensInPast, LeaseIsNewest, ReclaimIsNewest, LiveLeaseUnspent
<1>5. QED
  BY <1>1, <1>2, <1>3, <1>4

\* The rest of the server touches the lease only through the row's status.
LEMMA RestKeepsInv ==
  LeaseInv /\ (NewDrive \/ DriveMoves \/ DriveLeaves \/ Elapse \/ Crash \/ Boot) => LeaseInv'
<1> SUFFICES ASSUME LeaseInv,
                    NewDrive \/ DriveMoves \/ DriveLeaves \/ Elapse \/ Crash \/ Boot
             PROVE LeaseInv'
  OBVIOUS
<1> USE LeaseAssumption DEF LeaseInv, LeaseTypeOK, NoLease, Gens
<1>1. CASE NewDrive \/ DriveMoves \/ DriveLeaves \/ Crash \/ Boot
  <2>1. UNCHANGED <<clock, beat, pending, spent>>
    BY <1>1 DEF NewDrive, DriveMoves, DriveLeaves, Crash, Boot, durable
  <2>2. /\ runRow' \in {"pending", "running", "waiting", "ended"}
        /\ \/ runRow' = runRow /\ lease' = lease
           \/ runRow' = "running" /\ lease' = clock + TTL
           \/ runRow' # "running" /\ lease' = -1
    BY <1>1 DEF NewDrive, DriveMoves, DriveLeaves, Crash, Boot, durable, SyncRunLifecycle
  <2>3. reclaim' = reclaim \/ reclaim' = [ph |-> "none", at |-> 0]
    BY <1>1 DEF NewDrive, DriveMoves, DriveLeaves, Crash, Boot, NoReclaim
  <2>4. /\ chain' \in Seq({"drive", "reclaim"})
        /\ proc' \in {"down", "boot", "up"} /\ crashes' \in 0..MaxProcCrashes
    <3>1. CASE NewDrive
      BY <3>1 DEF NewDrive
    <3>2. CASE DriveMoves \/ Boot
      BY <3>2 DEF DriveMoves, Boot
    <3>3. CASE DriveLeaves
      BY <3>3 DEF DriveLeaves, HoldsLock
    <3>4. CASE Crash
      BY <3>4 DEF Crash
    <3>5. QED
      BY <1>1, <3>1, <3>2, <3>3, <3>4
  <2>5. LeaseTypeOK'
    BY <2>1, <2>2, <2>3, <2>4
  <2>6. GensInPast' /\ LeaseIsNewest' /\ LiveLeaseUnspent'
    BY <2>1, <2>2 DEF GensInPast, LeaseIsNewest, LiveLeaseUnspent
  <2>7. ReclaimIsNewest'
    BY <2>1, <2>3 DEF ReclaimIsNewest
  <2>8. QED
    BY <2>5, <2>6, <2>7
<1>2. CASE Elapse
  <2>1. /\ clock' = clock + 1 /\ clock' \in 0..MaxClock
        /\ UNCHANGED <<runRow, lease, beat, pending, spent, chain, reclaim, proc, crashes>>
    BY <1>2 DEF Elapse, durable
  <2>2. QED
    BY <2>1 DEF GensInPast, LeaseIsNewest, ReclaimIsNewest, LiveLeaseUnspent
<1>3. QED
  BY <1>1, <1>2

LEMMA LeaseInvStep == LeaseInv /\ [LeaseNext]_leaseVars => LeaseInv'
<1>1. LeaseInv /\ UNCHANGED leaseVars => LeaseInv'
  BY DEF LeaseInv, LeaseTypeOK, GensInPast, LeaseIsNewest, ReclaimIsNewest, LiveLeaseUnspent,
         Gens, leaseVars
<1>2. QED
  BY <1>1, SweepKeepsInv, SettleKeepsInv, ReclaimKeepsInv, RestKeepsInv DEF LeaseNext

\* The order of generations holds of every behaviour of the lease protocol.
LEMMA LeaseInvAlways == LeaseSpec => []LeaseInv
  BY LeaseInvInit, LeaseInvStep, PTL DEF LeaseSpec

-----------------------------------------------------------------------------
\* Every behaviour of lease.ts keeps its types, and a live lease of a running
\* row never has a spent alarm.
THEOREM LeaseSafe == LeaseSpec => [](LeaseTypeOK /\ LiveLeaseUnspent)
<1>1. LeaseInv => LeaseTypeOK /\ LiveLeaseUnspent
  BY DEF LeaseInv
<1>2. QED
  BY <1>1, LeaseInvAlways, PTL

\* One step of a sweep or a held verdict leaves the lease watched.
LEMMA WatchStep ==
  ASSUME LeaseInv, runRow = "running",
         (Sweep /\ chain = <<>> /\ reclaim.ph = "none") \/ ReclaimHeld
  PROVE  lease' \in pending'
<1> USE LeaseAssumption DEF LeaseInv, LeaseTypeOK, NoLease, Gens
<1>1. CASE Sweep /\ chain = <<>> /\ reclaim.ph = "none"
  <2>1. Watch
    BY <1>1 DEF Sweep, SweepOne
  <2>2. CASE lease > clock /\ lease \notin spent
    BY <2>1, <2>2 DEF Watch
  <2>3. CASE ~(lease > clock /\ lease \notin spent)
    <3>1. lease \in Nat /\ lease <= clock
      BY <2>3 DEF LeaseIsNewest, LiveLeaseUnspent
    <3>2. BumpTo \in Nat /\ BumpTo > lease
      BY <3>1 DEF BumpTo
    <3>3. BumpTo \notin Gens
      BY <3>1, <3>2 DEF LeaseIsNewest
    <3>4. QED
      BY <2>1, <2>3, <3>3 DEF Watch, Armed
  <2>4. QED
    BY <2>2, <2>3
<1>2. CASE ReclaimHeld
  <2>1. PICK at \in {reclaim.at, clock} : RenewHeldLease(at)
    BY <1>2 DEF ReclaimHeld
  <2>2. at \in Nat /\ \A g \in Gens : g <= at
    BY <1>2, <2>1 DEF ReclaimHeld, Reclaiming, ReclaimIsNewest
  <2>3. at + TTL \notin Gens
    BY <2>2
  <2>4. QED
    BY <2>1, <2>3 DEF RenewHeldLease, Armed
<1>3. QED
  BY <1>1, <1>2

\* After a sweep or a held verdict a running row nobody drives has a pending
\* alarm of its lease: the strictly advancing bump never meets a spent key.
THEOREM LeaseAlwaysWatched == LeaseSpec => LeaseIsWatched
<1>1. LeaseInv /\ [LeaseNext]_leaseVars =>
        [/\ runRow = "running"
         /\ (Sweep /\ chain = <<>> /\ reclaim.ph = "none") \/ ReclaimHeld
         => lease' \in pending']_leaseVars
  BY WatchStep
<1>2. QED
  BY <1>1, LeaseInvAlways, PTL DEF LeaseSpec, LeaseIsWatched

\* A reclaim is spawned only for a running row whose lease has run out and
\* that nobody drives.
THEOREM ReclaimsOnlyTheDead == LeaseSpec => ReclaimOnlyDead
<1>1. LeaseInv /\ [LeaseNext]_leaseVars =>
        [reclaim.ph = "none" /\ reclaim'.ph = "queued" =>
           runRow = "running" /\ lease <= clock /\ chain = <<>>]_leaseVars
  BY DEF LeaseNext, Sweep, FireLease, SuppressLease, Settle, Reclaimable, BeginReclaim,
         ReclaimHeld, ReclaimMoves, ReclaimLeaves, NewDrive, DriveMoves, DriveLeaves,
         Elapse, Crash, Boot, Leave, NoReclaim, Reclaiming, leaseVars
<1>2. QED
  BY <1>1, LeaseInvAlways, PTL DEF LeaseSpec, ReclaimOnlyDead

\* A reclaim's registration stands at the head of the lock's chain and only
\* while the reclaim is in flight: whatever is registered after it is a drive.
ReclaimAtHead ==
  \A i \in 1..Len(chain) : chain[i] = "reclaim" => i = 1 /\ reclaim.ph # "none"

\* Each step keeps the registration of a reclaim at the head.
LEMMA ReclaimAtHeadStep ==
  LeaseInv /\ ReclaimAtHead /\ [LeaseNext]_leaseVars => ReclaimAtHead'
<1> SUFFICES ASSUME LeaseInv, ReclaimAtHead, [LeaseNext]_leaseVars PROVE ReclaimAtHead'
  OBVIOUS
<1>1. chain \in Seq({"drive", "reclaim"}) /\ Len(chain) \in Nat
  BY DEF LeaseInv, LeaseTypeOK
<1>2. CASE chain' = chain /\ (reclaim' = reclaim \/ reclaim'.ph # "none")
  BY <1>2 DEF ReclaimAtHead
<1>3. CASE chain' = <<>>
  BY <1>3 DEF ReclaimAtHead
<1>4. CASE chain' = <<"reclaim">> /\ reclaim'.ph # "none"
  BY <1>4 DEF ReclaimAtHead
<1>5. CASE chain' = Append(chain, "drive") /\ reclaim' = reclaim
  BY <1>1, <1>5 DEF ReclaimAtHead
<1>6. CASE chain # <<>> /\ chain' = Tail(chain)
  <2>1. Len(chain') = Len(chain) - 1 /\ \A i \in 1..Len(chain') : chain'[i] = chain[i + 1]
    BY <1>1, <1>6
  <2>2. \A i \in 1..Len(chain') : chain'[i] # "reclaim"
    BY <1>1, <2>1 DEF ReclaimAtHead
  <2>3. QED
    BY <2>2 DEF ReclaimAtHead
<1>7. QED
  BY <1>2, <1>3, <1>4, <1>5, <1>6
  DEF LeaseNext, Sweep, FireLease, SuppressLease, Settle, BeginReclaim, ReclaimHeld,
      ReclaimMoves, ReclaimLeaves, NewDrive, DriveMoves, DriveLeaves, Elapse, Crash, Boot,
      Leave, HoldsLock, Reclaiming, leaseVars

\* A heartbeat is only ever stamped for a registered drive: the sweep that
\* meets a reclaim's own registration stamps nothing.
THEOREM HeartbeatIsHonest == LeaseSpec => HonestHeartbeat
<1>1. LeaseInit => ReclaimAtHead
  BY DEF LeaseInit, ReclaimAtHead
<1>2. LeaseInv /\ ReclaimAtHead /\ [LeaseNext]_leaseVars =>
        [beat' # beat => \E i \in DOMAIN chain : chain[i] = "drive"]_leaseVars
  <2> SUFFICES ASSUME LeaseInv, ReclaimAtHead, LeaseNext, beat' # beat
               PROVE  \E i \in DOMAIN chain : chain[i] = "drive"
    OBVIOUS
  <2>1. Sweep
    BY DEF LeaseNext, FireLease, SuppressLease, Settle, BeginReclaim, ReclaimHeld, durable,
           ReclaimMoves, ReclaimLeaves, NewDrive, DriveMoves, DriveLeaves, Elapse, Crash, Boot
  <2>2. reclaim.ph = "none" /\ chain # <<>>
    BY <2>1 DEF Sweep, SweepOne, Watch
  <2>3. chain \in Seq({"drive", "reclaim"})
    BY DEF LeaseInv, LeaseTypeOK
  <2>4. 1 \in 1..Len(chain) /\ DOMAIN chain = 1..Len(chain) /\ chain[1] \in {"drive", "reclaim"}
    BY <2>2, <2>3
  <2>5. chain[1] = "drive"
    BY <2>2, <2>4 DEF ReclaimAtHead
  <2>6. QED
    BY <2>4, <2>5
<1>3. QED
  BY <1>1, <1>2, ReclaimAtHeadStep, LeaseInvAlways, PTL DEF LeaseSpec, HonestHeartbeat

-----------------------------------------------------------------------------
(* The external wait.                                                      *)

\* An attempt that has not begun has left no trace.
FutureIsClean ==
  \A a \in Attempts : a > node.n =>
    row[a] = "none" /\ early[a] = "none" /\ accepted[a] = "none" /\ alarm[a] = "none"

\* The node and the request name attempts that have begun.
AttemptsBegun ==
  /\ node.att \in {0, node.n} /\ (node.att = 0 => node.st = "skipped")
  /\ request.att <= node.n /\ (request.ph # "none" => request.att > 0)

\* The row is completed exactly when a caller was told so, and what it keeps
\* is what the caller sent.
RowTellsTruth ==
  \A a \in Attempts :
    /\ accepted[a] # "none" <=> row[a] = "completed"
    /\ early[a] # "none" => early[a] = accepted[a]

\* Before the park a callback is accepted onto the row and nowhere else.
HeldOnRow == node.st \in {"ready", "held", "dispatched"} => early[node.att] = accepted[node.att]

\* The inductive invariant.
WaitInv ==
  /\ WaitTypeOK /\ FutureIsClean /\ AttemptsBegun /\ RowTellsTruth /\ HeldOnRow
  /\ SuccessIsCalledBack /\ AnsweredNeverParks /\ ParkedHasAlarm

Stands == \A a \in Attempts : accepted[a] # "none" => accepted'[a] = accepted[a] /\ row'[a] = "completed"

\* Each step keeps the invariant and every accepted callback.
LEMMA WaitInvStep == ASSUME WaitInv, WaitNext PROVE WaitInv' /\ Stands
<1> USE WaitAssumption
    DEF WaitInv, WaitTypeOK, FutureIsClean, AttemptsBegun, RowTellsTruth, HeldOnRow,
        SuccessIsCalledBack, AnsweredNeverParks, ParkedHasAlarm, Stands, Attempts, Kinds,
        NodeStates, Bodies, NoRequest, Folds
<1>1. CASE Dispatch
  <2>1. /\ node.st = "ready" /\ node.att > 0
        /\ UNCHANGED <<kind, cancel, run, row, early, alarm, host, accepted, downs>>
    BY <1>1 DEF Dispatch
  <2>2. CASE cancel = "none"
    <3>1. /\ node' = [node EXCEPT !.st = "dispatched"]
          /\ request' = [ph |-> "starting", att |-> node.att]
      BY <1>1, <2>2 DEF Dispatch
    <3>2. QED
      <4>1. WaitTypeOK'
        BY <2>1, <3>1
      <4>2. FutureIsClean' /\ AttemptsBegun'
        BY <2>1, <3>1
      <4>3. RowTellsTruth' /\ HeldOnRow'
        BY <2>1, <3>1
      <4>4. SuccessIsCalledBack' /\ AnsweredNeverParks'
        BY <2>1, <3>1
      <4>5. ParkedHasAlarm' /\ Stands
        BY <2>1, <3>1
      <4>6. QED
        BY <4>1, <4>2, <4>3, <4>4, <4>5
  <2>3. CASE cancel # "none"
    <3>1. node' = [node EXCEPT !.st = "failure"] /\ request' = request
      BY <1>1, <2>3 DEF Dispatch
    <3>2. QED
      BY <2>1, <3>1
  <2>4. QED
    BY <2>2, <2>3
<1>2. CASE SendRequest
  <2>0. request' \in [ph : {"none", "starting", "sent"}, att : 0..MaxAttempts]
    BY <1>2 DEF SendRequest
  <2>1. WaitTypeOK'
    BY <1>2, <2>0 DEF SendRequest, Recorded
  <2>2. FutureIsClean' /\ AttemptsBegun'
    BY <1>2 DEF SendRequest, Recorded
  <2>3. RowTellsTruth' /\ HeldOnRow'
    BY <1>2 DEF SendRequest, Recorded
  <2>4. SuccessIsCalledBack' /\ AnsweredNeverParks'
    BY <1>2 DEF SendRequest, Recorded
  <2>5. ParkedHasAlarm' /\ Stands
    BY <1>2 DEF SendRequest, Recorded
  <2>6. QED
    BY <2>1, <2>2, <2>3, <2>4, <2>5
<1>3. CASE RequestAnswered
  BY <1>3 DEF RequestAnswered, Dispatched
<1>4. CASE RequestFails
  <2>1. PICK st \in {"failure", "retry_pending", node.st} :
          /\ node' = [node EXCEPT !.st = st] \/ node' = node
          /\ st = node.st => node' = node
    BY <1>4 DEF RequestFails
  <2>2. /\ request' = NoRequest /\ row' = [row EXCEPT ![request.att] = IF @ = "pending" THEN "expired" ELSE @]
        /\ request.att \in 1..MaxAttempts
        /\ UNCHANGED <<kind, cancel, run, early, alarm, host, accepted, downs>>
    BY <1>4 DEF RequestFails, Expired
  <2>3. node.st = "dispatched" \/ node' = node
    BY <1>4 DEF RequestFails, Dispatched
  <2>4. QED
    BY <2>1, <2>2, <2>3
<1>5. CASE ArmExternalWait
  <2>1. /\ node.st \in {"ready", "held"} /\ run = "live" /\ node.att \in 1..MaxAttempts
        /\ UNCHANGED <<kind, cancel, run, early, request, host, accepted, downs>>
    BY <1>5 DEF ArmExternalWait, Owed
  <2>2. CASE early[node.att] # "none"
    <3>1. UNCHANGED <<row, alarm>>
      BY <1>5, <2>2 DEF ArmExternalWait, Arrived
    <3>2. PICK st \in {"success", "failure"} :
            /\ node' = [node EXCEPT !.st = st]
            /\ st = "success" => early[node.att] = "ok"
      BY <1>5, <2>1, <2>2 DEF ArmExternalWait, Arrived
    <3>3. QED
      BY <2>1, <2>2, <3>1, <3>2
  <2>3. CASE early[node.att] = "none"
    <3>1. /\ alarm' = [alarm EXCEPT ![node.att] = "pending"]
          /\ row' = [row EXCEPT ![node.att] = IF @ = "none" THEN "pending" ELSE @]
      BY <1>5, <2>3 DEF ArmExternalWait, Arrived, ArmLive, Recorded
    <3>2. PICK st \in {"parked", "failure"} : node' = [node EXCEPT !.st = st]
      BY <1>5, <2>1, <2>3 DEF ArmExternalWait, Arrived
    <3>3. QED
      <4>1. WaitTypeOK'
        BY <2>1, <2>3, <3>1, <3>2
      <4>2. FutureIsClean' /\ AttemptsBegun'
        BY <2>1, <2>3, <3>1, <3>2
      <4>3. RowTellsTruth' /\ HeldOnRow'
        BY <2>1, <2>3, <3>1, <3>2
      <4>4. SuccessIsCalledBack' /\ AnsweredNeverParks'
        BY <2>1, <2>3, <3>1, <3>2
      <4>5. ParkedHasAlarm' /\ Stands
        BY <2>1, <2>3, <3>1, <3>2
      <4>6. QED
        BY <4>1, <4>2, <4>3, <4>4, <4>5
  <2>4. QED
    BY <2>2, <2>3
<1>6. CASE CrashInArm
  <2>1. WaitTypeOK'
    BY <1>6 DEF CrashInArm, Owed, Arrived, ArmLive, Recorded
  <2>2. FutureIsClean' /\ AttemptsBegun'
    BY <1>6 DEF CrashInArm, Owed, Arrived, ArmLive, Recorded
  <2>3. RowTellsTruth' /\ HeldOnRow'
    BY <1>6 DEF CrashInArm, Owed, Arrived, ArmLive, Recorded
  <2>4. SuccessIsCalledBack' /\ AnsweredNeverParks'
    BY <1>6 DEF CrashInArm, Owed, Arrived, ArmLive, Recorded
  <2>5. ParkedHasAlarm' /\ Stands
    BY <1>6 DEF CrashInArm, Owed, Arrived, ArmLive, Recorded
  <2>6. QED
    BY <2>1, <2>2, <2>3, <2>4, <2>5
<1>7. ASSUME NEW a \in Attempts, AlarmFires(a)
      PROVE  WaitInv' /\ Stands
  BY <1>7 DEF AlarmFires, Expired
<1>8. ASSUME NEW a \in Attempts, NEW body \in Bodies, Callback(a, body)
      PROVE  WaitInv' /\ Stands
  <2>1. /\ row[a] = "pending" /\ run = "live" /\ node.att = a
        /\ row' = [row EXCEPT ![a] = "completed"] /\ accepted' = [accepted EXCEPT ![a] = body]
        /\ UNCHANGED <<kind, cancel, run, alarm, request, host, downs>>
    BY <1>8 DEF Callback, Completable
  <2>2. CASE node.st = "parked"
    <3>1. /\ node' = [node EXCEPT !.st = IF body = "ok" THEN "success" ELSE "failure"]
          /\ early' = early
      BY <1>8, <2>1, <2>2 DEF Callback
    <3>2. early[a] = "none"
      BY <2>1
    <3>3. QED
      <4>1. WaitTypeOK'
        BY <2>1, <2>2, <3>1, <3>2
      <4>2. FutureIsClean' /\ AttemptsBegun'
        BY <2>1, <2>2, <3>1, <3>2
      <4>3. RowTellsTruth' /\ HeldOnRow'
        BY <2>1, <2>2, <3>1, <3>2
      <4>4. SuccessIsCalledBack' /\ AnsweredNeverParks'
        BY <2>1, <2>2, <3>1, <3>2
      <4>5. ParkedHasAlarm' /\ Stands
        BY <2>1, <2>2, <3>1, <3>2
      <4>6. QED
        BY <4>1, <4>2, <4>3, <4>4, <4>5
  <2>3. CASE node.st # "parked"
    <3>1. /\ node.st \in {"ready", "held", "dispatched"}
          /\ early' = [early EXCEPT ![a] = body] /\ node' = node
      BY <1>8, <2>3 DEF Callback, Completable
    <3>2. QED
      BY <2>1, <3>1
  <2>4. QED
    BY <2>2, <2>3
<1>9. CASE NextAttempt
  <2>1. /\ node.n + 1 \in 1..MaxAttempts
        /\ UNCHANGED <<kind, cancel, run, row, early, alarm, request, host, accepted, downs>>
    BY <1>9 DEF NextAttempt
  <2>2. PICK st \in {"ready", "held"} : node' = [st |-> st, att |-> node.n + 1, n |-> node.n + 1]
    BY <1>9 DEF NextAttempt, Waiting
  <2>3. QED
    BY <2>1, <2>2
<1>10. CASE LoopTimesOut
  <2>1. /\ node' = [st |-> "skipped", att |-> 0, n |-> node.n]
        /\ UNCHANGED <<kind, cancel, run, row, early, alarm, request, host, accepted, downs>>
    BY <1>10 DEF LoopTimesOut
  <2>2. QED
    BY <2>1
<1>11. CASE CancelFolds
  <2>1. /\ cancel' = "requested"
        /\ UNCHANGED <<kind, run, row, early, alarm, request, host, accepted, downs>>
    BY <1>11 DEF CancelFolds
  <2>2. CASE node.st = "retry_pending"
    <3>1. node' = [node EXCEPT !.st = "failure"]
      BY <1>11, <2>2 DEF CancelFolds
    <3>2. QED
      <4>1. WaitTypeOK'
        BY <2>1, <2>2, <3>1
      <4>2. FutureIsClean' /\ AttemptsBegun'
        BY <2>1, <2>2, <3>1
      <4>3. RowTellsTruth' /\ HeldOnRow'
        BY <2>1, <2>2, <3>1
      <4>4. SuccessIsCalledBack' /\ AnsweredNeverParks'
        BY <2>1, <2>2, <3>1
      <4>5. ParkedHasAlarm' /\ Stands
        BY <2>1, <2>2, <3>1
      <4>6. QED
        BY <4>1, <4>2, <4>3, <4>4, <4>5
  <2>3. CASE node.st # "retry_pending"
    <3>1. node' = node
      BY <1>11, <2>3 DEF CancelFolds
    <3>2. QED
      BY <2>1, <3>1
  <2>4. QED
    BY <2>2, <2>3
<1>13. CASE RunEnds \/ WaitCrash
  <2>1. UNCHANGED <<kind, node, cancel, row, early, alarm, accepted>>
    BY <1>13 DEF RunEnds, WaitCrash
  <2>2. /\ run' \in {run, "ended"} /\ downs' \in Nat /\ host' \in {"up", "boot", "down"}
        /\ request' \in {request, NoRequest}
    BY <1>13 DEF RunEnds, WaitCrash
  <2>3. WaitTypeOK' /\ AttemptsBegun'
    BY <2>1, <2>2
  <2>4. QED
    BY <2>1, <2>2, <2>3
<1>14. CASE WaitReboot \/ Resume
  <2>1. /\ host' \in {"boot", "up"} /\ run' \in {run, "ended"}
        /\ UNCHANGED <<kind, cancel, row, early, alarm, request, accepted, downs>>
    BY <1>14 DEF WaitReboot, Resume, ResumedUnderCancel
  <2>2. CASE node' = node
    BY <2>1, <2>2
  <2>3. CASE node' # node
    <3>1. node' = [node EXCEPT !.st = "failure"] /\ node.st # "skipped"
      BY <1>14, <2>3 DEF WaitReboot, Resume, ResumedUnderCancel
    <3>2. QED
      BY <2>1, <3>1
  <2>4. QED
    BY <2>2, <2>3
<1>12. QED
  BY <1>1, <1>2, <1>3, <1>4, <1>5, <1>6, <1>7, <1>8, <1>9, <1>10, <1>11, <1>13, <1>14
  DEF WaitNext

\* The invariant holds at the start.
LEMMA WaitInvInit == WaitInit => WaitInv
BY WaitAssumption
DEF WaitInit, Waiting, WaitInv, WaitTypeOK, FutureIsClean, AttemptsBegun, RowTellsTruth,
    HeldOnRow, SuccessIsCalledBack, AnsweredNeverParks, ParkedHasAlarm, Attempts, Kinds,
    NodeStates, Bodies, NoRequest

\* The invariant is kept by every step and by stuttering.
LEMMA WaitInvKept == WaitInv /\ [WaitNext]_waitVars => WaitInv'
<1>1. CASE WaitNext
  BY <1>1, WaitInvStep
<1>2. CASE UNCHANGED waitVars
  BY <1>2
  DEF waitVars, WaitInv, WaitTypeOK, FutureIsClean, AttemptsBegun, RowTellsTruth, HeldOnRow,
      SuccessIsCalledBack, AnsweredNeverParks, ParkedHasAlarm, Attempts
<1>3. QED
  BY <1>1, <1>2

\* For any number of attempts and crashes: a waiting node succeeds only by a
\* callback accepted for that attempt, never parks over one, and has a live
\* alarm while it is parked.
THEOREM WaitSafe == WaitSpec => [](SuccessIsCalledBack /\ AnsweredNeverParks /\ ParkedHasAlarm)
<1>1. WaitInv => SuccessIsCalledBack /\ AnsweredNeverParks /\ ParkedHasAlarm
  BY DEF WaitInv
<1>2. QED
  BY <1>1, WaitInvInit, WaitInvKept, PTL DEF WaitSpec

\* No duplicate call, expiry, failing request or crash changes a callback
\* that was accepted, or its row.
THEOREM AcceptedCallbackStands == WaitSpec => AcceptedStands
<1>1. WaitInv /\ [WaitNext]_waitVars => [Stands]_waitVars
  BY WaitInvStep
<1>2. QED
  BY <1>1, WaitInvInit, WaitInvKept, PTL DEF WaitSpec, AcceptedStands, Stands

-----------------------------------------------------------------------------
(* Open rows.  A row that takes a call is kept alive by a request in flight *)
(* until the request ends, which it does under the dispatch that sent it,   *)
(* or under a node its loop abandoned.                                      *)

Undisturbed == run = "live" /\ cancel = "none"

RequestOwned ==
  /\ request.ph = "none" => request.att = 0
  /\ Undisturbed /\ request.ph # "none" => Dispatched(request.att) \/ node.st = "skipped"

OfferInv == RequestOwned /\ OfferIsAlive

LEMMA OfferStep ==
  ASSUME WaitInv, OfferInv, WaitNext
  PROVE  OfferInv'
<1> USE WaitAssumption
    DEF WaitInv, WaitTypeOK, FutureIsClean, AttemptsBegun, RowTellsTruth, OfferInv,
        RequestOwned, OfferIsAlive, Undisturbed, Dispatched, Attempts, NodeStates, NoRequest, Folds
<1>1. CASE Dispatch
  BY <1>1 DEF Dispatch
<1>2. CASE SendRequest
  <2>1. request' \in [ph : {"none", "starting", "sent"}, att : 0..MaxAttempts]
    BY <1>2 DEF SendRequest
  <2>2. request'.ph = "sent" /\ request'.att = request.att /\ request.ph # "none" /\ node' = node
    BY <1>2 DEF SendRequest
  <2>3. \A a \in Attempts : row'[a] = row[a] \/ a = request.att
    BY <1>2 DEF SendRequest, Recorded
  <2>4. QED
    BY <1>2, <2>2, <2>3 DEF SendRequest
<1>3. CASE RequestAnswered
  BY <1>3 DEF RequestAnswered
<1>4. CASE RequestFails
  <2>1. \A a \in Attempts : row'[a] = "pending" => row[a] = "pending" /\ a # request.att
    BY <1>4 DEF RequestFails, Expired
  <2>2. QED
    BY <1>4, <2>1 DEF RequestFails
<1>5. CASE ArmExternalWait
  <2>1. /\ node.st \in {"ready", "held"} /\ node.att \in Attempts /\ run = "live"
        /\ UNCHANGED <<kind, cancel, run, early, request, host, accepted, downs>>
    BY <1>5 DEF ArmExternalWait, Owed
  <2>2. /\ node'.att = node.att /\ node'.st \notin {"skipped", "dispatched"}
    BY <1>5, <2>1 DEF ArmExternalWait, Arrived, Bodies
  <2>3. \A a \in Attempts : a # node.att => row'[a] = row[a] /\ alarm'[a] = alarm[a]
    BY <1>5 DEF ArmExternalWait, ArmLive, Recorded
  <2>4. row'[node.att] = "pending" => alarm'[node.att] = "pending"
    BY <1>5, <2>1 DEF ArmExternalWait, Arrived, ArmLive, Recorded
  <2>5. QED
    BY <2>1, <2>2, <2>3, <2>4
<1>6. CASE CrashInArm
  <2>1. /\ node.st \in {"ready", "held"} /\ node.att \in Attempts
        /\ request' = NoRequest /\ UNCHANGED <<node, cancel, run>>
    BY <1>6 DEF CrashInArm, Owed
  <2>2. \A a \in Attempts : a # node.att => row'[a] = row[a] /\ alarm'[a] = alarm[a]
    BY <1>6 DEF CrashInArm, ArmLive, Recorded
  <2>3. alarm'[node.att] = "pending"
    BY <1>6, <2>1 DEF CrashInArm, ArmLive
  <2>4. QED
    BY <2>1, <2>2, <2>3
<1>7. ASSUME NEW a \in Attempts, AlarmFires(a)
      PROVE  OfferInv'
  <2>1. \A b \in Attempts : row'[b] = "pending" => row[b] = "pending" /\ b # a
    BY <1>7 DEF AlarmFires, Expired
  <2>2. \A b \in Attempts : b # a => alarm'[b] = alarm[b]
    BY <1>7 DEF AlarmFires
  <2>3. /\ node' = node \/ node.st = "parked"
        /\ UNCHANGED <<cancel, run, request>>
    BY <1>7 DEF AlarmFires
  <2>4. QED
    BY <2>1, <2>2, <2>3
<1>8. ASSUME NEW a \in Attempts, NEW body \in Bodies, Callback(a, body)
      PROVE  OfferInv'
  <2>1. \A b \in Attempts : row'[b] = "pending" => row[b] = "pending"
    BY <1>8 DEF Callback
  <2>2. /\ node' = node \/ node.st = "parked"
        /\ UNCHANGED <<cancel, run, request, alarm>>
    BY <1>8 DEF Callback
  <2>3. QED
    BY <2>1, <2>2
<1>9. CASE NextAttempt
  BY <1>9 DEF NextAttempt, Waiting
<1>10. CASE LoopTimesOut
  BY <1>10 DEF LoopTimesOut
<1>11. CASE CancelFolds \/ RunEnds
  BY <1>11 DEF CancelFolds, RunEnds
<1>12. CASE WaitCrash
  BY <1>12 DEF WaitCrash
<1>13. CASE WaitReboot \/ Resume
  BY <1>13 DEF WaitReboot, Resume, ResumedUnderCancel
<1>14. QED
  BY <1>1, <1>2, <1>3, <1>4, <1>5, <1>6, <1>7, <1>8, <1>9, <1>10, <1>11, <1>12, <1>13 DEF WaitNext

\* On a run that goes on, no row is left open with nothing to close it: an
\* answer, a failing request, a crash in the arm, a late alarm or a new attempt
\* leaves the row settled, its attempt under way or its expiry armed (the
\* executor's `finally`, armExternalWait's order of alarm, row and event).
THEOREM OffersAreAlive == WaitSpec => []OfferIsAlive
<1>1. WaitInit => WaitInv
  BY WaitInvInit
<1>2. WaitInit => OfferInv
  BY DEF WaitInit, OfferInv, RequestOwned, OfferIsAlive, NoRequest
<1>3. WaitInv /\ [WaitNext]_waitVars => WaitInv'
  BY WaitInvKept
<1>4. WaitInv /\ OfferInv /\ [WaitNext]_waitVars => OfferInv'
  <2>1. ASSUME OfferInv, UNCHANGED waitVars PROVE OfferInv'
    BY <2>1 DEF waitVars, OfferInv, RequestOwned, OfferIsAlive, Undisturbed, Dispatched
  <2>2. QED
    BY <2>1, OfferStep
<1>5. OfferInv => OfferIsAlive
  BY DEF OfferInv
<1>6. QED
  BY <1>1, <1>2, <1>3, <1>4, <1>5, PTL DEF WaitSpec

=============================================================================
