------------------------------ MODULE RunLease ------------------------------
(***************************************************************************)
(* The lease of one run (scheduler/lease.ts over repo/scheduled-wakeups.ts *)
(* and the drive registry): the heartbeat sweep, the `run_lease` alarm and *)
(* the reclaim it spawns.  RunDrive takes "a running row nobody drives is  *)
(* reclaimed" as one step; here that step is the protocol the code runs.   *)
(*                                                                         *)
(* `leaseUntil` is at once the due time, the generation token and the      *)
(* dedupe key of its alarm, so an alarm is its generation.  A row of the   *)
(* table is pending or spent (fired, suppressed or cancelled), and arming  *)
(* a key that exists in either state inserts nothing.                      *)
(***************************************************************************)
EXTENDS Integers, Sequences

CONSTANTS TTL,            \* LEASE_TTL_MS
          MaxClock,       \* bounds of the instance: milliseconds,
          MaxChain,       \*   drives registered at once,
          MaxProcCrashes  \*   crashes

ASSUME LeaseAssumption ==
  /\ TTL \in Nat \ {0} /\ MaxClock \in Nat
  /\ MaxChain \in Nat /\ MaxProcCrashes \in Nat

NoLease == -1

VARIABLES
  clock,      \* Date.now(), which does not go back
  runRow,     \* runs.status
  lease,      \* runs.leaseUntil
  beat,       \* runs.heartbeatAt
  pending, spent,  \* generations of the run_lease rows, by status
  chain,      \* what is registered in the run's drive lock, its holder first
  reclaim,    \* [ph, at]: the member of reclaimsInFlight, `at` read under the lock
  proc, crashes

leaseVars == <<clock, runRow, lease, beat, pending, spent, chain, reclaim, proc, crashes>>
durable == <<runRow, lease, beat, pending, spent>>

NoReclaim == [ph |-> "none", at |-> 0]

Gens == pending \cup spent

-----------------------------------------------------------------------------
(* Writes of the two tables.                                               *)

\* syncRunLifecycle: a real change to `running` grants a lease, a change to
\* anything else releases it.
SyncRunLifecycle(st) ==
  /\ runRow' = st
  /\ lease' = IF runRow = st THEN lease ELSE IF st = "running" THEN clock + TTL ELSE NoLease

\* armWakeup: the existing row, whatever its status, or a fresh pending one.
Armed(g) == IF g \in Gens THEN pending ELSE pending \cup {g}

\* Mutant of BumpTo: the generation need not advance.
BumpToNow == IF lease = NoLease \/ lease <= clock THEN clock ELSE lease

BumpTo ==
  LET next == (IF lease = NoLease THEN 0 ELSE lease) + 1 IN
  IF next <= clock THEN clock ELSE next

-----------------------------------------------------------------------------
(* The sweep.                                                              *)

\* Mutant of Renew: an unchanged generation is superseded by itself.
RenewAlways ==
  LET next == clock + TTL IN
  /\ beat' = clock /\ lease' = next
  /\ spent' = spent \cup (pending \cap {lease})
  /\ pending' = Armed(next) \ {lease}

\* A registered run is renewed, its alarm superseded in the same transaction;
\* a replacement key that exists makes supersedeWakeup throw and roll back.
Renew ==
  LET next == clock + TTL IN
  IF lease \in {NoLease, next}
    THEN beat' = clock /\ lease' = next /\ pending' = Armed(next) /\ UNCHANGED spent
    ELSE IF next \in Gens THEN UNCHANGED <<beat, lease, pending, spent>>
    ELSE /\ beat' = clock /\ lease' = next
         /\ pending' = (pending \ {lease}) \cup {next}
         /\ spent' = spent \cup (pending \cap {lease})

\* Nobody drives the run and its lease is live: see that an alarm watches it.
\* Otherwise the generation is bumped and its alarm is due at once.
Watch ==
  /\ UNCHANGED <<beat, spent>>
  /\ IF lease > clock /\ lease \notin spent
       THEN pending' = pending \cup {lease} /\ UNCHANGED lease
       ELSE lease' = BumpTo /\ pending' = Armed(BumpTo)

SweepOne ==
  IF runRow # "running" \/ reclaim.ph # "none" THEN UNCHANGED <<lease, beat, pending, spent>>
  ELSE IF chain # <<>> THEN Renew ELSE Watch

\* The recurring sweep, and the one that boot runs before its first tick.
Sweep ==
  /\ proc \in {"boot", "up"} /\ proc' = "up"
  /\ SweepOne
  /\ UNCHANGED <<clock, runRow, chain, reclaim, crashes>>

-----------------------------------------------------------------------------
(* The alarm: settled in the transaction of its fire, spent either way.    *)

\* Mutant of Reclaimable: the generation token is not compared.
AnyGeneration(g) == runRow = "running" /\ reclaim.ph = "none" /\ chain = <<>>

Reclaimable(g) ==
  /\ runRow = "running" /\ lease = g
  /\ reclaim.ph = "none" /\ chain = <<>>

Settle(g) ==
  /\ proc = "up" /\ g \in pending /\ g <= clock
  /\ pending' = pending \ {g} /\ spent' = spent \cup {g}
  /\ UNCHANGED <<clock, runRow, lease, beat, proc, crashes>>

FireLease(g) ==
  /\ Settle(g) /\ Reclaimable(g)
  /\ chain' = <<"reclaim">> /\ reclaim' = [ph |-> "queued", at |-> 0]

SuppressLease(g) == Settle(g) /\ ~Reclaimable(g) /\ UNCHANGED <<chain, reclaim>>

-----------------------------------------------------------------------------
(* The reclaim, under the run's drive lock.                                *)

Leave == chain' = Tail(chain) /\ reclaim' = NoReclaim

HoldsLock(job) == chain # <<>> /\ Head(chain) = job

\* Everything is checked again under the lock.
BeginReclaim ==
  /\ HoldsLock("reclaim") /\ reclaim.ph = "queued"
  /\ IF runRow = "running" /\ lease <= clock
       THEN reclaim' = [ph |-> "working", at |-> clock] /\ UNCHANGED chain
       ELSE Leave
  /\ UNCHANGED <<clock, durable, proc, crashes>>

Reclaiming == HoldsLock("reclaim") /\ reclaim.ph = "working"

RenewHeldLease(at) == lease' = at + TTL /\ pending' = Armed(at + TTL)

\* `held`: the run lives on its own alarm and the watch goes on, counted from
\* the time the reclaim began.  A corrupt log gets the same treatment, counted
\* from now.
ReclaimHeld ==
  /\ Reclaiming /\ Leave
  /\ \E at \in {reclaim.at, clock} :
       IF runRow = "running" THEN RenewHeldLease(at) ELSE UNCHANGED <<lease, pending>>
  /\ UNCHANGED <<clock, runRow, beat, spent, proc, crashes>>

\* reconcileOne and the pump it runs move the row to a park or an end.
ReclaimMoves ==
  /\ Reclaiming /\ runRow \in {"running", "waiting"}
  /\ \E st \in {"running", "waiting", "ended"} \ {runRow} : SyncRunLifecycle(st)
  /\ UNCHANGED <<clock, beat, pending, spent, chain, reclaim, proc, crashes>>

\* Resumed, ended or failed: nothing is renewed, the next sweep looks again.
ReclaimLeaves ==
  /\ Reclaiming /\ Leave
  /\ UNCHANGED <<clock, durable, proc, crashes>>

-----------------------------------------------------------------------------
(* The rest of the server: drives, folds beside them, time, crashes.       *)

\* A start, a callback or an alarm registers a drive.  An alarm's fold has
\* un-parked the row in its own transaction, without the lock.
NewDrive ==
  /\ proc = "up" /\ runRow # "ended" /\ Len(chain) < MaxChain
  /\ chain' = Append(chain, "drive")
  /\ IF runRow = "waiting" THEN SyncRunLifecycle("running") ELSE UNCHANGED <<runRow, lease>>
  /\ UNCHANGED <<clock, beat, pending, spent, reclaim, proc, crashes>>

DriveMoves ==
  /\ HoldsLock("drive") /\ runRow # "ended"
  /\ \E st \in {"running", "waiting", "ended"} \ {runRow} : SyncRunLifecycle(st)
  /\ UNCHANGED <<clock, beat, pending, spent, chain, reclaim, proc, crashes>>

\* A drive returns: parked, ended, held on a retry, or lost with the row
\* still running.
DriveLeaves ==
  /\ HoldsLock("drive") /\ chain' = Tail(chain)
  /\ UNCHANGED <<clock, durable, reclaim, proc, crashes>>

Elapse ==
  /\ clock < MaxClock /\ clock' = clock + 1
  /\ UNCHANGED <<durable, chain, reclaim, proc, crashes>>

Crash ==
  /\ proc # "down" /\ crashes < MaxProcCrashes /\ crashes' = crashes + 1
  /\ proc' = "down" /\ chain' = <<>> /\ reclaim' = NoReclaim
  /\ UNCHANGED <<clock, durable>>

\* reconcileOnBoot settles a running row, or leaves it held; a start that was
\* lost is interrupted.  It takes no drive lock and arms no lease alarm.
Boot ==
  /\ proc = "down" /\ proc' = "boot"
  /\ \E st \in {runRow} \cup (IF runRow = "running" THEN {"waiting", "ended"}
                           ELSE IF runRow = "pending" THEN {"ended"} ELSE {}) :
       SyncRunLifecycle(st)
  /\ UNCHANGED <<clock, beat, pending, spent, chain, reclaim, crashes>>

LeaseInit ==
  /\ clock = 0 /\ runRow = "pending" /\ lease = NoLease /\ beat = NoLease
  /\ pending = {} /\ spent = {} /\ chain = <<>> /\ reclaim = NoReclaim
  /\ proc = "up" /\ crashes = 0

LeaseNext ==
  \/ Sweep \/ \E g \in pending : FireLease(g) \/ SuppressLease(g)
  \/ BeginReclaim \/ ReclaimHeld \/ ReclaimMoves \/ ReclaimLeaves
  \/ NewDrive \/ DriveMoves \/ DriveLeaves \/ Elapse \/ Crash \/ Boot

LeaseSpec == LeaseInit /\ [][LeaseNext]_leaseVars

-----------------------------------------------------------------------------
(* Properties.                                                             *)

\* Every variable keeps its type.
LeaseTypeOK ==
  /\ clock \in 0..MaxClock /\ runRow \in {"pending", "running", "waiting", "ended"}
  /\ lease \in Nat \cup {NoLease} /\ beat \in Nat \cup {NoLease}
  /\ pending \subseteq Nat /\ spent \subseteq Nat
  /\ chain \in Seq({"drive", "reclaim"})
  /\ reclaim \in [ph : {"none", "queued", "working"}, at : Nat]
  /\ proc \in {"down", "boot", "up"} /\ crashes \in 0..MaxProcCrashes

\* A running row holds a lease, and the alarm of a lease that is still live
\* was never spent: the case sweepOne's second branch calls impossible by
\* construction and only guards against.
LiveLeaseUnspent ==
  runRow = "running" => lease # NoLease /\ (lease > clock => lease \notin spent)

\* A sweep leaves a running row that nobody drives or reclaims, and a held
\* verdict of a reclaim leaves its run, with a pending alarm of exactly its
\* lease, whatever generations were fired, suppressed or superseded before:
\* the lease is never silently unwatched (lease.ts: "a pending `run_lease`
\* alarm due at it").
LeaseIsWatched ==
  [][/\ runRow = "running"
     /\ (Sweep /\ chain = <<>> /\ reclaim.ph = "none") \/ ReclaimHeld
     => lease' \in pending']_leaseVars

\* A reclaim is only ever spawned for a running row whose own lease has run
\* out and that no drive is registered for, although the handler compares no
\* time: an older generation's alarm never reclaims a renewed run.
ReclaimOnlyDead ==
  [][reclaim.ph = "none" /\ reclaim'.ph = "queued" =>
       runRow = "running" /\ lease <= clock /\ chain = <<>>]_leaseVars

\* A heartbeat is evidence of a drive, never of a reclaim's own registration.
HonestHeartbeat == [][beat' # beat => \E i \in DOMAIN chain : chain[i] = "drive"]_leaseVars
=============================================================================
