---------------------------- MODULE QuotaReader -----------------------------
(***************************************************************************)
(* The account-quota reader (quota/claude-quota.ts): one cached sample, a  *)
(* throttle window that doubles while the provider rate-limits, one sample *)
(* in flight at a time.  Time is the wall clock and may step either way.   *)
(* The four causes of an unread sample that are not a rate limit are one.  *)
(***************************************************************************)
EXTENDS Integers

CONSTANTS Ttl,     \* ttlMs
          Cap,     \* maxThrottleMs, at least ttlMs by construction
          MaxNow   \* bound of the instance

ASSUME QuotaAssumption == Ttl \in Nat \ {0} /\ Cap \in Nat /\ Ttl <= Cap /\ MaxNow \in Nat

VARIABLES
  now,       \* Date.now()
  cached,    \* "none" before the first sample, else its outcome
  cachedAt,  \* when the read that took the sample began
  throttle,  \* throttleMs
  limited,   \* rateLimited
  flight,    \* inFlight: when the read that started it began, -1 when null
  served     \* the last answer from the cache: [kind, age]

quotaVars == <<now, cached, cachedAt, throttle, limited, flight, served>>

NoFlight == -1

Hit == cached # "none" /\ now >= cachedAt /\ now - cachedAt < throttle

ReadHits ==
  /\ Hit /\ served' = [kind |-> cached, age |-> now - cachedAt]
  /\ UNCHANGED <<now, cached, cachedAt, throttle, limited, flight>>

\* A read that finds a sample in flight joins it; otherwise it starts one.
ReadSamples ==
  /\ ~Hit /\ flight = NoFlight /\ flight' = now
  /\ UNCHANGED <<now, cached, cachedAt, throttle, limited, served>>

Widened(t) == IF 2 * t <= Cap THEN 2 * t ELSE Cap

\* Mutant of ApplyOutcome: a success while limited keeps the wide window.
ApplyKeepingWindow(out) ==
  /\ limited' = (out = "limited" \/ (limited /\ out # "value"))
  /\ throttle' = IF out = "limited" THEN Widened(throttle) ELSE throttle

\* Only a rate limit widens the window and only a reading resets it.
ApplyOutcome(out) ==
  /\ limited' = (out = "limited" \/ (limited /\ out # "value"))
  /\ throttle' = CASE out = "limited" -> Widened(throttle)
                   [] out = "value"   -> Ttl
                   [] OTHER           -> throttle

\* The sample's outcome replaces the cache whatever it is, stamped with the
\* time its read began.
SampleEnds ==
  /\ flight # NoFlight /\ flight' = NoFlight
  /\ \E out \in {"value", "limited", "failed"} :
       cached' = out /\ cachedAt' = flight /\ ApplyOutcome(out)
  /\ UNCHANGED <<now, served>>

ClockMoves ==
  /\ now' \in 0..MaxNow /\ now' # now
  /\ UNCHANGED <<cached, cachedAt, throttle, limited, flight, served>>

QuotaInit ==
  /\ now = 0 /\ cached = "none" /\ cachedAt = 0 /\ throttle = Ttl /\ limited = FALSE
  /\ flight = NoFlight /\ served = [kind |-> "none", age |-> 0]

QuotaNext == ReadHits \/ ReadSamples \/ SampleEnds \/ ClockMoves

QuotaSpec == QuotaInit /\ [][QuotaNext]_quotaVars

-----------------------------------------------------------------------------

\* Every variable of the reader keeps its type.
QuotaTypeOK ==
  /\ now \in 0..MaxNow /\ cachedAt \in 0..MaxNow /\ flight \in 0..MaxNow \cup {NoFlight}
  /\ cached \in {"none", "value", "limited", "failed"}
  /\ throttle \in Nat /\ limited \in BOOLEAN
  /\ served \in [kind : {"none", "value", "limited", "failed"}, age : Int]

\* A reading is only ever served within ttlMs of the read that took it, on
\* the clock the reader sees, however far the window was widened in between
\* and whichever way the clock moved.
ServedIsFresh == served.kind = "value" => served.age \in 0..(Ttl - 1)

\* The window follows the limit: it never leaves ttlMs..maxThrottleMs, it never
\* shrinks while the provider limits (another limit at the cap and a failed
\* sample included), nothing but a reading ends the limit, and then the window is
\* back at ttlMs at once.
WindowFollowsLimit ==
  [][/\ throttle' \in Ttl..Cap
     /\ limited /\ cached' # "value" => limited' /\ throttle' >= throttle
     /\ ~limited' => throttle' = Ttl]_quotaVars
=============================================================================
