--------------------------- MODULE DeliveryLedger ---------------------------
(***************************************************************************)
(* Firing a trigger through the delivery ledger                            *)
(* (routes/fire-through-ledger.ts over repo/webhook-deliveries.ts), for    *)
(* webhooks and published events: the key is claimed, the trigger fired    *)
(* and the claim finalized or released, in one synchronous call.  No other *)
(* request runs in between, but each write commits on its own, so a crash  *)
(* or a failing write can stop the call between any two of them.  A sender *)
(* may deliver a key again whatever it was answered, within the retention  *)
(* after which old entries are pruned and their keys forgotten.            *)
(*                                                                         *)
(* launcher.fire is external here: it launches a run, refuses for good,    *)
(* refuses because the server is stopping, or throws before it wrote.      *)
(***************************************************************************)
EXTENDS Integers

CONSTANTS Keys,         \* (triggerId, idempotencyKey)
          MaxSends,     \* bounds of the instance: deliveries of a key,
          MaxFailures   \*   crashes and failing writes

ASSUME LedgerAssumption == MaxSends \in Nat /\ MaxFailures \in Nat

VARIABLES
  entry,     \* [Keys -> status of the key's row, "none" when there is none]
  launched,  \* [Keys -> runs launched for it]
  unwritten, \* [Keys -> outcomes of a launch that could not be written]
  call,      \* the ledger call in progress: [key, ph]
  cut,       \* keys whose call was stopped with the claim made
  sends,     \* [Keys -> deliveries so far]
  server,    \* "up", "stopping" or "down"
  failures

ledgerVars == <<entry, launched, unwritten, call, cut, sends, server, failures>>

Idle == [key |-> "none", ph |-> "idle"]

At(ph) == call.ph = ph

Step(ph) == call' = [call EXCEPT !.ph = ph]

Fail == failures < MaxFailures /\ failures' = failures + 1

\* Mutant of Claim: only a decided key counts as a duplicate.
ClaimUndecided(k) == entry[k] # "final"

Claim(k) == entry[k] = "none"

\* A gated trigger (disabled, or outside its window) claims nothing, nor does
\* a claim whose insert fails.
Gated(k) ==
  /\ server # "down" /\ At("idle") /\ sends[k] < MaxSends
  /\ sends' = [sends EXCEPT ![k] = @ + 1]
  /\ UNCHANGED <<entry, launched, unwritten, call, cut, server, failures>>

\* The claim is inserted before anything is fired; a key already present is
\* answered `duplicate`.
Deliver(k) ==
  /\ server # "down" /\ At("idle") /\ sends[k] < MaxSends
  /\ sends' = [sends EXCEPT ![k] = @ + 1]
  /\ IF Claim(k)
       THEN entry' = [entry EXCEPT ![k] = "pending"] /\ call' = [key |-> k, ph |-> "claimed"]
       ELSE UNCHANGED <<entry, call>>
  /\ UNCHANGED <<launched, unwritten, cut, server, failures>>

\* Started or queued: a run row exists from here on.
FireLaunches ==
  /\ At("claimed") /\ server = "up" /\ Step("launched")
  /\ launched' = [launched EXCEPT ![call.key] = @ + 1]
  /\ UNCHANGED <<entry, unwritten, cut, sends, server, failures>>

\* A capacity skip, an unresolvable binding or an archived pipeline: decided.
FireDeclines ==
  /\ At("claimed") /\ server = "up" /\ \E ph \in {"declined", "refused"} : Step(ph)
  /\ UNCHANGED <<entry, launched, unwritten, cut, sends, server, failures>>

\* The shutdown skip, an unbound trigger or an unexpected throw: not decided.
FireUndecided ==
  /\ At("claimed") /\ Step("release")
  /\ UNCHANGED <<entry, launched, unwritten, cut, sends, server, failures>>

Finalized == call.ph \in {"launched", "declined", "refused"}

Finalize ==
  /\ Finalized /\ call' = Idle
  /\ entry' = [entry EXCEPT ![call.key] = "final"]
  /\ UNCHANGED <<launched, unwritten, cut, sends, server, failures>>

\* Mutant of ReleaseClaim: the claim of an undecided fire is kept.
KeepClaim ==
  /\ At("release") /\ call' = Idle
  /\ UNCHANGED <<entry, launched, unwritten, cut, sends, server, failures>>

ReleaseClaim ==
  /\ At("release") /\ call' = Idle
  /\ entry' = [entry EXCEPT ![call.key] = "none"]
  /\ UNCHANGED <<launched, unwritten, cut, sends, server, failures>>

\* The outcome cannot be written.  After a fire that returned, the write is
\* inside the try block, so its throw releases the claim; in the handler of a
\* refusal nothing is left to release it.
FinalizeThrows ==
  /\ Finalized /\ Fail
  /\ IF At("refused")
       THEN call' = Idle /\ cut' = cut \cup {call.key} /\ UNCHANGED unwritten
       ELSE /\ Step("release") /\ UNCHANGED cut
            /\ unwritten' = IF At("launched")
                              THEN [unwritten EXCEPT ![call.key] = @ + 1] ELSE unwritten
  /\ UNCHANGED <<entry, launched, sends, server>>

ReleaseThrows ==
  /\ At("release") /\ Fail /\ call' = Idle /\ cut' = cut \cup {call.key}
  /\ UNCHANGED <<entry, launched, unwritten, sends, server>>

\* Shutdown lets the synchronous call finish; a crash does not.
BeginStop ==
  /\ server = "up" /\ At("idle") /\ server' = "stopping"
  /\ UNCHANGED <<entry, launched, unwritten, call, cut, sends, failures>>

ServerCrash ==
  /\ server # "down" /\ Fail /\ server' = "down" /\ call' = Idle
  /\ cut' = IF At("idle") THEN cut ELSE cut \cup {call.key}
  /\ UNCHANGED <<entry, launched, unwritten, sends>>

Restart ==
  /\ server # "up" /\ At("idle") /\ server' = "up"
  /\ UNCHANGED <<entry, launched, unwritten, call, cut, sends, failures>>

LedgerInit ==
  /\ entry = [k \in Keys |-> "none"] /\ launched = [k \in Keys |-> 0]
  /\ unwritten = [k \in Keys |-> 0] /\ sends = [k \in Keys |-> 0]
  /\ call = Idle /\ cut = {} /\ server = "up" /\ failures = 0

LedgerNext ==
  \/ \E k \in Keys : Gated(k) \/ Deliver(k)
  \/ FireLaunches \/ FireDeclines \/ FireUndecided
  \/ Finalize \/ ReleaseClaim \/ FinalizeThrows \/ ReleaseThrows
  \/ BeginStop \/ ServerCrash \/ Restart

LedgerSpec == LedgerInit /\ [][LedgerNext]_ledgerVars

-----------------------------------------------------------------------------

\* Every variable of the ledger keeps its type.
LedgerTypeOK ==
  /\ entry \in [Keys -> {"none", "pending", "final"}]
  /\ launched \in [Keys -> Nat] /\ unwritten \in [Keys -> Nat] /\ sends \in [Keys -> Nat]
  /\ call \in [key : Keys, ph : {"claimed", "launched", "declined", "refused", "release"}]
              \cup {Idle}
  /\ cut \subseteq Keys /\ server \in {"up", "stopping", "down"} /\ failures \in Nat

\* A key launches at most one run, across duplicate deliveries, crashes and
\* restarts, plus one for each time the outcome of a launch could not be
\* written: that write's throw releases the claim of a run that exists.
LaunchedOncePerWrite == \A k \in Keys : launched[k] <= 1 + unwritten[k]

\* A claim nobody is working on was left by a call that was cut short: every
\* call that runs to its end either decides the key or frees it, so a
\* transient refusal never makes the sender's retry a duplicate.
ClaimIsDecidedOrFreed ==
  \A k \in Keys : entry[k] = "pending" => (~At("idle") /\ call.key = k) \/ k \in cut

\* Once a key is decided it stays decided and launches nothing more.
DecidedIsFinal ==
  [][\A k \in Keys : entry[k] = "final" => entry'[k] = "final" /\ launched'[k] = launched[k]]_ledgerVars
=============================================================================
