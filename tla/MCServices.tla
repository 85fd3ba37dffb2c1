----------------------------- MODULE MCServices -----------------------------
(***************************************************************************)
(* Five services of the server that share no state: the keyed queue, the   *)
(* delivery ledger, the quota reader, the run lease and the external       *)
(* waits.  A behaviour explores one of them with the others at rest.       *)
(***************************************************************************)
EXTENDS KeyedQueue, DeliveryLedger, QuotaReader, RunLease, ExternalWait

VARIABLE focus

vars == <<queueVars, ledgerVars, quotaVars, leaseVars, waitVars, focus>>

Init ==
  /\ focus \in {"queue", "ledger", "quota", "lease", "wait"}
  /\ QueueInit /\ LedgerInit /\ QuotaInit /\ LeaseInit /\ WaitInit
  /\ focus # "wait" => kind = "webhook"

Next ==
  /\ UNCHANGED focus
  /\ \/ focus = "queue"  /\ QueueNext  /\ UNCHANGED <<ledgerVars, quotaVars, leaseVars, waitVars>>
     \/ focus = "ledger" /\ LedgerNext /\ UNCHANGED <<queueVars, quotaVars, leaseVars, waitVars>>
     \/ focus = "quota"  /\ QuotaNext  /\ UNCHANGED <<queueVars, ledgerVars, leaseVars, waitVars>>
     \/ focus = "lease"  /\ LeaseNext  /\ UNCHANGED <<queueVars, ledgerVars, quotaVars, waitVars>>
     \/ focus = "wait"   /\ WaitNext   /\ UNCHANGED <<queueVars, ledgerVars, quotaVars, leaseVars>>

FairSpec ==
  /\ Init /\ [][Next]_vars
  /\ focus = "queue" => QueueFairness
  /\ focus = "wait" => WaitFairness

=============================================================================
