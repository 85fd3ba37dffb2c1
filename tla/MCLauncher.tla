----------------------------- MODULE MCLauncher -----------------------------
(***************************************************************************)
(* The triggers and pipelines TLC runs Launcher on: a `queue` trigger hook *)
(* and, beside it, a trigger tick of another policy.                       *)
(***************************************************************************)
EXTENDS Launcher

CONSTANTS hook, tick, flow, other

AllOnFlow == [t \in Triggers |-> flow]

HookAndParallel == [t \in Triggers |-> IF t = hook THEN "queue" ELSE "parallel"]
HookAndSkip == [t \in Triggers |-> IF t = hook THEN "queue" ELSE "skip_if_running"]

\* tick may run twice at once, hook has a single slot.
TickTwice == [t \in Triggers |-> IF t = hook THEN 0 ELSE 2]

OneSlot == [p \in Pipelines |-> 1]
=============================================================================
