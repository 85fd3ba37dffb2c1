---------------------------- MODULE RunLifecycle ----------------------------
(***************************************************************************)
(* What a run promises to whoever reads its row, its log and the outside   *)
(* world: which statuses follow which, that an end is final, that          *)
(* attempts are executed one by one and only while the run is running and  *)
(* nobody has stopped it.  RunDrive implements it.                         *)
(***************************************************************************)
VARIABLES
  status,     \* what the run's row shows
  stopping,   \* a cancel is on record
  executed    \* the attempts whose side effect was begun

Ended == {"success", "failure", "interrupted", "cancelled"}

Init == status = "pending" /\ stopping = FALSE /\ executed = {}

Execute ==
  /\ status = "running" /\ ~stopping
  /\ \E a \in executed' \ executed : executed' = executed \cup {a}
  /\ UNCHANGED <<status, stopping>>

Stop ==
  /\ status \notin Ended /\ ~stopping
  /\ stopping' = TRUE
  /\ UNCHANGED <<status, executed>>

\* A run that never ran neither succeeds nor fails, a parked run ends only by
\* being interrupted, and only a stopped run is cancelled.
Follows(s, t) ==
  \/ s = "pending" /\ t \in {"running", "interrupted", "cancelled"}
  \/ s = "running" /\ t \in {"waiting"} \cup Ended
  \/ s = "waiting" /\ t \in {"running", "interrupted"}

Move(t) ==
  /\ Follows(status, t)
  /\ t = "cancelled" => stopping
  /\ status' = t
  /\ UNCHANGED <<stopping, executed>>

Next == Stop \/ Execute
             \/ (\E t \in {"running", "waiting"} \cup Ended : Move(t))

Spec == Init /\ [][Next]_<<status, stopping, executed>>
=============================================================================
