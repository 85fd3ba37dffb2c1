---------------------------- MODULE ExternalWait ----------------------------
(***************************************************************************)
(* A node that waits for an inbound call: its status in the run's log, the *)
(* correlation row that a callback presents itself to                      *)
(* (repo/external-waits.ts), the expiry alarm                              *)
(* (scheduler/external-wait-alarm.ts), the driver's arm (run/driver.ts),   *)
(* the Web request in flight (run/executor.ts) and the completer           *)
(* (run/external-wait-service.ts).  A node is                              *)
(*   webhook : parked as soon as it is reached;                            *)
(*   web     : a Web *Wait for callback*, parked when its request answered;*)
(*   webonly : one without a Request URL, parked from its preparation.     *)
(*                                                                         *)
(* The arm writes the alarm, the row and the event one after the other     *)
(* with no await between them: only a crash can separate them.  Timeouts   *)
(* are short: a pending alarm may be due at any time.                      *)
(***************************************************************************)
EXTENDS Integers

CONSTANTS MaxAttempts, MaxCrashes    \* bounds of the instance

ASSUME WaitAssumption == MaxAttempts \in Nat \ {0} /\ MaxCrashes \in Nat

VARIABLES
  kind,      \* "webhook", "web" or "webonly"
  node,      \* the log: [st, att, n], `att` 0 once cleared, `n` attempts so far
  cancel,    \* the log: "none" or "requested"
  run,       \* the log: "live" or "ended"
  row,       \* external_waits.status of each attempt, "none" without a row
  early,     \* its earlyCallback
  alarm,     \* the expiry alarm of each attempt: "none", "pending" or "spent"
  request,   \* the Web request in flight: [ph, att]
  host,      \* the process: "up", "boot" (up, the run not yet driven) or "down"
  accepted,  \* history: what the caller of each attempt was told is accepted
  downs

waitVars == <<kind, node, cancel, run, row, early, alarm, request, host, accepted, downs>>

Attempts == 1..MaxAttempts

Kinds == {"webhook", "web", "webonly"}

\* "held" is `ready` with a request's answer held (ns.callback).
NodeStates == {"ready", "held", "dispatched", "retry_pending", "parked",
               "success", "failure", "skipped"}

Bodies == {"ok", "error"}

NoRequest == [ph |-> "none", att |-> 0]

Waiting(a) == [st |-> IF kind = "webonly" THEN "held" ELSE "ready", att |-> a, n |-> a]

InFlight == node.st \in {"ready", "held", "dispatched", "retry_pending"}

\* A fold on the node; a run that ended ignores it.
Folds(st) == node' = IF run = "live" THEN [node EXCEPT !.st = st] ELSE node

-----------------------------------------------------------------------------
(* The correlation row.                                                    *)

\* recordExternalWait: any row there is stays.
Recorded(a) == [row EXCEPT ![a] = IF @ = "none" THEN "pending" ELSE @]

\* Mutant of Expired: the settle is not guarded by `pending`.
ExpiredAnyway(a) == [row EXCEPT ![a] = IF @ = "none" THEN @ ELSE "expired"]

\* Mutant of Expired: the side effect on the row is forgotten.
ExpiredNever(a) == row

\* markExternalWaitExpired
Expired(a) == [row EXCEPT ![a] = IF @ = "pending" THEN "expired" ELSE @]

-----------------------------------------------------------------------------
(* The Web request.                                                        *)

\* A dispatch under a cancel ends as cancelled without running the adapter.
Dispatch ==
  /\ host = "up" /\ run = "live" /\ kind = "web" /\ node.st = "ready"
  /\ IF cancel = "none"
       THEN Folds("dispatched") /\ request' = [ph |-> "starting", att |-> node.att]
       ELSE Folds("failure") /\ UNCHANGED request
  /\ UNCHANGED <<kind, cancel, run, row, early, alarm, host, accepted, downs>>

\* The row is recorded before the request, so a call that comes back before
\* the answer finds it.
SendRequest ==
  /\ request.ph = "starting" /\ request' = [request EXCEPT !.ph = "sent"]
  /\ row' = Recorded(request.att)
  /\ UNCHANGED <<kind, node, cancel, run, early, alarm, host, accepted, downs>>

Dispatched(a) == node.st = "dispatched" /\ node.att = a

\* awaitCallback, folded by onAwaitingCallback.
RequestAnswered ==
  /\ request.ph = "sent" /\ request' = NoRequest
  /\ IF Dispatched(request.att)
       THEN Folds(IF cancel = "none" THEN "held" ELSE "failure")
       ELSE UNCHANGED node
  /\ UNCHANGED <<kind, cancel, run, row, early, alarm, host, accepted, downs>>

\* Any other end, a missing public URL included: `finally` expires the row
\* before the failure is folded.
RequestFails ==
  /\ request.ph # "none" /\ request' = NoRequest
  /\ row' = Expired(request.att)
  /\ IF Dispatched(request.att)
       THEN \E st \in {"failure"} \cup {s \in {"retry_pending"} : cancel = "none"} : Folds(st)
       ELSE UNCHANGED node
  /\ UNCHANGED <<kind, cancel, run, early, alarm, host, accepted, downs>>

-----------------------------------------------------------------------------
(* The park.                                                               *)

\* Mutant of Owed: a settled row counts as a wait that is over.
OwedUnsettled ==
  /\ host = "up" /\ run = "live" /\ node.st \in {"held"} \cup {s \in {"ready"} : kind = "webhook"}
  /\ row[node.att] # "completed"

\* The node's scheduleExternalWait is queued, or a resume emits it again.
Owed == host = "up" /\ run = "live" /\ node.st \in {"held"} \cup {s \in {"ready"} : kind = "webhook"}

\* Mutant of ArmLive: a replayed arm takes the alarm it finds, spent or not.
ArmOnce(a) == [alarm EXCEPT ![a] = IF @ = "none" THEN "pending" ELSE @]

\* armLive: a spent alarm is replaced, at its original due time.
ArmLive(a) == [alarm EXCEPT ![a] = "pending"]

\* Mutant of Arrived: the error an early callback reported is dropped.
ArrivedWell == IF early[node.att] = "none" THEN "none" ELSE "ok"

\* What the attempt's row says arrived before the park.
Arrived == early[node.att]

\* armExternalWait and onExternalWaitCreated
ArmExternalWait ==
  /\ Owed
  /\ IF Arrived # "none"
       THEN UNCHANGED <<row, alarm>>
       ELSE alarm' = ArmLive(node.att) /\ row' = Recorded(node.att)
  /\ Folds(IF node.st = "held" /\ cancel # "none" THEN "failure"
           ELSE CASE Arrived = "ok"    -> "success"
                  [] Arrived = "error" -> "failure"
                  [] OTHER             -> "parked")
  /\ UNCHANGED <<kind, cancel, run, early, request, host, accepted, downs>>

\* The process dies with the arm half done.
CrashInArm ==
  /\ Owed /\ Arrived = "none" /\ downs < MaxCrashes
  /\ alarm' = ArmLive(node.att)
  /\ row' \in {row, Recorded(node.att)}
  /\ downs' = downs + 1 /\ host' = "down" /\ request' = NoRequest
  /\ UNCHANGED <<kind, node, cancel, run, early, accepted>>

-----------------------------------------------------------------------------
(* The two ends of a wait.                                                 *)

\* One transaction: the row, the log's end, the node at the row's attempt.
Completable(a) ==
  /\ row[a] = "pending" /\ run = "live" /\ node.att = a
  /\ node.st = "parked" \/ (kind # "webhook" /\ node.st \in {"ready", "held", "dispatched"})

\* A webhook reports no error; a body its contract refuses changes nothing.
Callback(a, body) ==
  /\ host # "down" /\ Completable(a) /\ (kind = "webhook" => body = "ok")
  /\ row' = [row EXCEPT ![a] = "completed"]
  /\ accepted' = [accepted EXCEPT ![a] = body]
  /\ IF node.st = "parked"
       THEN Folds(IF body = "ok" THEN "success" ELSE "failure") /\ UNCHANGED early
       ELSE early' = [early EXCEPT ![a] = body] /\ UNCHANGED node
  /\ UNCHANGED <<kind, cancel, run, alarm, request, host, downs>>

\* The durable alarm's handler: the row is expired whatever the verdict, the
\* node only when it is still parked at the alarm's attempt.
AlarmFires(a) ==
  /\ host # "down" /\ alarm[a] = "pending"
  /\ alarm' = [alarm EXCEPT ![a] = "spent"]
  /\ row' = Expired(a)
  /\ IF node.st = "parked" /\ node.att = a THEN Folds("failure") ELSE UNCHANGED node
  /\ UNCHANGED <<kind, cancel, run, early, request, host, accepted, downs>>

-----------------------------------------------------------------------------
(* The rest of the run.                                                    *)

\* A retry that is due, or the next round of a loop.
NextAttempt ==
  /\ host = "up" /\ run = "live" /\ cancel = "none" /\ node.n < MaxAttempts
  /\ node.st \in {"retry_pending", "success", "failure"}
  /\ node' = Waiting(node.n + 1)
  /\ UNCHANGED <<kind, cancel, run, row, early, alarm, request, host, accepted, downs>>

\* onContainerTimedOut abandons the node; its request is not cancelled.
LoopTimesOut ==
  /\ host # "down" /\ run = "live" /\ cancel = "none" /\ (InFlight \/ node.st = "parked")
  /\ node' = [node EXCEPT !.st = "skipped", !.att = 0]
  /\ UNCHANGED <<kind, cancel, run, row, early, alarm, request, host, accepted, downs>>

CancelFolds ==
  /\ host # "down" /\ run = "live" /\ cancel = "none" /\ cancel' = "requested"
  /\ Folds(IF node.st = "retry_pending" THEN "failure" ELSE node.st)
  /\ UNCHANGED <<kind, run, row, early, alarm, request, host, accepted, downs>>

\* The run finishes once its nodes have ended, once nothing is in flight under
\* a cancel, or at any point because its pump threw.
RunEnds ==
  /\ host # "down" /\ run = "live" /\ run' = "ended"
  /\ UNCHANGED <<kind, node, cancel, row, early, alarm, request, host, accepted, downs>>

WaitCrash ==
  /\ host # "down" /\ downs < MaxCrashes
  /\ downs' = downs + 1 /\ host' = "down" /\ request' = NoRequest
  /\ UNCHANGED <<kind, node, cancel, run, row, early, alarm, accepted>>

\* resumeCancelled: what a lost command owed ends as failed.
ResumedUnderCancel(lost) ==
  IF cancel # "none" /\ node.st \in lost THEN Folds("failure") ELSE UNCHANGED node

\* The reconciler: a request in flight when the process died is never sent
\* again; a run whose reconcile met a transient fault is left as it is
\* (`boot`), and the clock's first tick runs all the same.
WaitReboot ==
  /\ host = "down" /\ host' \in {"boot", "up"}
  /\ run' = IF node.st = "dispatched" /\ cancel = "none" THEN "ended" ELSE run
  /\ ResumedUnderCancel({"ready", "held", "dispatched"})
  /\ UNCHANGED <<kind, cancel, row, early, alarm, request, accepted, downs>>

\* Its lease, or another node's alarm, drives the run again.
Resume ==
  /\ host = "boot" /\ host' = "up" /\ ResumedUnderCancel({"ready", "held"})
  /\ UNCHANGED <<kind, cancel, run, row, early, alarm, request, accepted, downs>>

WaitInit ==
  /\ kind \in Kinds /\ node = Waiting(1)
  /\ cancel = "none" /\ run = "live" /\ request = NoRequest /\ host = "up" /\ downs = 0
  /\ row = [a \in Attempts |-> "none"] /\ early = [a \in Attempts |-> "none"]
  /\ alarm = [a \in Attempts |-> "none"] /\ accepted = [a \in Attempts |-> "none"]

WaitNext ==
  \/ Dispatch \/ SendRequest \/ RequestAnswered \/ RequestFails
  \/ ArmExternalWait \/ CrashInArm
  \/ \E a \in Attempts : AlarmFires(a) \/ \E body \in Bodies : Callback(a, body)
  \/ NextAttempt \/ LoopTimesOut \/ CancelFolds \/ RunEnds
  \/ WaitCrash \/ WaitReboot \/ Resume

WaitSpec == WaitInit /\ [][WaitNext]_waitVars

\* The drive performs what it owes, the clock ticks, the operator restarts
\* the process, a request has a timeout.  No callback has to come.
WaitFairness ==
  /\ WF_waitVars(ArmExternalWait) /\ WF_waitVars(\E a \in Attempts : AlarmFires(a))
  /\ WF_waitVars(WaitReboot) /\ WF_waitVars(Resume)
  /\ WF_waitVars(RequestAnswered \/ RequestFails) /\ WF_waitVars(SendRequest)

WaitFairSpec == WaitSpec /\ WaitFairness

-----------------------------------------------------------------------------

\* Every variable of the wait keeps its type.
WaitTypeOK ==
  /\ kind \in Kinds
  /\ node \in [st : NodeStates, att : 0..MaxAttempts, n : Attempts]
  /\ cancel \in {"none", "requested"} /\ run \in {"live", "ended"}
  /\ row \in [Attempts -> {"none", "pending", "completed", "expired"}]
  /\ early \in [Attempts -> Bodies \cup {"none"}]
  /\ accepted \in [Attempts -> Bodies \cup {"none"}]
  /\ alarm \in [Attempts -> {"none", "pending", "spent"}]
  /\ request \in [ph : {"none", "starting", "sent"}, att : 0..MaxAttempts]
  /\ host \in {"up", "boot", "down"} /\ downs \in Nat

\* A waiting node succeeds only by a callback that was accepted for that very
\* attempt and did not report an error: not by the expiry, by a call to an
\* older attempt's URL, or by a call the caller saw refused.
SuccessIsCalledBack == node.st = "success" => accepted[node.att] = "ok"

\* A node whose callback was accepted never parks: its row takes no second
\* call, so it could only expire over an answer the caller believes was taken.
AnsweredNeverParks == node.st = "parked" => accepted[node.att] = "none"

\* A parked node has a live alarm, after any crash and any tick that came
\* between the arm and the event.
ParkedHasAlarm == node.st = "parked" /\ run = "live" => alarm[node.att] = "pending"

\* An accepted callback stands: no duplicate call, expiry or failing request
\* changes the answer or the row.
AcceptedStands ==
  [][\A a \in Attempts : accepted[a] # "none" => accepted'[a] = accepted[a] /\ row'[a] = "completed"]_waitVars

\* On a run that is not being cancelled, a row that still takes a call belongs
\* to an attempt that is under way or has an alarm to expire it; only a node
\* that its loop's timeout abandoned may leave one behind.
OfferIsAlive ==
  \A a \in Attempts :
    run = "live" /\ cancel = "none" /\ row[a] = "pending" =>
      \/ alarm[a] = "pending" \/ request.att = a
      \/ node.att = a /\ node.st \in {"held", "dispatched"}
      \/ node.st = "skipped"

\* A parked node is called back, expires or goes with its run.
ParkEnds == node.st = "parked" ~> node.st # "parked" \/ run = "ended"

\* A callback that came before the park settles its node.
EarlyIsUsed ==
  \A a \in Attempts :
    (node.st = "held" /\ node.att = a /\ early[a] # "none")
      ~> (node.st \in {"success", "failure", "skipped"} \/ run = "ended")
=============================================================================
