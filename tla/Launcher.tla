------------------------------ MODULE Launcher ------------------------------
(***************************************************************************)
(* Admission (run/launcher.ts over repo/runs.ts): a fire starts a run,     *)
(* leaves a durable `queued` row or is skipped, under its trigger's policy *)
(* and its pipeline's cap; a drain admits queued rows when a slot is       *)
(* freed.  `fire`, `runNow` and a drain are synchronous, so each is one    *)
(* action; drives, alarms, the terminal tap's microtask and the process's  *)
(* end and restart interleave with them.                                   *)
(*                                                                         *)
(* A row is [trig, pipe, st, at].  Its index is its rowid, which also      *)
(* orders `queuedAt`; `at` is `startedAt` in milliseconds, 0 while the row *)
(* has not been admitted.  What the drive of a run does in between is      *)
(* RunDrive's subject: here a driven run parks, is held or ends.  A row    *)
(* that is `held` still says `running` in the table, but nothing of its    *)
(* run is at work: a retry is held for its alarm, or a fault was filed.    *)
(***************************************************************************)
EXTENDS Integers, Sequences, FiniteSets, FiniteSetsExt

CONSTANTS
  Triggers, Pipelines,
  NoTrigger,       \* triggerId of a run started from the editor
  Binding,         \* the pipeline each trigger is bound to at first
  Policy,          \* concurrency.policy
  ConcMax,         \* concurrency.max, 0 when the row has no valid one; for a
                   \* `queue` trigger, maxConcurrentWindows (0 when absent)
  PipeCap,         \* pipelines.concurrency; MaxRuns or more never binds
  MaxQueueDepth,
  MaxRuns,         \* bounds of the instance: rows,
  MaxManual,       \*   rows the editor starts,
  MaxParks,        \*   parks,
  MaxHolds,        \*   drives that end with their run held,
  MaxRebinds,      \*   edits of a trigger's binding,
  MaxStops         \*   crashes and shutdowns

ASSUME LauncherAssumption ==
  /\ NoTrigger \notin Triggers
  /\ Binding \in [Triggers -> Pipelines]
  /\ Policy \in [Triggers -> {"skip_if_running", "parallel", "queue"}]
  /\ ConcMax \in [Triggers -> Nat]
  /\ PipeCap \in [Pipelines -> Nat \ {0}]
  /\ {MaxQueueDepth, MaxRuns, MaxManual, MaxParks, MaxHolds, MaxRebinds, MaxStops} \subseteq Nat

VARIABLES
  runs,       \* the rows of the runs table (durable)
  bound,      \* triggers.pipelineVersionId (durable)
  clock,      \* the latest millisecond a row was stamped with
  drives,     \* the drives in flight: <<run, "launcher" or "alarm">>
  taps,       \* pipelines with a drain queued as a microtask
  up,         \* "down", "boot" (reconciling), "up" or "stopped"
  vacated,    \* history: the runs that parked in a drive the launcher did not
              \* start, since their pipeline was last drained
  parks, holds, rebinds, stops

vars == <<runs, bound, clock, drives, taps, up, vacated, parks, holds, rebinds, stops>>
budgets == <<parks, holds, rebinds, stops>>

-----------------------------------------------------------------------------
(* The counts and picks of repo/runs.ts, on a table of rows.               *)

Occupies(row) == row.st \in {"pending", "running", "held"}

ActiveForTrigger(rows, t) ==
  Cardinality({i \in DOMAIN rows : Occupies(rows[i]) /\ rows[i].trig = t})

ActiveForPipeline(rows, p) ==
  Cardinality({i \in DOMAIN rows : Occupies(rows[i]) /\ rows[i].pipe = p})

QueuedForTrigger(rows, t) == {i \in DOMAIN rows : rows[i].st = "queued" /\ rows[i].trig = t}

QueuedOn(rows, t, p) == {i \in QueuedForTrigger(rows, t) : rows[i].pipe = p}

\* A row cancelled while queued keeps `at` 0: it is no service of its trigger.
LastAdmitted(rows, t, p) ==
  LET own == {i \in DOMAIN rows : rows[i].trig = t /\ rows[i].pipe = p} IN
  Max({0} \cup {rows[i].at : i \in own})

NextQueued(rows, t, p) == CHOOSE i \in QueuedOn(rows, t, p) : \A j \in QueuedOn(rows, t, p) : i <= j

\* Mutant of ServedBefore: the oldest waiting fire first, whoever was served.
OldestBefore(rows, p, t, u) == NextQueued(rows, t, p) < NextQueued(rows, u, p)

\* Least recently admitted first, then the oldest waiting fire.
ServedBefore(rows, p, t, u) ==
  \/ LastAdmitted(rows, t, p) < LastAdmitted(rows, u, p)
  \/ /\ LastAdmitted(rows, t, p) = LastAdmitted(rows, u, p)
     /\ NextQueued(rows, t, p) < NextQueued(rows, u, p)

AdmissionCapacity(t) == IF Policy[t] = "skip_if_running" \/ ConcMax[t] = 0 THEN 1 ELSE ConcMax[t]

PipelineHasRoom(rows, p) == ActiveForPipeline(rows, p) < PipeCap[p]

\* The triggers a drain of p may serve; one at its own capacity is passed over.
Candidates(rows, p) ==
  {t \in Triggers : /\ QueuedOn(rows, t, p) # {}
                    /\ ActiveForTrigger(rows, t) < AdmissionCapacity(t)}

\* Date.now(): the rows of one drain share a millisecond, later ones do not.
now == clock + 1

\* One iteration of the drain: admit one row and count again.
AdmitNext(rows, p) ==
  LET t == CHOOSE t \in Candidates(rows, p) :
             \A u \in Candidates(rows, p) \ {t} : ServedBefore(rows, p, t, u) IN
  [rows EXCEPT ![NextQueued(rows, t, p)].st = "pending",
               ![NextQueued(rows, t, p)].at = now]

\* Mutant of DrainPipelineQueue: the pipeline's room is read once per drain.
DrainRoomReadOnce(rows, p) ==
  LET step[k \in 0..Len(rows)] ==
        IF k = 0 THEN rows
        ELSE LET r == step[k - 1] IN
             IF PipelineHasRoom(rows, p) /\ Candidates(r, p) # {}
             THEN AdmitNext(r, p) ELSE r
  IN step[Len(rows)]

DrainPipelineQueue(rows, p) ==
  LET step[k \in 0..Len(rows)] ==
        IF k = 0 THEN rows
        ELSE LET r == step[k - 1] IN
             IF PipelineHasRoom(r, p) /\ Candidates(r, p) # {}
             THEN AdmitNext(r, p) ELSE r
  IN step[Len(rows)]

-----------------------------------------------------------------------------
\* The rows a step leaves `pending` that were not: their drives are started.
Admitted ==
  {i \in DOMAIN runs' : /\ runs'[i].st = "pending"
                        /\ i \in DOMAIN runs => runs[i].st # "pending"}

DriveAdmitted(live) ==
  /\ drives' = live \cup {<<i, "launcher">> : i \in Admitted}
  /\ clock' = Max({clock} \cup {runs'[i].at : i \in Admitted})

Init ==
  /\ runs = <<>> /\ bound = Binding /\ clock = 0 /\ drives = {} /\ taps = {} /\ up = "up"
  /\ vacated = {} /\ parks = 0 /\ holds = 0 /\ rebinds = 0 /\ stops = 0

Insert(trig, p, st, at) ==
  /\ Len(runs) < MaxRuns
  /\ runs' = Append(runs, [trig |-> trig, pipe |-> p, st |-> st, at |-> at])
  /\ DriveAdmitted(drives)
  /\ UNCHANGED <<bound, taps, up, vacated, budgets>>

\* The fire is skipped by the trigger's own policy.
Refused(t) ==
  \/ /\ Policy[t] = "skip_if_running"
     /\ ActiveForTrigger(runs, t) > 0 \/ QueuedForTrigger(runs, t) # {}
  \/ Policy[t] = "parallel" /\ (ConcMax[t] = 0 \/ ActiveForTrigger(runs, t) >= ConcMax[t])

\* Mutant of Overflows: a fire that finds a free slot does not look at the queue.
OverflowsFullOnly(t) ==
  \/ ~PipelineHasRoom(runs, bound[t])
  \/ Policy[t] = "queue" /\ ActiveForTrigger(runs, t) >= AdmissionCapacity(t)

\* The fire is queued: no room in the pipeline, or behind others of its trigger.
Overflows(t) ==
  \/ ~PipelineHasRoom(runs, bound[t])
  \/ /\ Policy[t] = "queue"
     /\ \/ ActiveForTrigger(runs, t) >= AdmissionCapacity(t)
        \/ QueuedForTrigger(runs, t) # {}

Launch(t) ==
  /\ up = "up" /\ ~Refused(t) /\ ~Overflows(t)
  /\ Insert(t, bound[t], "pending", now)

Enqueue(t) ==
  /\ up = "up" /\ ~Refused(t) /\ Overflows(t)
  /\ Cardinality(QueuedForTrigger(runs, t)) < MaxQueueDepth
  /\ Insert(t, bound[t], "queued", 0)

RunNow(p) ==
  /\ up = "up" /\ PipelineHasRoom(runs, p)
  /\ Cardinality({i \in DOMAIN runs : runs[i].trig = NoTrigger}) < MaxManual
  /\ Insert(NoTrigger, p, "pending", now)

\* cancel of a run that is still queued: a row patch, no event and no drain.
CancelQueued(i) ==
  /\ up \in {"up", "stopped"} /\ runs[i].st = "queued"
  /\ runs' = [runs EXCEPT ![i].st = "ended"]
  /\ UNCHANGED <<bound, clock, drives, taps, up, vacated, budgets>>

-----------------------------------------------------------------------------
(* Drives.                                                                 *)

Driven(i) == \E d \in drives : d[1] = i

Moves(i, from, to) ==
  /\ Driven(i) /\ runs[i].st \in from
  /\ runs' = [runs EXCEPT ![i].st = to]
  /\ UNCHANGED <<bound, clock, drives, up, rebinds, stops>>

StartRun(i) == Moves(i, {"pending"}, "running") /\ UNCHANGED <<taps, vacated, parks, holds>>

\* terminalizeInterrupted on an empty log patches the row and logs nothing.
StartRefused(i) == Moves(i, {"pending"}, "ended") /\ UNCHANGED <<taps, vacated, parks, holds>>

\* Mutant of EndRun: only the launcher's own drives cause a drain.
EndRunUntapped(i) ==
  Moves(i, {"pending", "running"}, "ended") /\ UNCHANGED <<taps, vacated, parks, holds>>

\* A terminal event is published (from `pending` when a cancel was waiting for
\* the start); the tap queues a drain of the run's pipeline.
EndRun(i) ==
  /\ Moves(i, {"pending", "running"}, "ended")
  /\ taps' = (IF up = "up" THEN taps \cup {runs[i].pipe} ELSE taps)
  /\ UNCHANGED <<vacated, parks, holds>>

\* run.waiting is not a terminal event: no drain is queued.  Only a drive the
\* launcher started has its finally still before it.
Park(i) ==
  /\ Moves(i, {"running"}, "waiting")
  /\ parks < MaxParks /\ parks' = parks + 1
  /\ vacated' = (IF <<i, "launcher">> \in drives THEN vacated ELSE vacated \cup {i})
  /\ UNCHANGED <<taps, holds>>

\* The pump has nothing to do before a retry's alarm, or a fault was filed: the
\* drive is over with the row still `running`.
HoldRetry(i) ==
  /\ Moves(i, {"running"}, "held")
  /\ holds < MaxHolds /\ holds' = holds + 1
  /\ UNCHANGED <<taps, vacated, parks>>

\* An alarm, a callback, a cancel or a lease reclaim drives the run, beside or
\* after its drives, outside the launcher and without an admission check.
Resume(i) ==
  /\ up = "up" /\ runs[i].st \in {"running", "waiting", "held"}
  /\ runs' = [runs EXCEPT ![i].st = "running"]
  /\ drives' = drives \cup {<<i, "alarm">>}
  /\ UNCHANGED <<bound, clock, taps, up, vacated, budgets>>

\* A drive is over once its run is parked, held or ended, or is left to the
\* alarm's drive behind it.
Settled(i, who) ==
  /\ <<i, who>> \in drives
  /\ \/ runs[i].st \notin {"pending", "running"}
     \/ who = "launcher" /\ <<i, "alarm">> \in drives

\* What a drain of p settles with the runs that vacated a slot of it.
VacatedElsewhere(p) == {i \in vacated : runs[i].pipe # p}

\* Mutant of LauncherSettles: a parked run is thought to keep its slot.
LauncherSettlesEnded(i) ==
  /\ Settled(i, "launcher")
  /\ IF up = "up" /\ runs[i].st = "ended"
     THEN /\ runs' = DrainPipelineQueue(runs, runs[i].pipe)
          /\ vacated' = VacatedElsewhere(runs[i].pipe)
     ELSE UNCHANGED <<runs, vacated>>
  /\ DriveAdmitted(drives \ {<<i, "launcher">>})
  /\ UNCHANGED <<bound, taps, up, budgets>>

\* driveRun's finally drains the run's pipeline.
LauncherSettles(i) ==
  /\ Settled(i, "launcher")
  /\ IF up = "up"
     THEN /\ runs' = DrainPipelineQueue(runs, runs[i].pipe)
          /\ vacated' = VacatedElsewhere(runs[i].pipe)
     ELSE UNCHANGED <<runs, vacated>>
  /\ DriveAdmitted(drives \ {<<i, "launcher">>})
  /\ UNCHANGED <<bound, taps, up, budgets>>

AlarmSettles(i) ==
  /\ Settled(i, "alarm")
  /\ drives' = drives \ {<<i, "alarm">>}
  /\ UNCHANGED <<runs, bound, clock, taps, up, vacated, budgets>>

TapDrains(p) ==
  /\ p \in taps /\ taps' = taps \ {p}
  /\ runs' = DrainPipelineQueue(runs, p)
  /\ vacated' = VacatedElsewhere(p)
  /\ DriveAdmitted(drives)
  /\ UNCHANGED <<bound, up, budgets>>

-----------------------------------------------------------------------------
(* Edits, the end of the process and boot.                                 *)

Rebind(t, p) ==
  /\ up = "up" /\ rebinds < MaxRebinds /\ p # bound[t]
  /\ bound' = [bound EXCEPT ![t] = p] /\ rebinds' = rebinds + 1
  /\ UNCHANGED <<runs, clock, drives, taps, up, vacated, parks, holds, stops>>

\* After stop() fires are skipped, drains do nothing and the tap is gone.
Stop ==
  /\ up = "up" /\ stops < MaxStops
  /\ up' = "stopped" /\ taps' = {}
  /\ UNCHANGED <<runs, bound, clock, drives, vacated, budgets>>

\* The process ends, after a stop or by a crash.
Crash ==
  /\ up # "down" /\ stops < MaxStops
  /\ up' = "down" /\ drives' = {} /\ taps' = {} /\ vacated' = {} /\ stops' = stops + 1
  /\ UNCHANGED <<runs, bound, clock, parks, holds, rebinds>>

Restart ==
  /\ up = "down" /\ up' = "boot"
  /\ UNCHANGED <<runs, bound, clock, drives, taps, vacated, budgets>>

\* reconcileOnBoot ends a run that never started and pumps another until it
\* parks, ends or is held (a held run it may leave as it is); the launcher does
\* not exist yet.
Reconcile(i) ==
  /\ up = "boot" /\ Occupies(runs[i])
  /\ \E st \in {"ended", "waiting", "held"} : runs' = [runs EXCEPT ![i].st = st]
  /\ UNCHANGED <<bound, clock, drives, taps, up, vacated, budgets>>

\* recoverQueued: every pipeline with a queued row is drained, in some order.
RecoverQueued(rows) ==
  LET waiting == {rows[i].pipe : i \in {j \in DOMAIN rows : rows[j].st = "queued"}}
      orders == {s \in [1..Cardinality(waiting) -> waiting] :
                   \A a, b \in DOMAIN s : s[a] = s[b] => a = b}
      all(s) == LET step[k \in 0..Len(s)] ==
                      IF k = 0 THEN rows ELSE DrainPipelineQueue(step[k - 1], s[k])
                IN step[Len(s)]
  IN {all(s) : s \in orders}

BootLaunch ==
  /\ up = "boot" /\ \A i \in DOMAIN runs : runs[i].st \notin {"pending", "running"}
  /\ up' = "up"
  /\ runs' \in RecoverQueued(runs)
  /\ DriveAdmitted({})
  /\ UNCHANGED <<bound, taps, vacated, budgets>>

-----------------------------------------------------------------------------
DriveStep(i) ==
  \/ StartRun(i) \/ StartRefused(i) \/ EndRun(i) \/ Park(i) \/ HoldRetry(i)
  \/ LauncherSettles(i) \/ AlarmSettles(i)

BootSteps == Restart \/ BootLaunch \/ \E i \in DOMAIN runs : Reconcile(i)

\* Every row the instance may hold has been used and is over.
Over ==
  /\ up = "up" /\ Len(runs) = MaxRuns /\ drives = {} /\ taps = {}
  /\ \A i \in DOMAIN runs : runs[i].st = "ended"
  /\ UNCHANGED vars

Next ==
  \/ \E t \in Triggers : Launch(t) \/ Enqueue(t) \/ \E p \in Pipelines : Rebind(t, p)
  \/ \E p \in Pipelines : RunNow(p) \/ TapDrains(p)
  \/ \E i \in DOMAIN runs : CancelQueued(i) \/ Resume(i) \/ DriveStep(i)
  \/ BootSteps \/ Stop \/ Crash \/ Over

Spec == Init /\ [][Next]_vars

\* What the event loop, the alarm tick and the host do by themselves.
Progress ==
  \/ \E i \in DOMAIN runs : DriveStep(i) \/ Resume(i)
  \/ \E p \in Pipelines : TapDrains(p)
  \/ BootSteps \/ (up = "stopped" /\ Crash)

(***************************************************************************)
(* As long as a drive can move (RunDrive's Terminates), a parked run has   *)
(* its alarm, a microtask is queued or the process is down, something of   *)
(* it happens.  Nobody has to fire, cancel, rebind or crash.               *)
(***************************************************************************)
Fairness == WF_vars(Progress)

FairSpec == Spec /\ Fairness

-----------------------------------------------------------------------------
(* Properties.                                                             *)

\* Every variable keeps its type; a queued row has a trigger to drain it by and
\* has not been stamped.
TypeOK ==
  /\ runs \in Seq([trig : Triggers \cup {NoTrigger}, pipe : Pipelines, at : Nat,
                   st : {"queued", "pending", "running", "held", "waiting", "ended"}])
  /\ \A i \in DOMAIN runs : runs[i].st = "queued" => runs[i].trig # NoTrigger /\ runs[i].at = 0
  /\ bound \in [Triggers -> Pipelines] /\ clock \in Nat
  /\ drives \subseteq (DOMAIN runs) \X {"launcher", "alarm"} /\ taps \subseteq Pipelines
  /\ up \in {"down", "boot", "up", "stopped"}
  /\ vacated \subseteq DOMAIN runs
  /\ parks \in 0..MaxParks /\ holds \in 0..MaxHolds
  /\ rebinds \in 0..MaxRebinds /\ stops \in 0..MaxStops

\* Whatever admits a run - a fire, the editor, a drain of several rows, boot -
\* leaves its pipeline and its trigger within their capacities, even while
\* resumed runs hold slots they were never admitted to again (both gates).
AdmitsWithinCaps ==
  [][\A i \in Admitted :
       /\ ActiveForPipeline(runs', runs'[i].pipe) <= PipeCap[runs'[i].pipe]
       /\ runs'[i].trig \in Triggers =>
            ActiveForTrigger(runs', runs'[i].trig) <= AdmissionCapacity(runs'[i].trig)]_vars

DrainToCome(p) == p \in taps \/ \E d \in drives : d[2] = "launcher" /\ runs[d[1]].pipe = p

\* A queued row that both gates would let in.
Admissible(i) ==
  /\ runs[i].st = "queued" /\ PipelineHasRoom(runs, runs[i].pipe)
  /\ runs[i].trig \in Candidates(runs, runs[i].pipe)

\* A queued row that both gates would let in has a drain of its pipeline still
\* to come: a drive whose finally will drain, or a tap (#629's latency cliff).
\* Where a run vacated the slot in a drive the launcher did not start, nobody
\* may drain before that run ends; then its own tap does.
QueueNotStranded ==
  up = "up" => \A i \in DOMAIN runs : Admissible(i) =>
    \/ DrainToCome(runs[i].pipe)
    \/ \E v \in vacated : runs[v].pipe = runs[i].pipe /\ runs[v].st # "ended"

\* On a well-typed table, fires of a `queue` trigger on one pipeline are
\* admitted in arrival order, by the fast path, a drain or boot.
FifoPerTrigger ==
  TypeOK /\ \A i, j \in DOMAIN runs :
    ( /\ i < j /\ runs[i].trig = runs[j].trig /\ runs[i].pipe = runs[j].pipe
      /\ runs[i].st = "queued" /\ Policy[runs[i].trig] = "queue" ) => runs[j].at = 0

\* No monopoly: a drain never admits a trigger's fire while one of a trigger
\* that was served less recently, this drain included, is left waiting for the
\* pipeline alone.
NoMonopoly ==
  [][\A i \in Admitted \cap DOMAIN runs : \A u \in Triggers \ {runs[i].trig} :
       LET p == runs[i].pipe IN
       u \in Candidates(runs', p) =>
         LastAdmitted(runs, runs[i].trig, p) <= LastAdmitted(runs', u, p)]_vars

\* Whatever parks, ends, crashes or shuts down, the queue empties again: no
\* fire is left queued for good (drainPipelineQueue's callers).
FairLaunch == []<>(\A i \in DOMAIN runs : runs[i].st # "queued")
=============================================================================
