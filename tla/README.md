# A TLA+ model of the autonomy-engine run engine

The repository's live product is `studio/`: a server that runs user-authored
pipelines. A *run* is event-sourced: `shared/src/engine/reduce.ts` folds a log of
events to a run state and hands back commands, `server/src/run/driver.ts` pumps
those commands, and a `runs` row mirrors the log's status for queries and
admission. Alarms, cancels, callbacks, child runs, boot recovery, the lease sweep,
the admission queue and the tumbling scheduler all touch the same logs and rows from
outside the pump. This project models that core, model-checks it on small instances
and proves part of it for all of them. (`engine/` and `loop/` hold a parked
bash/python prototype.)

Paths below are relative to `src/studio/packages/`, in `server/src/` where nothing
else is said.

## 1. Inventory

| Component | State | Operations | Interacts with |
|---|---|---|---|
| Reducer, `shared/src/engine/reduce.ts` | none; a pure fold over `RunState` | `reduce` for about 30 events, `seedState`, `settleWalk`, readiness, outcome | driver, reconciler, alarms, child runs |
| Driver and pump, `run/driver.ts` | in-memory `RunState`, command queue, live streams | `startRun`, `driveRun`, `driveCancelIntent`, `pump`, `terminalizeInterrupted`, `syncRunLifecycle` | log, row, executor, alarms, bus |
| Drive lock, `run/drives.ts` | a promise chain per run | `serialize` | everything that pumps a run |
| Executor, `run/executor.ts` | slots, abort controllers | preflight, `node.dispatched`, slot, adapter, result | pump, connectors |
| Cancel, `run/cancel.ts`, `cancel-service.ts` | intents and pump markers | `cancel`, `request`, `poke`, `take` | pump, lock, child runs |
| Alarms, `scheduler/alarms.ts`, `durable-alarm-handler.ts`, `repo/scheduled-wakeups.ts` | durable wake-up rows | `arm`, `tick`, guard, fire, suppress, supersede | log and row in one transaction, then a drive |
| Boot reconciler, `run/reconcile.ts` | none | `reconcileOnBoot`, `reconcileOne`, `recoverHeld`, the pending sweep | log, row, alarms, pump |
| Lease, `scheduler/lease.ts` | `leaseUntil`, its alarm, reclaims in flight | sweep, renew, bump, fire, reclaim | drive lock, reconciler |
| Launcher, `run/launcher.ts`, `repo/runs.ts` | durable `queued` rows | `fire`, `runNow`, `drainPipelineQueue`, `recoverQueued`, the terminal tap, `stop` | driver, bus, triggers |
| External waits, `run/external-wait-service.ts` | wait rows, early callbacks | arm, call back, complete, expire | log and row, alarms, the Web request |
| Child runs, `run/child.ts` | parent and child rows and logs | ensure, announce, kick, return, detach, cancel | two runs' logs, boot, lease |
| Tumbling windows, `scheduler/tumbling.ts` | window rows per epoch, cursor, alarms | sync, seed, materialize, link, settle, retry, backfill, reconcile | launcher, bus, boot |
| Delivery ledger, `routes/fire-through-ledger.ts` | claims per key | claim, finalize, release | launcher |
| Keyed queue, `util/keyed-queue.ts` | a promise chain per key | `run`, `acquire`, abort | connectors |
| Quota reader, `quota/claude-quota.ts` | one cached sample, a window | `read` | usage page |
| Schedule ticks, process supervisor, copy watermarks | small tables or in-memory machines | - | launcher, executor |
| Expressions, connectors, secrets, git, HTTP, web UI | - | text, I/O, presentation | - |

What is hard here:

- **Two views of one run.** A pump keeps its own state and never re-reads the log,
  while alarms append to the log beside it. Decisions are made on the older view.
- **Two durable facts per step.** The log is written first and the row synced after;
  a crash or throw fits between them, between arming an alarm and logging it, between
  a child's row and its parent's announcement, between a window's run and its link,
  between a delivery's claim and its outcome.
- **Cancelling.** An intent may meet a run that is starting, pumping, tearing down,
  parked, crashed or ended, must be folded exactly once and stop all work, and must
  reach attached children but not detached ones.
- **Recovery.** Boot sees the runs its scans select, and must decide per run: resync, cancel, interrupt, hold, re-arm, or
  resume, and must not repeat a side effect that is not idempotent.
- **Admission.** Slots are counted on rows; they are freed by drives of the launcher,
  by drives of alarms, by boot, and the queue must be drained by one of them, though only
  some of these look at it.
- **Keys that are used once.** A wake-up's dedupe key never arms twice. Leases, parks
  and window chains each depend on never needing a key that was spent.

Every hazard in `PROJECT.json` sits at its line and names the properties that would
catch it.

## 2. Modules

| Module | Models | Lives in run |
|---|---|---|
| `RunReducer` | the pure fold: state, events, commands | with `RunDrive` |
| `RunDrive` | one run: log, row, alarms, lock, pump, streams, cancel, crash, reconciler | `drive_*`, `stranded_park`, `double_run` |
| `RunLifecycle` | abstract specification: what a run's status, cancel and executions may do | refined by `RunDrive` |
| `Launcher` | admission of many runs: policies, caps, queue, drain, boot | `launch_*`, `rebound_queue` |
| `ChildRuns` | one parent, its attached and detached children | `child_runs`, `orphan_child` |
| `ExternalWait` | one waiting node: row, callback, alarm, request | `services` |
| `Tumbling` | one trigger's windows over two geometries | `tumbling`, `skipped_window` |
| `RunLease`, `KeyedQueue`, `DeliveryLedger`, `QuotaReader` | services without shared state | `services` (through `MCServices`) |
| `MCRunDrive`, `MCLauncher`, `MCServices` | the instances TLC runs on | |
| `RunReducerProofs`, `RunDriveProofs`, `RunLifeProofs`, `RunSoloProofs` | theorems, each module on top of the one before | |
| `LauncherProofs`, `ServiceProofs` (lease, queue, ledger, quota, external wait), `ChildRunsProofs`, `TumblingProofs` | theorems | |

### RunReducer

A run state is `[status, cancel, nodes]` with, per node, its status, current
attempt and retries used. `Reduce(s, e)` returns the next state, the set of node
commands and the run-level ending (`parkRun` or a `finishRun` outcome). `Settle` is
`settleWalk` followed by its verdict; `ReducePending`, `Reduce` and `ReduceLive` are
the guards of `reduce` in their order, in particular the guard that lets only the
un-park events through while a run is `waiting`.

Abstractions: documents consist of activities and `wait` nodes, joined by success
edges under join `all`. Outputs and variables are left out. Commands are a set: a
fold never emits the same command twice, and the pump's order within a batch is
left open. The skip cascade takes the ancestor relation `Anc` instead of iterating to
the fixpoint.

### RunDrive

| Variable | Code |
|---|---|
| `proj`, `fact`, `ctx` | the log: its projection, its first terminal event, whether `run.triggerContext` is in it |
| `row` | `runs.status` |
| `armed`, `spent` | pending and settled wake-up rows, keyed by node and attempt |
| `lockq`, `job`, `pc` | the drive lock's queue, the job holding it, where that job is |
| `mem`, `todo`, `ending`, `hand`, `dirty` | the pump: its state, its command queue, the command between arm and append, a row sync still to come |
| `streams`, `failing` | the dispatch streams and their abort flags; a throw the pump will report |
| `intent`, `marker` | the cancel intent and the live pump's marker |
| `began`, `again` | history: attempts whose adapter was started, and those started twice |

Each await of the code is a point where another actor may act; between two awaits the
code is synchronous, so alarms, cancels and lease reclaims are guarded by `AtAwait`.
A crash or a thrown write may happen at any step, also inside a synchronous section,
because it can separate two writes. `Init` is a run whose row exists and whose
launcher holds the lock; `intent` may already be set, as for a child whose parent is
cancelled (`child.ts`, `requestCancelFromParent`).

An alarm's fire is one action, as it is one transaction in the code, and the drive
is queued afterwards in memory, so a crash loses it. `AppendAndFold` leaves `dirty`
set and `SyncRow` is the second write. `RcRearm` ... `RcPump` are the branches of
`reconcileOne` in the order the code tests them. A reconciler's throw is only
reported; any other job's interrupts the run.

Left out: `startRun` on a log that already has events, `MAX_DRIVER_STEPS` and the
finish-fold cap, the row patch after a failed interrupt append, deferred nodes and
missing executors, the copy-watermark refusal, events an adapter streams before its
result, control commands. An adapter reports `cancelled` only when it was aborted.

### RunLifecycle

Three variables: status, whether a cancel is logged, executed attempts. It says which
status moves are legal, that ends are final, that nothing is executed after a cancel
and that a cancel is never withdrawn. `RunDrive` implements it under
`status <- row, stopping <- proj.cancel # "none", executed <- began`.

### Launcher

`runs` is the table, a row `[trig, pipe, st, at]` at its rowid. `Launch` and `Enqueue`
are the outcomes of `fire` (a skipped fire changes nothing), with `Refused` and
`Overflows` the tests of its three policies. `DrainPipelineQueue` is the whole loop,
one admission per iteration with the counts read again; `ServedBefore` is the fair
order of `queuedTriggerCandidatesForPipeline`. `LauncherSettles` is `driveRun`'s
`finally`, `EndRun` and `TapDrains` the terminal tap and its microtask, `BootLaunch`
is `recoverQueued` after `Reconcile` of every occupying row. `drives` tells the
launcher's drives from the ones alarms and callbacks start, because only the first
drain when they settle.

A drive settles when its run ends, parks, or is *held*: a retry that waits for its alarm
ends the drive with the row still `running` (`HoldRetry`; the model calls such a row
`held`, and counts it as `running`), and boot leaves such rows too. A held or parked run
goes on in a drive of its alarm (`Resume`), which may also start beside the launcher's
own; the launcher's then settles without the run having moved (`Settled`). `vacated` is
history: runs that freed their slot by a park in a drive that does not drain.

Abstractions: the index of a row stands for `rowid` and `queuedAt`; the rows of one
drain share a `startedAt` and different steps never do; caps are constants (an
uncapped pipeline is one whose cap is at least `MaxRuns`); no archived pipelines,
unparseable rows, deleted triggers or child runs.

### RunLease

`leaseUntil` is due time, generation token and dedupe key of its alarm at once, so an
alarm is modelled as its generation, pending or spent. `Sweep` is `sweepOne` on the
run's row: `Renew` (with `supersedeWakeup`, which throws and rolls back when the
replacement key exists), or `Watch`, whose bump must pass every used key. `FireLease`
and `SuppressLease` are the handler's guard, `BeginReclaim` ... `ReclaimLeaves` the
reclaim under the drive lock, where everything is read again. `RunDrive` takes the same
reclaim as one step. Drives, their row changes, time and crashes are the environment.

### KeyedQueue, DeliveryLedger, QuotaReader

`KeyedQueue`: tickets in submission order; the promise chain of a key is each ticket's
predecessor plus the map's tail, which the last one clears. An aborted waiter is
rejected at once and gives its turn up when it comes. `DeliveryLedger`: a call claims
its key, fires the launcher, and finalizes or releases; a crash or a throwing write
fits between any two of these. `QuotaReader`: the cached sample, the window that
doubles under rate limits, one sample in flight; the wall clock may step either way.

### ExternalWait

One node that waits for a call from outside, in three kinds (a `webhook` node, a Web
node with a callback, one that only waits). Per attempt there is the correlation row,
the early callback, the alarm and, as history, the answer a caller was given
(`accepted`). The request of a Web node may call back before it returns, may fail, or
be abandoned by its loop's timeout. `Arm` and `Park` are two writes; `Resume` is what a
drive after a crash does with the held node.

### ChildRuns

One parent and its `Calls`, some `Detached`. The parent is its cancel, the status of
each call node and the announcements in its log; a child is its log, its row and
whether the row is behind it (`dirty`). The executor's stream per call goes through
ensure, announce, kick and, for a detached call, detach; `told` are runs whose terminal
event is on the bus and not yet delivered. Boot is the scan over running rows, then
the sweep of pending ones; a lease reclaim does the same for one run. What happens
inside a pump is left to `RunDrive`: here a driven child ends or rests (`ChildRests`),
parked with its row `waiting` or held with its row `running`, until its alarm drives it
again (`AlarmDrives`).

Calls in `Contracts` declare outputs; `unmet` holds those whose contract the outputs do
not meet, chosen when a child succeeds and, for a detached call, at the start, as a detach
brings no outputs at all. `Returned` fails such a call although its child succeeded, and a
detached one although it was announced.
`slept` is history: attached children found parked at a boot after their parent's end.

### Tumbling

A window is a key `<<epoch, k>>`; its row has status, origin, current run, attempt,
retry time, and its links. `runs[w]` are the runs fired for it in order. `task` is
the one synchronous pass of the service at work: `sync` (drop, seed, heal, supersede,
backfill), `scan` (materialize row by row, with fire and link as two writes), and the
boot sequence settle - heal - scan - sync. `cursor` is the backfill cursor of an epoch.
Edits of the trigger change its epoch, its cap, its switch or its binding.

Abstractions: a window's grid is an index; retry delays are one constant; at most
`MATERIALIZE_BATCH` windows per pass is not reached; corrupt rows, edits of mode and
`endTime` and a run whose row is missing are left out.

## 3. Runs

| Run | Instance | States | Shows |
|---|---|---|---|
| `drive_join` | two activities and their join, 1 retry, 2 slots, 1 crash, 2 throws, cancel | 565,888 | attempts run once, effects are logged first, no repeat of a non-idempotent effect, ends are true, intents have a taker, cancel stops work, the lifecycle is implemented |
| `drive_ends` | fair; two activities joined by a wait, 1 slot, 1 retry, 2 crashes | 81,050 | a parked run can wake, every run ends with row and log agreeing |
| `launch_gates` | fair; queue + skip trigger, 1 slot, 3 rows, a held retry, a park, a stop or crash | 220,700 | no waiter beside a free slot nobody will drain, the queue empties |
| `launch_restart` | queue + parallel trigger, 1 editor run, 2 pipelines of 1 slot, 3 rows, a rebind, a park, a stop or crash | 2,367,487 | arrival order, both gates and rotation survive them |
| `services` | 4 tickets; 2 keys, 3 sends, 2 failures; ttl 2, cap 7; lease TTL 2, 5 time steps, 2 drives, 1 crash; three kinds of wait, 2 attempts, 2 crashes (queue and waits fair) | 157,810 | each service on its own; the right callback wins, stands, and every wait ends |
| `child_runs` | fair; one waiting and one detached call, either contract broken, 1 crash, 1 throw or operator cancel | 490,217 | calls tell their children, results arrive, ends propagate to attached children only |
| `tumbling` | fair; 2 windows, 2 epochs, lookback 0 or 2, dependency 0 or 1, cap 0 or 1, 1 retry, any 2 edits, crashes or refusals | 952,567 | one run per attempt, an unbroken chain, every window settles |
| `stranded_park`, `double_run`, `rebound_queue`, `orphan_child`, `skipped_window` | | | the findings of section 6 |

**Bounds.** Three nodes are enough for a join and for a sibling that keeps the pump
alive while an alarm fires. One retry gives two attempts, which tells an attempt from
its node; one slot makes a stream wait for another; two crashes let a recovery be
interrupted. Three rows on one slot let a trigger be served, wait and be served again;
one held retry lets the launcher's drive settle before the run's first park. Two windows of two epochs give every order of an edit against a retry, a dependency and
a backfill; the largest interesting history of one window (fire, fail, retry, fail) fits
in `MaxClock`. A lease needs three generations (spent, live, bumped), hence five time
steps at TTL 2. Two attempts of a wait give a call to an older attempt's URL. The quota
window takes the values 2, 4 and 7, so it meets its cap off a power of two. Every bound
is a constant and sits in a guard; none is a state constraint.

**Deadlock** is checked in `drive_ends` and both passing runs of `Launcher`. The other
instances really stop: a reconcile that throws leaves its row for the next boot, which
never comes after the last crash; a wait, a parent and a trigger are done at some point.

**Fairness.** `RunDrive`: weak fairness of the steps the event loop takes by itself (the
start, the lock, the pump, the reconciler, the streams, the lease sweep), because
promises settle, executors time out and the host restarts the process; strong fairness
of each alarm, because its tick comes back every few seconds but can only act at an
await. `Launcher`: something happens as long as a drive, an alarm, a microtask or a
restart can; that drives end is what `Terminates` shows. `ExternalWait`, `ChildRuns`,
`Tumbling`: the code runs on once begun, alarms whose time has come fire, runs end, the
bus delivers and the host restarts. `KeyedQueue`: a holder releases and a chained turn
runs. No fairness for cancels, callbacks, edits, deliveries, crashes or throws.

## 4. Properties

`RunDrive`
: `AttemptOnce`, `EffectLeavesDispatched`, `NonIdempotentOnce` (side effects);
  `EndIsTrue` (the row's end is the log's, a success is earned); `WaitingHasLiveAlarm`,
  `StaleHasDrive`, `Terminates` (a run is never abandoned); `IntentHasTaker`,
  `CancelStopsWork` (cancel); `ImplementsLifecycle` (refinement).

`Launcher`
: `AdmitsWithinCaps`, `QueueNotStranded`, `FifoPerTrigger`, `NoMonopoly`, `FairLaunch`.

`RunLease`
: `LiveLeaseUnspent`, `LeaseIsWatched`, `ReclaimOnlyDead`: a lease is never silently
  unwatched and only a dead run is reclaimed.

`KeyedQueue`, `DeliveryLedger`, `QuotaReader`
: `OneHolderInOrder`, `EveryTicketIsServed`; `LaunchedOncePerWrite`,
  `ClaimIsDecidedOrFreed`; `WindowFollowsLimit` (an action property: the window stays
  within its bounds, never shrinks while the provider limits, at the cap included, and is
  back at its base once a reading ends the limit).

`ExternalWait`
: `SuccessIsCalledBack`, `AcceptedStands`, `OfferIsAlive`, `ParkEnds`, `EarlyIsUsed`.

`ChildRuns`
: `CallTellsChild`, `DetachedOutlives`, `RunsAnnounced`, `OverIsOver`, `ResultArrives`,
  `EndStopsChildren`, `DetachedStarts`.

`Tumbling`
: `WindowTellsRuns`, `BackfillSerial`, `ChainAlive`, `DependencyHolds`,
  `EveryWindowSettles`.

Each has its statement beside it, and a mutant of the code that breaks it in
`PROJECT.json`. Type invariants are conjuncts of `FifoPerTrigger`, `CallTellsChild` and
`WindowTellsRuns` and are proved with them; those of the other modules are proved too.

Where a property has an exception, the exception is what the code does:

- `AttemptOnce`, `EffectLeavesDispatched` and `WaitingHasLiveAlarm` hold where no wait
  fires beside a live pump and fail where one does (findings 1 and 2).
- `QueueNotStranded` excepts a slot vacated by a park in a drive the launcher did not
  start. The launcher's drive settles and drains while its run still occupies the slot,
  held for a retry or taken over by an alarm's drive; the run then parks in the alarm's
  drive and nothing drains, because the tap reacts to terminal events only
  (`launcher.ts:759`). The fire waits for that run's end or for another drive of the
  pipeline to settle (`FairLaunch`). The property is about triggers that keep their
  bindings (finding 3).
- `LaunchedOncePerWrite` counts `unwritten`: the write of a launch's outcome sits inside
  the `try` whose handler releases the claim, so a failing write frees the key of a run
  that exists.
- `OfferIsAlive` excepts a Web node its loop's timeout abandoned: its row stays
  `pending` with no alarm. After a spent alarm was replaced (`armLive`), an `expired` row
  is kept by `recordExternalWait`: such a park has an alarm but no URL that answers.
- `CallTellsChild` excepts a broken output contract: it fails a call whose child succeeded
  and a detached call that was announced, without any cancel (`reduce.ts:4392-4409`,
  `4502-4511`).
- `EndStopsChildren` excepts an attached child that a boot found parked after its parent
  had ended (`slept`): no pass of the boot looks at it (finding 4). Every other child is
  stopped, parked or not, across crashes.
- `RunsAnnounced` excepts a child an operator cancels while it is pending: it ends
  without ever having been announced.
- `EveryWindowSettles` excepts a refused fire, which waits for the next pass (a known
  hole by the code's own comment), and `Held`: a window whose dependency failed, or was
  left out by a late alarm and is created only by the next backfill.
- `DependencyHolds` is checked with lookbacks of nothing or the whole grid, where no
  window is passed over; finding 5 is the shorter one.

## 5. Proofs

Eight modules hold theorems. Whatever a run of section 3 fixes (documents, budgets,
slots, crashes, throws, rows, windows) is arbitrary here, within the named assumptions of
the module. `GraphAssumption` says that `Anc` is the transitive, irreflexive ancestor
relation of the document, an acyclic graph (`AncOf` computes it for the instances); TLC
evaluates the assumption on every run of `RunDrive`. Where a theorem needs more, the
hypothesis stands in its own `ASSUME`, and a finding or an exception of section 4 shows
why.

`RunReducerProofs` (every document, every run state, reachable or not)
: `ReduceType`: a fold of a well-typed event keeps the state well typed.
: `EndedStays`: a terminal state is changed by no event and emits no command.
: `CancelledStartsNothing`: a cancelled state emits no node command and holds no retry.
: `CancelFlag`: only `run.cancelRequested` raises the flag; nothing lowers it.
: `ReduceMoves`: what one fold may do to a node, which attempt a command names, and that
  an end is asked for only once nothing is in flight (`Moves`). The drive's proofs use
  the reducer through this theorem and never expand it.
: `SoundStep`: the state a log folds to stays `Sound`: a node past `pending` that was not
  skipped has only succeeded ancestors, retries stay below attempts, and no retry is held
  under a cancel. This is where the transitivity of `Anc` is needed.

`RunDriveProofs`
: `TypeCorrect`: `Spec => []TypeOK`. `TypeOK` is inductive because it includes that a
  stream offering its end has a result; the reducer enters through `ReduceType` only.
: `CancelStops`: `Spec => CancelStopsWork`. It needs `CancelInv`: every registered stream
  short of its adapter is aborted once the log holds the cancel. A stream opened later
  keeps that only because the pump's own state has seen what the log holds, because a
  start never begins on a cancelled log, and because streams exist only under a pump or
  its teardown.
: `IntentTaken`: `Spec => []IntentHasTaker`. `IntentInv` adds where the taker is: in the
  lock's queue, at work, or, for the intent a child starts with, the start itself.

`RunLifeProofs` (any document, any waits)
: `DriveInvariant`: `Spec => []DriveInv`, the inductive invariant of one run. Its parts
  are `TypeOK`, `CancelInv`, `PumpInv` (log and pump states are sound; the commands queued
  and the streams are what the pump's own state waits for) and `LifeInv` (an unborn run is untouched; what the log
  holds, what the row shows, and which of the two `dirty` says is behind).
: `RowEnds`: the row never shows an end the log does not hold, though it is written after
  the append and a crash can fall between them. A start refused before its first event
  is the exception, and the code's.
: `LifecycleImplemented`: `Spec => ImplementsLifecycle`, the refinement of `RunLifecycle`:
  initial states map to initial states, every step to a step or a stutter.
: `NonIdempotent`: an activity that is not provably idempotent begins at most once plus
  once per retry granted. `AttemptInv` bounds the attempt a node's log has reached by
  its retries, and every begun or live attempt by what the log reached; the executions
  are then counted by an injection into `1..retries + 1`.

`RunSoloProofs` (documents where every other node is upstream or downstream of each wait)
: `Once`, `EffectsLogged`, `EndsTrue`, `StaleDriven`, `ParkedWakes`: the properties
  `AttemptOnce`, `EffectLeavesDispatched`, `EndIsTrue`, `StaleHasDrive` and
  `WaitingHasLiveAlarm`. The hypothesis is `SoloWaits`; it holds of the documents of
  `drive_join` and `drive_ends`. `stranded_park` and `double_run` are documents where it
  fails, and show that `ParkedWakes` and `Once` are false without it.
: Behind them stands `SoloInvariant`. A wait that can fire has nothing beside it, so
  while the pump lives the log runs ahead of the pump's own state by fired retries only,
  and then a drive is queued (`TrackInv`, `BehindInv`). From there: a log that parks has a wait open and
  nothing else (`ParkInv`), that wait's alarm is armed (`ArmedInv`), every begun attempt
  is in the log (`BegunInv`), and no attempt begins again (`AttemptOnce`).

`LauncherProofs` (any triggers, policies, capacities, pipelines, rows, parks and crashes)
: `QueueOrder`: `Spec => []FifoPerTrigger`; `CapsHold`: `Spec => AdmitsWithinCaps`;
  `FairShare`: `Spec => NoMonopoly`. None has a hypothesis: rebinds, held
  retries, parks, stops and crashes are all allowed.
: `NoneStranded`: `[]QueueNotStranded` where `MaxRebinds = 0`, whatever is held, parked,
  resumed, crashed or booted. An edit of a binding frees a slot no drain looks at (finding
  3); a park in an alarm's drive is the exception the property states. The
  invariant `StrandInv` says that each pipeline has no admissible row, or a drain to come,
  or the end of a run that vacated a slot of it; that rows lie on their trigger's binding
  (so a freed slot concerns one pipeline); and that what an alarm drives, or parked in
  such a drive, has left the queue and been started (so a first start and its settling
  are the launcher's own).
: The drain is a recursive function of the table. `DrainUnfolds` shows that the
  definition has a solution and that each of its values is one `AdmitNext` further;
  the argument is a least counterexample among the naturals (`LeastOf`, from the
  well-foundedness of `<`) and not an induction principle. `DrainGrows` then carries
  three facts along it: rows change only by being admitted, each admission obeys the
  gates and the order of service (`Grown`), and as every iteration takes one row from the
  queue, the last leaves nothing admissible (`Stuck`). `RecoverGrows` repeats this over
  the pipelines boot drains; an enumeration without repetition names all of them because
  an injection between sets of equal cardinality is onto.

`ServiceProofs`
: `QueueSafe`: one holder, in order, never a rejected one. The invariant says that a
  ticket is chained to its direct predecessor or was submitted when all earlier ones
  were done, and that the map's tail is the last ticket or absent.
: `LedgerSafe`: `LaunchedOncePerWrite`, `ClaimIsDecidedOrFreed`, and that a decided key
  stays decided and launches nothing more. `ClaimsEnd` states the second by itself.
: `QuotaSafe`: a served reading is fresh on a clock that moves either way, and
  `WindowFollowsLimit`.
: `LeaseSafe`, `LeaseAlwaysWatched`, `ReclaimsOnlyTheDead`, `HeartbeatIsHonest` (every
  TTL, any number of drives and crashes). The inductive invariant orders generations: a
  running row's lease is the largest generation ever armed, a spent one lies strictly
  below anything granted now, and while a reclaim works none lies above the time it
  began. Hence a bump never meets a used key. For the heartbeat, a reclaim's registration
  stands at the head of the lock's chain and only while the reclaim is in flight.
: `WaitSafe` (any number of attempts and crashes): a node succeeds only by a callback
  accepted for its own attempt, an answered node never parks, a parked node has a live
  alarm. The invariant ties row, early callback and `accepted` of every attempt, says
  that attempts not begun are clean, and that a held node stands on its row.
: `AcceptedCallbackStands`: no duplicate call, expiry or failing request changes an
  accepted answer.
: `OffersAreAlive`: `[]OfferIsAlive`. `OfferInv` adds that a request in flight belongs to
  the dispatch that sent it or to a node its loop abandoned.

`ChildRunsProofs` (any calls, contracts, rests, crashes, throws and operator cancels)
: `ChildrenSafe`: `CallTellsChild`, `RunsAnnounced` and `DetachedOutlives` together. The
  invariant `ChildInv` says, for every place a child is reached from (the parent's
  stream, a queued kick, a cancel intent, a published end, the boot scan's snapshot),
  what the logs and rows must already hold. It rests on `"parent"` naming no call.
  `ChildrenAnnounced` and `DetachedSurvive` state the last two by themselves.
: `OverStays`: no queued kick, scan, sweep or reclaim starts a child that is over.

`TumblingProofs` (every grid, cap and retry budget, finitely many geometries)
: `WindowsTellRuns`: `Spec => []WindowTellsRuns`. The invariant `RowInv` gives the number
  of a window's runs from its status and attempt. Only a waiting (or since superseded)
  window may have one more run than its row links; there the look-up before the fire
  finds it, so the next fire cannot repeat the attempt.
: `BacklogIsSerial`: `Spec => []BackfillSerial`. `SerialInv` adds that no backfilled
  window runs while another one's run waits for its link.
: `ChainNeverBreaks`: `Spec => []ChainAlive`. `ChainInv` says that a geometry has at most
  one alarm, that spent keys lie below the clock, and that a trigger `sync()` has seated
  has one; so neither the handler's re-arm nor the seed meets a key `armWakeup` refuses.
: `DependenciesHold`: `[]DependencyHolds` where every lookback is 0 or spans the grid
  (`WholeLookback`, as in the run `tumbling`). Rows then appear in order, without a gap
  below the cursor (`DepInv`). Finding 5 is a shorter lookback, where the late creation
  gives a window its dependency after it ran.

Every inductive invariant was also checked by TLC on an instance. Only model-checked are
the nine liveness properties (`Terminates`, `FairLaunch`, `EveryTicketIsServed`, `ParkEnds`,
`EarlyIsUsed`, `ResultArrives`, `EndStopsChildren`, `DetachedStarts`,
`EveryWindowSettles`), which need fairness and so are out of the prover's reach. Every
invariant and action property of the runs is a theorem. Seven of them are proved under
a hypothesis: five under `SoloWaits`, `QueueNotStranded` under `MaxRebinds = 0` and
`DependencyHolds` under `WholeLookback`. `EndIsTrue` and `StaleHasDrive` are not claimed
without `SoloWaits`; the others are false without their hypothesis.

## 6. Findings

1. `stranded_park`: a pump that parks does not look at the log again. If the wait's alarm
   fired beside it, the row ends up `waiting` with its alarm settled; a crash before the
   queued drive leaves a row no scan and no alarm will ever touch (`reconcile.ts:664`
   says the alarm is always live).
2. `double_run`: a drive resumes a run whose log projects `waiting` in memory only. It
   dispatches the successor and runs its adapter, but the log drops both `node.dispatched`
   and the result, and the pump parks again and ends. When the second wait's alarm then
   un-parks the run, the log still shows the node `ready`, and that alarm's drive executes
   the same attempt once more, the outcome `drives.ts:15` says the lock removes.
3. `rebound_queue`: after a queue trigger is bound to another pipeline with a run active,
   its next fire waits on the new pipeline while only the old one is drained, and every
   later fire of the trigger queues behind it until a restart (`launcher.ts:59`).
4. `orphan_child`: a parked child's parent ends, and the process crashes before the
   in-memory cancel is folded. The boot scan takes `running` rows only (`reconcile.ts:680`),
   the sweep `pending` ones and the reclaim running ones with a lease, so the child's next
   alarm drives it for a parent that is over, although `reconcile.ts:1138-1144` says a crash
   changes nothing about how such a child ends.
5. `skipped_window`: a window that closed longer ago than the lookback during downtime is
   passed over by the backfill, whose cursor moves beyond it, and is then created and run
   by its own overdue alarm. `tumbling.ts:72` calls what lies below the cursor "created or
   deliberately skipped, never revisited", and `tumbling.ts:99` expects the backfill to
   have created it first.

## 7. Not modelled, and what comes next

- Reducer: containers, loops, `foreach`, branches, variables, edge kinds other than
  success, join `any`. Next: `EdgeModel`, readiness and outcome for all edge kinds against a
  reference definition over bounded graphs, then containers with their timeout alarm.
- The tick's batches, drift report and pruning; recheck and container-timeout alarms.
- Schedule ticks: one alarm per trigger under the seed-and-sync discipline that
  `Tumbling` models in full; the rest is recurrence arithmetic.
- Process supervisor, copy watermarks, counting slots, the event queue: small machines.
- Expressions and parameter resolution (a string language), connectors, secrets, git and
  HTTP (input and output), the web UI (presentation; more than half of the repository's
  lines), and the parked prototype under `engine/` and `loop/`.
- Proofs: `StaleHasDrive` and `EndIsTrue` for documents with waits beside other work; the
  exact documents for which `AttemptOnce` holds, which lie between `SoloWaits` and all.
