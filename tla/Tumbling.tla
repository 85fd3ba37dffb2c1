------------------------------ MODULE Tumbling ------------------------------
(***************************************************************************)
(* The tumbling-window service (scheduler/tumbling.ts) over its window     *)
(* table (repo/tumbling-windows.ts), for one trigger: the chain of         *)
(* window_due alarms, the retries, the bounded backfill, the edits that    *)
(* start a new epoch, the completion tap, sync() and the boot reconcile.   *)
(*                                                                         *)
(* The grid is the windows 0 .. Windows-1 of length one from time 0, the   *)
(* same in every epoch; endTime is Windows.  Every handler runs without an *)
(* await, so its steps (`task`) are interleaved with nothing but a crash,  *)
(* which can fall between a run's row and the window's link to it.  A      *)
(* window's event and its row are one transaction under one guard and are  *)
(* one step here.  The server deletes no run row, so the "missing" outcome *)
(* has no producer; an interrupted run settles as a failed one.  Trigger   *)
(* rows parse, the mode and endTime stay, and a pass is never cut at       *)
(* MATERIALIZE_BATCH.                                                      *)
(***************************************************************************)
EXTENDS Naturals, FiniteSets, FiniteSetsExt, Sequences, SequencesExt

CONSTANTS Windows,        \* the windows of the grid
          Epochs,         \* the geometries an edit can choose
          Lookbacks,      \* maxBackfillWindows, 0 when absent
          Offsets,        \* how many windows back a window depends, 0 when absent
          Caps,           \* maxConcurrentWindows, 0 when absent
          Retries,        \* retry.count
          RetryAfter,     \* retry.intervalInSeconds
          MaxClock,       \* bound on the time
          MaxUpsets       \* bound on edits, crashes and refused fires together

ASSUME TumblingAssumption ==
  /\ {Windows, Retries, RetryAfter, MaxClock, MaxUpsets} \subseteq Nat
  /\ Lookbacks \subseteq Nat /\ Offsets \subseteq Nat /\ Caps \subseteq Nat
  /\ Windows <= MaxClock /\ 1 \in Epochs /\ 0 \in Caps
  /\ IsFiniteSet(Epochs)

VARIABLES
  trig,       \* the trigger: its epoch, whether it is enabled and bound, its cap
  lookback, offset,
  clock,
  win,        \* the projection row of each window
  runs,       \* the runs fired for each window, oldest first
  due,        \* pending window_due alarms
  spent,      \* the ones that were delivered; their key is taken
  retries,    \* pending window_retry alarms: window, attempt, time
  cursor,     \* the backfill cursor of each epoch
  taps,       \* the windows whose run ended and whose tap is queued
  task,       \* the synchronous code at work
  skipped,    \* history: the launcher refused a fire
  upsets

tables == <<win, runs>>
alarms == <<due, spent, retries>>
config == <<trig, lookback, offset>>
bounds == <<skipped, upsets>>
vars   == <<config, clock, tables, alarms, cursor, taps, task, bounds>>

Grid   == 0 .. Windows - 1
Keys   == Epochs \X Grid
Status == {"none", "waiting", "running", "retry_pending", "succeeded", "failed", "superseded"}

NoWindow ==
  [st |-> "none", origin |-> "live", run |-> 0, links |-> {}, att |-> 0, due |-> 0]

At(ph) == task.ph = ph
Does(ph, k) == task' = [task EXCEPT !.ph = ph, !.cur = k]
Idle == At("idle")
Serving == trig.on /\ trig.bound
Now(k) == <<trig.epoch, k>>
Upset == upsets < MaxUpsets /\ upsets' = upsets + 1
In(st) == {w \in Keys : win[w].st = st}

\* firstWindowEndingAfter: the window that contains the time, none past endTime.
Upcoming == IF clock < Windows THEN {Now(clock)} ELSE {}

\* armWakeup: an alarm whose key was used before is not armed again.
Armed(rows) == rows \cup (Upcoming \ spent)

\* createWindow: an existing row wins.
Created(w, origin) ==
  IF win[w].st = "none" THEN [NoWindow EXCEPT !.st = "waiting", !.origin = origin] ELSE win[w]

-----------------------------------------------------------------------------
(* Settling a window from its run.                                         *)

Retriable(w) == w[1] = trig.epoch /\ win[w].att < Retries

\* settleIfTerminal, for the row linked to a run in status st.
Settled(w, row, st) ==
  CASE st = "live"      -> row
    [] st = "success"   -> [row EXCEPT !.st = "succeeded"]
    [] st = "failure" /\ Retriable(w) ->
         [row EXCEPT !.st = "retry_pending", !.run = 0, !.att = @ + 1,
                     !.due = Min({clock + RetryAfter, MaxClock})]
    [] OTHER            -> [row EXCEPT !.st = "failed"]

\* The rows in `of` are settled as `to` gives, with an alarm for each retry.
Settle(of, to(_)) ==
  /\ win' = [w \in Keys |-> IF w \in of THEN to(w) ELSE win[w]]
  /\ retries' = retries \cup
       {<<w, to(w).att, to(w).due>> : w \in {v \in of : to(v).st = "retry_pending"}}

LinkedOutcome(w) == Settled(w, win[w], runs[w][win[w].run])

-----------------------------------------------------------------------------
(* materializeWindows: one step per row of the scan.                       *)

Waiting(origins) == {k \in Grid : win[Now(k)].st = "waiting" /\ win[Now(k)].origin \in origins}

\* Mutant of DependencySatisfied: a dependency that is over is enough.
DependencyOver(k) ==
  offset > 0 /\ k >= offset =>
    win[Now(k - offset)].st \in {"none", "succeeded", "superseded", "failed"}

\* dependencySatisfied, for an offset of whole windows and the default size.
DependencySatisfied(k) ==
  offset > 0 /\ k >= offset =>
    LET d == k - offset
        w == Now(d)
    IN IF win[w].st # "none" THEN win[w].st \in {"succeeded", "superseded"}
       ELSE IF lookback > 0 THEN d < cursor[trig.epoch]
       ELSE d + 1 <= clock

Oldest(ks) == IF ks = {} THEN {} ELSE {Min(ks)}

Ahead == {k \in Waiting(IF trig.cap > 0 THEN {"live", "backfill"} ELSE {"live"}) : k >= task.cur}

\* Mutant of BackfillGate: only the current epoch's windows are counted.
BackfillGateOfEpoch == \A w \in In("running") : w[1] # trig.epoch

BackfillGate == In("running") = {}

\* The row the pass comes to next.  With a cap it walks the waiting windows
\* while there is room; without one it walks the live windows and then takes
\* the oldest backfilled one, once, through the gate.
Scanned ==
  IF trig.cap > 0 THEN IF Cardinality(In("running")) < trig.cap THEN Oldest(Ahead) ELSE {}
  ELSE IF Ahead # {} THEN Oldest(Ahead)
  ELSE IF task.cur <= Windows /\ BackfillGate THEN Oldest(Waiting({"backfill"})) ELSE {}

\* Mutant of Orphans: no look-up before the fire.
OrphansNone(w) == {}

\* findUnlinkedRunForWindow: no window.runCreated of the log names the run.
Orphans(w) == DOMAIN runs[w] \ win[w].links

\* linkWindowRun
Linked(w, i) == [win[w] EXCEPT !.st = "running", !.run = i, !.links = @ \cup {i}]

\* After row k; the serial backfill is the last of its pass.
Onward(k) ==
  Does("scan", IF trig.cap = 0 /\ win[Now(k)].origin = "backfill" THEN Windows + 1 ELSE k + 1)

\* The pass is over: the boot reconcile goes on with sync().
Finish == Does(IF task.boot THEN "sync" ELSE "idle", 0)

\* linkWindowRun of a run the crash left without its link, then its settle.
LinkOrphan(k) ==
  LET w == Now(k)
      Adopted(v) == LET i == Min(Orphans(v)) IN Settled(v, Linked(v, i), runs[v][i])
  IN /\ Orphans(w) # {} /\ Settle({w}, Adopted) /\ Onward(k)
     /\ UNCHANGED <<config, clock, runs, due, spent, cursor, taps, bounds>>

Blocked(k) ==
  /\ Orphans(Now(k)) = {} /\ ~DependencySatisfied(k) /\ Onward(k)
  /\ UNCHANGED <<config, clock, tables, alarms, cursor, taps, bounds>>

\* launcher.fire writes the run's row.
Fire(k) ==
  /\ Orphans(Now(k)) = {} /\ DependencySatisfied(k)
  /\ runs' = [runs EXCEPT ![Now(k)] = Append(@, "live")]
  /\ Does("link", k)
  /\ UNCHANGED <<config, clock, win, alarms, cursor, taps, bounds>>

\* launcher.fire refuses (its queue is full): the pass stops.
Skip(k) ==
  /\ Orphans(Now(k)) = {} /\ DependencySatisfied(k)
  /\ Upset /\ skipped' = TRUE /\ Finish
  /\ UNCHANGED <<config, clock, tables, alarms, cursor, taps>>

LinkFired ==
  LET w == Now(task.cur)
  IN /\ At("link")
     /\ win' = [win EXCEPT ![w] = Linked(w, Len(runs[w]))]
     /\ Onward(task.cur)
     /\ UNCHANGED <<config, clock, runs, alarms, cursor, taps, bounds>>

MaterializeOne ==
  At("scan") /\ \E k \in Scanned : LinkOrphan(k) \/ Blocked(k) \/ Fire(k) \/ Skip(k)

ScanEnds ==
  /\ At("scan") /\ Scanned = {} /\ Finish
  /\ UNCHANGED <<config, clock, tables, alarms, cursor, taps, bounds>>

-----------------------------------------------------------------------------
(* The alarms.                                                             *)

\* The window_due handler: continue the chain, create the window, scan.
DueFires(w) ==
  LET current == Serving /\ w[1] = trig.epoch
  IN /\ Idle /\ w \in due /\ w[2] + 1 <= clock
     /\ due' = IF current THEN Armed(due) \ {w} ELSE due \ {w}
     /\ spent' = spent \cup {w}
     /\ IF current /\ win[w].st = "none"
        THEN win' = [win EXCEPT ![w] = Created(w, "live")] /\ Does("scan", 0)
        ELSE UNCHANGED <<win, task>>
     /\ UNCHANGED <<config, clock, runs, retries, cursor, taps, bounds>>

\* retryDueWindow
Reopened(w) == [win[w] EXCEPT !.st = "waiting", !.due = 0]

\* The window_retry handler.
RetryFires(r) ==
  LET w == r[1]
  IN /\ Idle /\ r \in retries /\ r[3] <= clock
     /\ retries' = retries \ {r}
     /\ IF /\ Serving /\ w[1] = trig.epoch
           /\ win[w].st = "retry_pending" /\ win[w].att = r[2]
        THEN win' = [win EXCEPT ![w] = Reopened(w)] /\ Does("scan", 0)
        ELSE UNCHANGED <<win, task>>
     /\ UNCHANGED <<config, clock, runs, due, spent, cursor, taps, bounds>>

-----------------------------------------------------------------------------
(* sync(), after every write of a trigger and at boot.                     *)

\* One field of the trigger is edited; the route's sync() follows.
EditTrigger ==
  /\ Idle /\ Upset
  /\ \/ \E e \in Epochs \ {trig.epoch} : trig' = [trig EXCEPT !.epoch = e]
     \/ \E c \in Caps \ {trig.cap} : trig' = [trig EXCEPT !.cap = c]
     \/ trig' = [trig EXCEPT !.on = ~@]
     \/ trig' = [trig EXCEPT !.bound = ~@]
  /\ Does("sync", 0)
  /\ UNCHANGED <<lookback, offset, clock, tables, alarms, cursor, taps, skipped>>

\* Mutant of KeptDue: stale rows are kept.
KeptDueAny == IF trig.on THEN due ELSE {}

\* The pending rows sync() does not delete.
KeptDue == IF trig.on THEN {w \in due : w[1] = trig.epoch} ELSE {}

\* Passes 1 and 2: drop dead and stale alarms, seed a chain that has none.
Seeded == IF trig.on /\ KeptDue = {} THEN Armed({}) ELSE KeptDue

\* Mutant of Overdue: the heal leaves retries to their alarms.
OverdueNone == {}

\* driveOverdueRetries
Overdue == {w \in In("retry_pending") : w[1] = trig.epoch /\ win[w].due <= clock}

\* supersedeStaleEpochWindows
Stale == {w \in In("waiting") \cup In("retry_pending") : w[1] # trig.epoch}

Healed(drive) ==
  [w \in Keys |-> CASE w \in drive -> Reopened(w)
                    [] w \in Stale -> [win[w] EXCEPT !.st = "superseded", !.due = 0]
                    [] OTHER       -> win[w]]

\* Pass 3 owes a pass over the windows.
Kicked == lookback > 0 \/ trig.cap > 0 \/ Overdue # {} \/ Waiting({"live", "backfill"}) # {}

\* backfillPass: the closed windows the cursor and the lookback leave.
Backfilled ==
  LET edge  == Min({clock, Windows})
      floor == IF edge > lookback THEN edge - lookback ELSE 0
      lower == Max({cursor[trig.epoch], floor})
  IN IF lookback = 0 THEN {} ELSE {k \in Grid : lower <= k /\ k < edge}

\* sync(): the alarms, then pass 3: heal, supersede, backfill, and the scan.
Sync ==
  /\ At("sync") /\ due' = Seeded
  /\ LET back == IF Serving THEN Backfilled ELSE {}
     IN /\ win' = IF trig.on
                  THEN [w \in Keys |-> IF w[1] = trig.epoch /\ w[2] \in back
                                          /\ win[w].st = "none"
                                       THEN Created(w, "backfill") ELSE Healed(Overdue)[w]]
                  ELSE win
        /\ cursor' = IF back = {} THEN cursor
                     ELSE [cursor EXCEPT ![trig.epoch] = Max({@, Min({clock, Windows})})]
  /\ task' = [task EXCEPT !.ph = IF Serving /\ Kicked THEN "scan" ELSE "idle",
                          !.cur = 0, !.boot = FALSE]
  /\ UNCHANGED <<config, clock, runs, spent, retries, taps, bounds>>

-----------------------------------------------------------------------------
(* Runs, the completion tap, crashes and the boot reconcile.               *)

\* A run ends.  The tap is not subscribed before the boot reconcile is done.
RunEnds(w, i) ==
  /\ Idle \/ At("settle")
  /\ runs[w][i] = "live"
  /\ \E st \in {"success", "failure", "cancelled"} : runs' = [runs EXCEPT ![w][i] = st]
  /\ taps' = IF Idle /\ win[w].run = i THEN taps \cup {w} ELSE taps
  /\ UNCHANGED <<config, clock, win, alarms, cursor, task, bounds>>

\* settleRunWindow: settle, then the trigger's next windows.
Tap(w) ==
  /\ Idle /\ w \in taps /\ taps' = taps \ {w}
  /\ IF win[w].st = "running"
     THEN /\ Settle({w}, LinkedOutcome)
          /\ IF Serving THEN Does("scan", 0) ELSE UNCHANGED task
     ELSE UNCHANGED <<win, retries, task>>
  /\ UNCHANGED <<config, clock, runs, due, spent, cursor, bounds>>

Crash ==
  /\ ~At("down") /\ Upset
  /\ task' = [task EXCEPT !.ph = "down", !.cur = 0] /\ taps' = {}
  /\ UNCHANGED <<config, clock, tables, alarms, cursor, skipped>>

Reboot ==
  /\ At("down") /\ task' = [task EXCEPT !.ph = "settle", !.boot = TRUE]
  /\ UNCHANGED <<config, clock, tables, alarms, cursor, taps, bounds>>

\* reconcile, step 1: windows whose run ended while no tap was listening.
BootSettle ==
  /\ At("settle") /\ Settle(In("running"), LinkedOutcome) /\ Does("bootheal", 0)
  /\ UNCHANGED <<config, clock, runs, due, spent, cursor, taps, bounds>>

\* reconcile, steps 1.5 to 2: overdue retries, stale epochs, stranded windows.
BootHeal ==
  /\ At("bootheal") /\ win' = Healed(IF trig.on THEN Overdue ELSE {})
  /\ Does(IF Serving THEN "scan" ELSE "sync", 0)
  /\ UNCHANGED <<config, clock, runs, alarms, cursor, taps, bounds>>

Tick ==
  /\ Idle \/ At("down") \/ At("settle")
  /\ clock < MaxClock /\ clock' = clock + 1
  /\ UNCHANGED <<config, tables, alarms, cursor, taps, task, bounds>>

-----------------------------------------------------------------------------
Init ==
  /\ lookback \in Lookbacks /\ offset \in Offsets
  /\ trig = [epoch |-> 1, on |-> TRUE, bound |-> TRUE, cap |-> 0]
  /\ clock = 0
  /\ win = [w \in Keys |-> NoWindow] /\ runs = [w \in Keys |-> <<>>]
  /\ due = {} /\ spent = {} /\ retries = {} /\ cursor = [e \in Epochs |-> 0]
  /\ taps = {} /\ task = [ph |-> "sync", cur |-> 0, boot |-> FALSE]
  /\ skipped = FALSE /\ upsets = 0

Code == LinkFired \/ MaterializeOne \/ ScanEnds \/ Sync \/ BootSettle \/ BootHeal

AlarmFires == (\E w \in due : DueFires(w)) \/ (\E r \in retries : RetryFires(r))

ARunEnds == \E w \in Keys : \E i \in DOMAIN runs[w] : RunEnds(w, i)

Taps == \E w \in taps : Tap(w)

Next == Code \/ AlarmFires \/ ARunEnds \/ Taps \/ EditTrigger \/ Crash \/ Reboot \/ Tick

Spec == Init /\ [][Next]_vars

\* The code runs on, the clock ticks and delivers, runs end and the service
\* is restarted.
FairSpec ==
  Spec /\ WF_vars(Code) /\ WF_vars(AlarmFires) /\ WF_vars(ARunEnds) /\ WF_vars(Taps)
       /\ WF_vars(Reboot) /\ WF_vars(Tick)

-----------------------------------------------------------------------------
(* Properties.                                                             *)

\* Every table, alarm and cursor of the service has its type.
TypeOK ==
  /\ trig \in [epoch : Epochs, on : BOOLEAN, bound : BOOLEAN, cap : Caps]
  /\ lookback \in Lookbacks /\ offset \in Offsets /\ clock \in 0 .. MaxClock
  /\ \A w \in Keys :
       /\ win[w].st \in Status /\ win[w].origin \in {"live", "backfill"}
       /\ win[w].att \in 0 .. Retries /\ win[w].due \in 0 .. MaxClock
       /\ win[w].links \subseteq DOMAIN runs[w] /\ win[w].run \in {0} \cup win[w].links
       /\ \A i \in DOMAIN runs[w] : runs[w][i] \in {"live", "success", "failure", "cancelled"}
  /\ due \subseteq Keys /\ spent \subseteq Keys
  /\ retries \subseteq Keys \X (1 .. Retries) \X (0 .. MaxClock)
  /\ cursor \in [Epochs -> 0 .. Windows] /\ taps \subseteq Keys

\* Whatever crashes between the run's row and its link, whatever alarm, heal,
\* tap or boot pass comes first, a window's attempt is fired once: there is
\* never more than one run for each attempt (link before fire, materializeOne).
OneRunPerAttempt == \A w \in Keys : Len(runs[w]) <= win[w].att + 1

\* A window is succeeded only when the run of its last attempt succeeded, and
\* a running window follows that run (settleIfTerminal, linkWindowRun).
SucceededIsEarned ==
  \A w \in Keys :
    /\ win[w].st = "succeeded" => win[w].run = Len(runs[w]) /\ Last(runs[w]) = "success"
    /\ win[w].st = "running" => win[w].run = Len(runs[w])

\* The tables are well typed and every window tells the truth about its runs.
WindowTellsRuns == TypeOK /\ OneRunPerAttempt /\ SucceededIsEarned

\* A backlog drains one window at a time: across edits of the geometry, retries
\* and crashes, two backfilled windows never run together when the trigger has
\* no cap above one (the gate of materializeWindows reads every epoch).
BackfillSerial ==
  (\A c \in Caps : c <= 1) =>
    Cardinality({w \in In("running") : win[w].origin = "backfill"}) <= 1

\* An enabled, bound trigger whose grid is not over always has exactly one
\* window_due alarm, of its own epoch, whatever it went through: the chain
\* neither breaks nor forks (handler.fire, seed, sync).
ChainAlive ==
  Idle /\ Serving /\ clock < Windows =>
    \E k \in Grid : due = {Now(k)}

\* A window that has a run never overtakes the window it depends on: that one
\* succeeded, was superseded, or was passed over for good - it is not created
\* after its dependent has run (dependencySatisfied's argument for a missing
\* row: the chain and the backfill create rows in order).
DependencyHolds ==
  \A w \in Keys :
    runs[w] # <<>> /\ offset > 0 /\ w[2] >= offset =>
      win[<<w[1], w[2] - offset>>].st \in {"none", "succeeded", "superseded"}

\* A window the backfill passed over (below its epoch's cursor, without a row)
\* is never created afterwards: "dispositioned - created, or deliberately
\* skipped" and "never revisited" (getBackfillCursor, tumbling.ts header).
SkippedStaysSkipped ==
  [][\A w \in Keys : win[w].st = "none" /\ w[2] < cursor[w[1]] => win'[w].st = "none"]_vars

\* Some window is held by design: its dependency failed, or was never created
\* and waits for the next backfill pass.
Held == \E k \in Waiting({"live", "backfill"}) :
  ~DependencySatisfied(k) /\ win[Now(k - offset)].st \in {"none", "failed"}

\* Every window of a trigger that stays enabled and bound is eventually
\* settled: no retry is lost to a suppressed alarm, no waiting window to a
\* crash, an edit or a closed gate (driveOverdueRetries, the sync kick, the
\* completion tap).  A window the launcher refused waits for the next pass.
EveryWindowSettles ==
  <>[](~Serving \/ skipped \/ Held \/
       In("waiting") \cup In("running") \cup In("retry_pending") = {})
=============================================================================
