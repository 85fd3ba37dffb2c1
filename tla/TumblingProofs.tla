--------------------------- MODULE TumblingProofs ---------------------------
(***************************************************************************)
(* The windows of a trigger for every grid, any geometries, lookbacks,     *)
(* caps and retry budgets, and any number of edits and crashes.  The       *)
(* argument: in every state but one a window has exactly as many runs as   *)
(* its status and its attempt say; the exception, a run without its link,  *)
(* is possible only on a waiting window, where the look-up before the next *)
(* fire finds it.                                                          *)
(***************************************************************************)
EXTENDS Tumbling, FiniteSetTheorems, WellFoundedInduction, TLAPS

RunStates == {"live", "success", "failure", "cancelled"}
Fired == {"running", "succeeded", "failed"}

RowType ==
  [st : Status, origin : {"live", "backfill"}, run : Nat, links : SUBSET Nat,
   att : 0..Retries, due : 0..MaxClock]

Phases == {"idle", "sync", "scan", "link", "settle", "bootheal", "down"}

\* The types the rest of the argument needs.
TypeInv ==
  /\ trig \in [epoch : Epochs, on : BOOLEAN, bound : BOOLEAN, cap : Caps]
  /\ lookback \in Lookbacks /\ offset \in Offsets /\ clock \in 0 .. MaxClock
  /\ win \in [Keys -> RowType] /\ runs \in [Keys -> Seq(RunStates)]
  /\ due \subseteq Keys /\ spent \subseteq Keys
  /\ retries \subseteq Keys \X (1 .. Retries) \X (0 .. MaxClock)
  /\ cursor \in [Epochs -> 0 .. Windows] /\ taps \subseteq Keys
  /\ task \in [ph : Phases, cur : Nat, boot : BOOLEAN]

\* What a row says of the runs that were fired for its window.
RowOK(r, s) ==
  /\ r.links = 1 .. (IF r.st \in Fired THEN r.att + 1 ELSE r.att)
  /\ r.run = (IF r.st \in Fired THEN r.att + 1 ELSE 0)
  /\ r.st \in Fired => Len(s) = r.att + 1
  /\ r.st = "retry_pending" => Len(s) = r.att
  /\ r.st \in {"waiting", "superseded"} => Len(s) \in {r.att, r.att + 1}
  /\ r.st = "none" => r.att = 0 /\ Len(s) = 0
  /\ r.st = "succeeded" => s[r.att + 1] = "success"

RowsOK == \A w \in Keys : RowOK(win[w], runs[w])

\* Between the fire and the link the window waits with one run too many.
LinkOK ==
  At("link") =>
    /\ task.cur \in Grid /\ win[Now(task.cur)].st = "waiting"
    /\ Len(runs[Now(task.cur)]) = win[Now(task.cur)].att + 1

\* The inductive invariant of the tables.
RowInv == TypeInv /\ RowsOK /\ LinkOK

Backs == {w \in In("running") : win[w].origin = "backfill"}

\* Of the backfilled windows at most one runs, and none while another one's
\* run waits for its link.
SerialInv ==
  /\ \A v, w \in Backs : v = w
  /\ At("link") /\ win[Now(task.cur)].origin = "backfill" => Backs = {}

-----------------------------------------------------------------------------
\* The least element of a set of naturals is in it.
LEMMA MinIn ==
  ASSUME NEW S \in SUBSET Nat, S # {}
  PROVE  Min(S) \in S /\ \A y \in S : Min(S) <= y
<1> DEFINE R == {ss \in Nat \X Nat : ss[1] < ss[2]}
<1>1. IsWellFoundedOn(R, Nat)
  BY NatLessThanWellFounded, Zenon DEF OpToRel
<1> HIDE DEF R
<1>2. \E x \in S : \A y \in S : ~ (<<y, x>> \in R)
  BY <1>1, WFMin
<1>3. PICK x \in S : \A y \in S : ~ (<<y, x>> \in R)
  BY <1>2
<1>4. ASSUME NEW y \in S PROVE x <= y
  <2>1. x \in Nat /\ y \in Nat /\ <<y, x>> \notin R
    BY <1>3
  <2>2. ~ (y < x)
    BY <2>1 DEF R
  <2>3. QED
    BY <2>1, <2>2
<1>5. QED
  BY <1>4 DEF Min

\* The greater of two naturals.
LEMMA MaxOfTwo ==
  ASSUME NEW a \in Nat, NEW b \in Nat
  PROVE  Max({a, b}) \in {a, b} /\ a <= Max({a, b}) /\ b <= Max({a, b})
<1>1. \E x \in {a, b} : \A y \in {a, b} : x >= y
  OBVIOUS
<1>2. QED
  BY <1>1 DEF Max

\* A window of the current epoch is a key.
LEMMA NowKey == ASSUME TypeInv, NEW k \in Grid PROVE Now(k) \in Keys
  BY DEF TypeInv, Now, Keys

\* Settling a running row by its last run leaves a row that tells the truth.
LEMMA SettledOK ==
  ASSUME TypeInv, NEW w \in Keys, NEW r \in RowType, NEW s \in Seq(RunStates),
         RowOK(r, s), r.st = "running", r.att = win[w].att
  PROVE  LET q == Settled(w, r, s[r.run]) IN
         /\ q \in RowType /\ RowOK(q, s) /\ q.origin = r.origin
         /\ q.st \in Fired \cup {"retry_pending"}
         /\ q.st = "retry_pending" => q.att \in 1..Retries
<1> DEFINE m == Min({clock + RetryAfter, MaxClock})
<1>1. m \in 0..MaxClock
  <2>1. clock + RetryAfter \in Nat /\ MaxClock \in Nat
    BY TumblingAssumption DEF TypeInv
  <2>2. m \in Nat /\ m <= MaxClock
    BY <2>1, MinIn, {clock + RetryAfter, MaxClock} \in SUBSET Nat
  <2>3. QED
    BY <2>1, <2>2
<1>2. s[r.run] \in RunStates /\ Len(s) = r.att + 1 /\ r.run = Len(s) /\ r.att \in 0..Retries
  BY DEF RowOK, Fired, RowType
<1> HIDE DEF m
<1>3. CASE s[r.run] = "live"
  BY <1>3 DEF Settled, Fired
<1>4. CASE s[r.run] = "success"
  BY <1>2, <1>4 DEF Settled, RowType, RowOK, Fired, Status
<1>5. CASE s[r.run] = "failure" /\ Retriable(w)
  <2>1. Settled(w, r, s[r.run]) =
          [r EXCEPT !.st = "retry_pending", !.run = 0, !.att = r.att + 1, !.due = m]
    <3>1. s[r.run] # "live" /\ s[r.run] # "success"
      BY <1>5
    <3>2. QED
      BY <1>5, <3>1, Zenon DEF Settled, m
  <2>2. r.att + 1 \in 1..Retries
    BY <1>2, <1>5, TumblingAssumption DEF Retriable
  <2> DEFINE q == [r EXCEPT !.st = "retry_pending", !.run = 0, !.att = r.att + 1, !.due = m]
  <2>3. q \in RowType
    <3>1. r.att + 1 \in 0..Retries
      BY <2>2
    <3>2. QED
      BY <1>1, <3>1 DEF RowType, Status
  <2>4. q.st = "retry_pending" /\ q.run = 0 /\ q.att = r.att + 1 /\ q.links = r.links
        /\ q.origin = r.origin
    BY DEF RowType
  <2> HIDE DEF q
  <2>5. r.links = 1 .. r.att + 1
    BY DEF RowOK, Fired
  <2>6. RowOK(q, s)
    BY <1>2, <2>4, <2>5 DEF RowOK, Fired
  <2>7. Settled(w, r, s[r.run]) = q
    BY <2>1 DEF q
  <2>8. QED
    BY <2>2, <2>3, <2>4, <2>6, <2>7
<1>6. CASE s[r.run] = "cancelled" \/ (s[r.run] = "failure" /\ ~Retriable(w))
  <2>1. Settled(w, r, s[r.run]) = [r EXCEPT !.st = "failed"]
    BY <1>6 DEF Settled
  <2>2. QED
    BY <1>2, <2>1 DEF RowType, RowOK, Fired, Status
<1>7. QED
  BY <1>2, <1>3, <1>4, <1>5, <1>6 DEF RunStates

-----------------------------------------------------------------------------
\* A step that settles the rows of some windows as f gives.
LEMMA SettleOK ==
  ASSUME TypeInv, RowsOK, NEW of \in SUBSET Keys, NEW f \in [of -> RowType],
         \A w \in of : /\ RowOK(f[w], runs[w])
                       /\ f[w].st = "retry_pending" => f[w].att \in 1..Retries,
         win' = [w \in Keys |-> IF w \in of THEN f[w] ELSE win[w]],
         retries' = retries \cup
           {<<w, f[w].att, f[w].due>> : w \in {v \in of : f[v].st = "retry_pending"}},
         runs' = runs
  PROVE  /\ win' \in [Keys -> RowType] /\ RowsOK'
         /\ retries' \subseteq Keys \X (1 .. Retries) \X (0 .. MaxClock)
<1>1. win' \in [Keys -> RowType]
  BY DEF TypeInv
<1>2. RowsOK'
  <2>1. ASSUME NEW w \in Keys PROVE RowOK(win'[w], runs'[w])
    <3>1. RowOK(win[w], runs[w])
      BY DEF RowsOK
    <3>2. runs'[w] = runs[w] /\ (w \in of => win'[w] = f[w]) /\ (w \notin of => win'[w] = win[w])
      OBVIOUS
    <3>3. QED
      BY <3>1, <3>2, Zenon
  <2>2. QED
    BY <2>1 DEF RowsOK, RowOK
<1>3. retries' \subseteq Keys \X (1 .. Retries) \X (0 .. MaxClock)
  <2>1. \A w \in of : f[w].due \in 0..MaxClock
    BY DEF RowType
  <2>2. retries \subseteq Keys \X (1 .. Retries) \X (0 .. MaxClock)
    BY DEF TypeInv
  <2>3. ASSUME NEW w \in of, f[w].st = "retry_pending"
        PROVE  <<w, f[w].att, f[w].due>> \in Keys \X (1 .. Retries) \X (0 .. MaxClock)
    BY <2>1, <2>3
  <2>4. QED
    BY <2>2, <2>3
<1>4. QED
  BY <1>1, <1>2, <1>3

\* The scan comes to waiting windows of the current grid only.
LEMMA ScannedOK ==
  ASSUME TypeInv, NEW k \in Scanned
  PROVE  /\ k \in Grid /\ Now(k) \in Keys /\ win[Now(k)].st = "waiting"
         /\ (\A c \in Caps : c <= 1) /\ win[Now(k)].origin = "backfill" => Backs = {}
<1>1. Grid \subseteq Nat
  BY TumblingAssumption DEF Grid
<1>2. \A o : Waiting(o) \subseteq Grid
  BY DEF Waiting
<1>3. Ahead \subseteq Grid
  BY <1>2 DEF Ahead
<1>4. ASSUME NEW S \in SUBSET Grid PROVE Oldest(S) \subseteq S
  BY <1>1, <1>4, MinIn DEF Oldest
<1>5. k \in Ahead \/ k \in Waiting({"backfill"})
  BY <1>2, <1>3, <1>4 DEF Scanned
<1>6. k \in Grid /\ win[Now(k)].st = "waiting"
  BY <1>5 DEF Ahead, Waiting
<1>7. ASSUME \A c \in Caps : c <= 1, win[Now(k)].origin = "backfill"
      PROVE  In("running") = {}
  <2>1. CASE trig.cap > 0
    <3>1. trig.cap \in Nat /\ trig.cap <= 1
      BY <1>7, TumblingAssumption DEF TypeInv
    <3>2. Cardinality(In("running")) < trig.cap
      BY <2>1 DEF Scanned
    <3>3. IsFiniteSet(In("running"))
      <4>1. IsFiniteSet(Grid)
        BY FS_Interval, TumblingAssumption DEF Grid
      <4>2. IsFiniteSet(Keys)
        BY <4>1, FS_Product, TumblingAssumption DEF Keys
      <4>3. QED
        BY <4>2, FS_Subset DEF In
    <3>4. Cardinality(In("running")) = 0
      BY <3>1, <3>2, <3>3, FS_CardinalityType
    <3>5. QED
      BY <3>3, <3>4, FS_EmptySet
  <2>2. CASE ~ (trig.cap > 0)
    <3>1. k \notin Ahead
      BY <1>7, <2>2 DEF Ahead, Waiting
    <3>2. BackfillGate
      BY <1>3, <1>4, <2>2, <3>1 DEF Scanned
    <3>3. QED
      BY <3>2 DEF BackfillGate
  <2>3. QED
    BY <2>1, <2>2
<1>8. QED
  BY <1>6, <1>7, NowKey DEF Backs

\* A run without its link is the one after the attempts that were linked, and
\* linking it makes the window's row follow it.
LEMMA LinkedOK ==
  ASSUME RowInv, NEW w \in Keys, win[w].st = "waiting", Len(runs[w]) = win[w].att + 1
  PROVE  LET q == Linked(w, win[w].att + 1) IN
         /\ Orphans(w) = {win[w].att + 1}
         /\ q \in RowType /\ RowOK(q, runs[w])
         /\ q.st = "running" /\ q.run = win[w].att + 1 /\ q.att = win[w].att
         /\ q.origin = win[w].origin
<1> DEFINE a == win[w].att
           q == Linked(w, a + 1)
<1>1. win[w] \in RowType /\ runs[w] \in Seq(RunStates) /\ a \in Nat /\ win[w].links = 1..a
  <2>1. win[w] \in RowType /\ runs[w] \in Seq(RunStates)
    BY DEF RowInv, TypeInv
  <2>2. RowOK(win[w], runs[w])
    BY DEF RowInv, RowsOK
  <2>3. a \in Nat
    BY <2>1, TumblingAssumption DEF RowType
  <2>4. win[w].links = 1..a
    BY <2>2 DEF RowOK, Fired
  <2>5. QED
    BY <2>1, <2>3, <2>4
<1>2. Orphans(w) = {a + 1}
  <2>1. DOMAIN runs[w] = 1 .. a + 1
    BY <1>1
  <2>2. QED
    BY <1>1, <2>1 DEF Orphans
<1>3. q \in RowType /\ q.st = "running" /\ q.run = a + 1 /\ q.att = a
      /\ q.origin = win[w].origin /\ q.links = (1..a) \cup {a + 1}
  <2>1. q = [win[w] EXCEPT !.st = "running", !.run = a + 1, !.links = (1..a) \cup {a + 1}]
    BY <1>1 DEF Linked
  <2>2. (1..a) \cup {a + 1} \in SUBSET Nat /\ a + 1 \in Nat
    BY <1>1
  <2> HIDE DEF q
  <2>3. QED
    BY <1>1, <2>1, <2>2 DEF RowType, Status
<1> HIDE DEF q
<1>4. q.links = 1 .. a + 1
  BY <1>1, <1>3
<1>5. RowOK(q, runs[w])
  BY <1>1, <1>3, <1>4 DEF RowOK, Fired
<1>6. QED
  BY <1>2, <1>3, <1>5 DEF q

-----------------------------------------------------------------------------
(* One lemma per action.                                                   *)

TaskType == [ph : Phases, cur : Nat, boot : BOOLEAN]

\* A step that writes one row.
LEMMA OneRow ==
  ASSUME TypeInv, RowsOK, NEW w \in Keys, NEW q \in RowType, RowOK(q, runs[w]),
         win' = [win EXCEPT ![w] = q], runs' = runs
  PROVE  win' \in [Keys -> RowType] /\ RowsOK'
<1>1. win' \in [Keys -> RowType]
  BY DEF TypeInv
<1>2. ASSUME NEW v \in Keys PROVE RowOK(win'[v], runs'[v])
  <2>1. RowOK(win[v], runs[v])
    BY DEF RowsOK
  <2>2. runs'[v] = runs[v] /\ win'[v] = IF v = w THEN q ELSE win[v]
    BY DEF TypeInv
  <2>3. CASE v = w
    BY <2>2, <2>3
  <2>4. CASE v # w
    BY <2>1, <2>2, <2>4
  <2>5. QED
    BY <2>3, <2>4
<1>3. QED
  BY <1>1, <1>2 DEF RowsOK, RowOK

\* The synchronous code moves to another phase.
LEMMA DoesOK ==
  ASSUME TypeInv, NEW p \in Phases, NEW k \in Nat, Does(p, k)
  PROVE  task' \in TaskType /\ task'.ph = p /\ task'.cur = k
  BY DEF TypeInv, Does, TaskType

LEMMA OnwardOK ==
  ASSUME TypeInv, NEW k \in Grid, Onward(k)
  PROVE  task' \in TaskType /\ task'.ph = "scan"
<1>1. k + 1 \in Nat /\ Windows + 1 \in Nat
  BY TumblingAssumption DEF Grid
<1>2. QED
  BY <1>1, DoesOK DEF Onward, Phases

LEMMA FinishOK ==
  ASSUME TypeInv, Finish
  PROVE  task' \in TaskType /\ task'.ph # "link"
  BY DoesOK DEF Finish, Phases

LEMMA LinkFiredStep == ASSUME RowInv, LinkFired PROVE RowInv'
<1> DEFINE w == Now(task.cur)
           q == Linked(w, Len(runs[w]))
<1>1. task.cur \in Grid /\ w \in Keys /\ win[w].st = "waiting" /\ Len(runs[w]) = win[w].att + 1
  BY NowKey DEF RowInv, LinkOK, LinkFired
<1>2. q \in RowType /\ RowOK(q, runs[w])
  BY <1>1, LinkedOK
<1>3. win' = [win EXCEPT ![w] = q] /\ runs' = runs /\ Onward(task.cur)
  BY DEF LinkFired
<1> HIDE DEF q, w
<1>4. win' \in [Keys -> RowType] /\ RowsOK'
  BY <1>1, <1>2, <1>3, OneRow DEF RowInv
<1>5. task' \in TaskType /\ task'.ph = "scan"
  BY <1>1, <1>3, OnwardOK DEF RowInv
<1>6. LinkOK'
  BY <1>5 DEF LinkOK, At
<1>7. TypeInv'
  BY <1>4, <1>5 DEF RowInv, TypeInv, TaskType, LinkFired, config, alarms, bounds
<1>8. QED
  BY <1>4, <1>6, <1>7 DEF RowInv

\* Adopting the run the crash left without a link.
LEMMA AdoptedRow ==
  ASSUME RowInv, NEW w \in Keys, win[w].st = "waiting", Orphans(w) # {}
  PROVE  LET i == Min(Orphans(w))
             q == Settled(w, Linked(w, i), runs[w][i]) IN
         /\ q \in RowType /\ RowOK(q, runs[w]) /\ q.origin = win[w].origin
         /\ q.st = "retry_pending" => q.att \in 1..Retries
<1> DEFINE a == win[w].att
<1>1. Len(runs[w]) = a + 1
  <2>1. win[w] \in RowType /\ runs[w] \in Seq(RunStates) /\ RowOK(win[w], runs[w])
    BY DEF RowInv, TypeInv, RowsOK
  <2>2. win[w].links = 1..a /\ Len(runs[w]) \in {a, a + 1}
    BY <2>1 DEF RowOK, Fired
  <2>3. DOMAIN runs[w] = 1 .. Len(runs[w])
    BY <2>1
  <2>4. QED
    BY <2>2, <2>3 DEF Orphans
<1>2. Orphans(w) = {a + 1}
  BY <1>1, LinkedOK
<1> DEFINE r == Linked(w, a + 1)
<1>3. r \in RowType /\ RowOK(r, runs[w]) /\ r.st = "running" /\ r.run = a + 1 /\ r.att = a
      /\ r.origin = win[w].origin
  BY <1>1, LinkedOK
<1>4. Min(Orphans(w)) = a + 1
  <2>1. a + 1 \in Nat
    <3>1. win[w] \in RowType
      BY DEF RowInv, TypeInv
    <3>2. QED
      BY <3>1, TumblingAssumption DEF RowType
  <2>2. QED
    BY <1>2, <2>1, MinIn, {a + 1} \in SUBSET Nat
<1> HIDE DEF r
<1>5. runs[w] \in Seq(RunStates)
  BY DEF RowInv, TypeInv
<1> DEFINE q == Settled(w, r, runs[w][r.run])
<1>6. /\ q \in RowType /\ RowOK(q, runs[w]) /\ q.origin = r.origin
      /\ q.st = "retry_pending" => q.att \in 1..Retries
  BY <1>3, <1>5, SettledOK DEF RowInv
<1>7. q = Settled(w, Linked(w, Min(Orphans(w))), runs[w][Min(Orphans(w))])
  BY <1>3, <1>4 DEF r
<1> HIDE DEF q
<1>8. QED
  BY <1>3, <1>6, <1>7

LEMMA LinkOrphanStep ==
  ASSUME RowInv, NEW k \in Scanned, LinkOrphan(k) PROVE RowInv'
<1> DEFINE w == Now(k)
           Adopted(v) == LET i == Min(Orphans(v)) IN Settled(v, Linked(v, i), runs[v][i])
           f == [v \in {w} |-> Adopted(v)]
<1>1. k \in Grid /\ w \in Keys /\ win[w].st = "waiting"
  BY ScannedOK DEF RowInv
<1>2. Orphans(w) # {} /\ Onward(k)
  BY DEF LinkOrphan
<1>3. f[w] = Adopted(w)
  OBVIOUS
<1>4. Adopted(w) \in RowType /\ RowOK(Adopted(w), runs[w])
      /\ (Adopted(w).st = "retry_pending" => Adopted(w).att \in 1..Retries)
  BY <1>1, <1>2, AdoptedRow
<1>5. /\ win' = [v \in Keys |-> IF v \in {w} THEN Adopted(v) ELSE win[v]]
      /\ retries' = retries \cup
           {<<v, Adopted(v).att, Adopted(v).due>> :
              v \in {u \in {w} : Adopted(u).st = "retry_pending"}}
  BY DEF LinkOrphan, Settle
<1> HIDE DEF Adopted
<1>6. /\ win' = [v \in Keys |-> IF v \in {w} THEN f[v] ELSE win[v]]
      /\ retries' = retries \cup
           {<<v, f[v].att, f[v].due>> : v \in {u \in {w} : f[u].st = "retry_pending"}}
  BY <1>5
<1>7. f \in [{w} -> RowType]
  BY <1>4
<1>8. \A v \in {w} : /\ RowOK(f[v], runs[v])
                     /\ f[v].st = "retry_pending" => f[v].att \in 1..Retries
  BY <1>3, <1>4
<1> HIDE DEF f, w
<1>9. /\ win' \in [Keys -> RowType] /\ RowsOK'
      /\ retries' \subseteq Keys \X (1 .. Retries) \X (0 .. MaxClock)
  <2>1. runs' = runs /\ {w} \in SUBSET Keys
    BY <1>1 DEF LinkOrphan
  <2>2. QED
    BY <1>6, <1>7, <1>8, <2>1, SettleOK DEF RowInv
<1>10. task' \in TaskType /\ task'.ph = "scan"
  BY <1>1, <1>2, OnwardOK DEF RowInv
<1>11. LinkOK'
  BY <1>10 DEF LinkOK, At
<1>12. TypeInv'
  BY <1>9, <1>10 DEF RowInv, TypeInv, TaskType, LinkOrphan, config, bounds
<1>13. QED
  BY <1>9, <1>11, <1>12 DEF RowInv

\* Steps that move the code along and leave every table as it was.
LEMMA MoveStep ==
  ASSUME RowInv, task' \in TaskType, task'.ph # "link" \/ UNCHANGED <<task, config>>,
         trig' \in [epoch : Epochs, on : BOOLEAN, bound : BOOLEAN, cap : Caps],
         clock' \in 0 .. MaxClock, taps' \subseteq Keys,
         UNCHANGED <<lookback, offset, tables, alarms, cursor>>
  PROVE  RowInv'
<1>1. TypeInv'
  BY DEF RowInv, TypeInv, TaskType, tables, alarms
<1>2. RowsOK'
  BY DEF RowInv, RowsOK, RowOK, tables
<1>3. LinkOK'
  BY DEF RowInv, LinkOK, At, tables, config, Now
<1>4. QED
  BY <1>1, <1>2, <1>3 DEF RowInv

LEMMA FireStep ==
  ASSUME RowInv, NEW k \in Scanned, Fire(k) PROVE RowInv'
<1> DEFINE w == Now(k)
<1>1. k \in Grid /\ w \in Keys /\ win[w].st = "waiting"
  BY ScannedOK DEF RowInv
<1>2. runs \in [Keys -> Seq(RunStates)] /\ RowOK(win[w], runs[w]) /\ win[w] \in RowType
  BY <1>1 DEF RowInv, TypeInv, RowsOK
<1>3. Len(runs[w]) = win[w].att
  <2>1. win[w].links = 1..win[w].att /\ Len(runs[w]) \in {win[w].att, win[w].att + 1}
    BY <1>1, <1>2 DEF RowOK, Fired
  <2>2. DOMAIN runs[w] = 1 .. Len(runs[w]) /\ win[w].att \in Nat
    BY <1>1, <1>2, TumblingAssumption DEF RowType
  <2>3. DOMAIN runs[w] \ win[w].links = {}
    BY DEF Fire, Orphans
  <2>4. QED
    BY <2>1, <2>2, <2>3
<1>4. runs' = [runs EXCEPT ![w] = Append(runs[w], "live")] /\ win' = win
  BY DEF Fire
<1>5. runs' \in [Keys -> Seq(RunStates)] /\ Len(runs'[w]) = win[w].att + 1
  BY <1>1, <1>2, <1>3, <1>4 DEF RunStates
<1>6. RowsOK'
  <2>1. ASSUME NEW v \in Keys PROVE RowOK(win[v], runs'[v])
    <3>1. RowOK(win[v], runs[v])
      BY DEF RowInv, RowsOK
    <3>2. CASE v = w
      BY <1>1, <1>5, <3>1, <3>2 DEF RowOK, Fired
    <3>3. CASE v # w
      <4>1. runs'[v] = runs[v]
        BY <1>2, <1>4, <3>3
      <4>2. QED
        BY <3>1, <4>1
    <3>4. QED
      BY <3>2, <3>3
  <2>2. QED
    BY <1>4, <2>1 DEF RowsOK, RowOK
<1>7. task' \in TaskType /\ task'.cur = k
  <2>1. Does("link", k) /\ k \in Nat
    BY <1>1, TumblingAssumption DEF Fire, Grid
  <2>2. QED
    BY <2>1, DoesOK DEF RowInv, Phases
<1>8. LinkOK'
  <2>1. trig' = trig
    BY DEF Fire, config
  <2>2. Now(task.cur)' = w
    BY <1>7, <2>1 DEF Now
  <2>3. QED
    BY <1>1, <1>4, <1>5, <1>7, <2>2 DEF LinkOK
<1>9. TypeInv'
  BY <1>4, <1>5, <1>7 DEF RowInv, TypeInv, TaskType, Fire, config, alarms, bounds
<1>10. QED
  BY <1>6, <1>8, <1>9 DEF RowInv

LEMMA MaterializeStep == ASSUME RowInv, MaterializeOne PROVE RowInv'
<1>1. PICK k \in Scanned : LinkOrphan(k) \/ Blocked(k) \/ Fire(k) \/ Skip(k)
  BY DEF MaterializeOne
<1>2. CASE Blocked(k)
  <2>1. k \in Grid /\ Onward(k)
    BY <1>2, ScannedOK DEF RowInv, Blocked
  <2>2. task' \in TaskType /\ task'.ph # "link"
    BY <2>1, OnwardOK DEF RowInv
  <2>3. QED
    BY <1>2, <2>2, MoveStep DEF RowInv, TypeInv, Blocked, config
<1>3. CASE Skip(k)
  <2>1. task' \in TaskType /\ task'.ph # "link"
    BY <1>3, FinishOK DEF RowInv, Skip
  <2>2. QED
    BY <1>3, <2>1, MoveStep DEF RowInv, TypeInv, Skip, config
<1>4. QED
  BY <1>1, <1>2, <1>3, LinkOrphanStep, FireStep

LEMMA ScanEndsStep == ASSUME RowInv, ScanEnds PROVE RowInv'
<1>1. task' \in TaskType /\ task'.ph # "link"
  BY FinishOK DEF RowInv, ScanEnds
<1>2. QED
  BY <1>1, MoveStep DEF RowInv, TypeInv, ScanEnds, config

\* The rows the heal writes: a due retry waits again, a stale one is over.
LEMMA ReopenedOK ==
  ASSUME RowInv, NEW w \in Keys, win[w].st = "retry_pending"
  PROVE  /\ Reopened(w) \in RowType /\ RowOK(Reopened(w), runs[w])
         /\ Reopened(w).st = "waiting"
<1>1. win[w] \in RowType /\ RowOK(win[w], runs[w])
  BY DEF RowInv, TypeInv, RowsOK
<1>2. 0 \in 0..MaxClock
  BY TumblingAssumption
<1> DEFINE q == Reopened(w)
<1>3. /\ q \in RowType /\ q.st = "waiting" /\ q.run = win[w].run
      /\ q.links = win[w].links /\ q.att = win[w].att
  BY <1>1, <1>2 DEF Reopened, RowType, Status
<1> HIDE DEF q
<1>4. RowOK(q, runs[w])
  BY <1>1, <1>3 DEF RowOK, Fired
<1>5. QED
  BY <1>3, <1>4 DEF q

LEMMA HealedOK ==
  ASSUME RowInv, NEW drive, drive \subseteq In("retry_pending"), NEW w \in Keys
  PROVE  LET q == Healed(drive)[w] IN
         /\ q \in RowType /\ RowOK(q, runs[w])
         /\ q = win[w] \/ q.st \in {"waiting", "superseded"}
<1>1. win[w] \in RowType /\ RowOK(win[w], runs[w])
  BY DEF RowInv, TypeInv, RowsOK
<1> DEFINE q == Healed(drive)[w]
           stale == [win[w] EXCEPT !.st = "superseded", !.due = 0]
<1>2. q = CASE w \in drive -> Reopened(w) [] w \in Stale -> stale [] OTHER -> win[w]
  BY DEF Healed
<1>3. w \in drive => win[w].st = "retry_pending"
  BY DEF In
<1>5. ASSUME w \in Stale
      PROVE  stale \in RowType /\ RowOK(stale, runs[w]) /\ stale.st = "superseded"
  <2>1. win[w].st \in {"waiting", "retry_pending"}
    BY <1>5 DEF Stale, In
  <2>2. 0 \in 0..MaxClock
    BY TumblingAssumption
  <2>3. /\ stale \in RowType /\ stale.st = "superseded" /\ stale.run = win[w].run
        /\ stale.links = win[w].links /\ stale.att = win[w].att
    BY <1>1, <2>2 DEF RowType, Status
  <2> HIDE DEF stale
  <2>4. QED
    BY <1>1, <2>1, <2>3 DEF RowOK, Fired
<1> HIDE DEF q, stale
<1>6. CASE w \in drive
  <2>1. q = Reopened(w) \/ (q = stale /\ w \in Stale)
    BY <1>2, <1>6
  <2>2. QED
    BY <1>3, <1>5, <1>6, <2>1, ReopenedOK DEF q
<1>7. CASE w \notin drive /\ w \in Stale
  BY <1>2, <1>5, <1>7 DEF q
<1>8. CASE w \notin drive /\ w \notin Stale
  BY <1>1, <1>2, <1>8 DEF q
<1>9. QED
  BY <1>6, <1>7, <1>8

LEMMA CreatedOK ==
  ASSUME RowInv, NEW w \in Keys, NEW o \in {"live", "backfill"}, win[w].st = "none"
  PROVE  /\ Created(w, o) \in RowType /\ RowOK(Created(w, o), runs[w])
         /\ Created(w, o).st = "waiting"
<1> DEFINE q == Created(w, o)
<1>1. 0 \in 0..MaxClock /\ 0 \in 0..Retries /\ {} \in SUBSET Nat
  BY TumblingAssumption
<1>2. q \in RowType /\ q.st = "waiting" /\ q.run = 0 /\ q.links = {} /\ q.att = 0
  BY <1>1 DEF Created, NoWindow, RowType, Status
<1>3. RowOK(win[w], runs[w])
  BY DEF RowInv, RowsOK
<1> HIDE DEF q
<1>4. Len(runs[w]) = 0
  BY <1>3 DEF RowOK
<1>5. RowOK(q, runs[w])
  BY <1>2, <1>4 DEF RowOK, Fired
<1>6. QED
  BY <1>2, <1>5 DEF q

LEMMA BootHealStep == ASSUME RowInv, BootHeal PROVE RowInv'
<1> DEFINE drive == IF trig.on THEN Overdue ELSE {}
<1>1. drive \subseteq In("retry_pending")
  BY DEF Overdue
<1>2. win' = Healed(drive) /\ runs' = runs
  BY DEF BootHeal
<1> HIDE DEF drive
<1>3. \A w \in Keys : Healed(drive)[w] \in RowType /\ RowOK(Healed(drive)[w], runs[w])
  BY <1>1, HealedOK
<1>4. win' \in [Keys -> RowType]
  <2>1. Healed(drive) = [w \in Keys |-> Healed(drive)[w]]
    BY DEF Healed
  <2>2. QED
    BY <1>2, <1>3, <2>1
<1>5. RowsOK'
  BY <1>2, <1>3 DEF RowsOK, RowOK
<1>6. task' \in TaskType /\ task'.ph # "link"
  BY DoesOK DEF RowInv, BootHeal, Phases
<1>7. LinkOK'
  BY <1>6 DEF LinkOK, At
<1>8. TypeInv'
  BY <1>4, <1>6 DEF RowInv, TypeInv, TaskType, BootHeal, config, alarms
<1>9. QED
  BY <1>5, <1>7, <1>8 DEF RowInv

\* The chain's alarms are keys of the current grid.
LEMMA ArmedOK == ASSUME TypeInv, NEW S \in SUBSET Keys PROVE Armed(S) \subseteq Keys
<1>1. Upcoming \subseteq Keys
  <2>1. clock < Windows => clock \in Grid
    BY TumblingAssumption DEF TypeInv, Grid
  <2>2. QED
    BY <2>1, NowKey DEF Upcoming
<1>2. QED
  BY <1>1 DEF Armed

LEMMA SyncStep == ASSUME RowInv, Sync PROVE RowInv'
<1> DEFINE back == IF Serving THEN Backfilled ELSE {}
           Row(w) == IF w[1] = trig.epoch /\ w[2] \in back /\ win[w].st = "none"
                     THEN Created(w, "backfill") ELSE Healed(Overdue)[w]
<1>1. runs' = runs /\ due' = Seeded
      /\ win' = IF trig.on THEN [w \in Keys |-> Row(w)] ELSE win
  BY DEF Sync
<1>2. ASSUME NEW w \in Keys PROVE Row(w) \in RowType /\ RowOK(Row(w), runs[w])
  <2>1. Overdue \subseteq In("retry_pending")
    BY DEF Overdue
  <2>2. CASE w[1] = trig.epoch /\ w[2] \in back /\ win[w].st = "none"
    BY <2>2, CreatedOK
  <2>3. CASE ~ (w[1] = trig.epoch /\ w[2] \in back /\ win[w].st = "none")
    BY <2>1, <2>3, HealedOK
  <2>4. QED
    BY <2>2, <2>3
<1> HIDE DEF Row
<1>3. win' \in [Keys -> RowType]
  BY <1>1, <1>2 DEF RowInv, TypeInv
<1>4. RowsOK'
  <2>1. ASSUME NEW w \in Keys PROVE RowOK(win'[w], runs'[w])
    <3>1. win'[w] = Row(w) \/ win'[w] = win[w]
      BY <1>1
    <3>2. RowOK(win[w], runs[w])
      BY DEF RowInv, RowsOK
    <3>3. QED
      BY <1>1, <1>2, <3>1, <3>2
  <2>2. QED
    BY <2>1 DEF RowsOK, RowOK
<1>5. task' \in TaskType /\ task'.ph # "link"
  BY DEF Sync, RowInv, TypeInv, TaskType, Phases
<1>6. LinkOK'
  BY <1>5 DEF LinkOK, At
<1>7. due' \subseteq Keys
  <2>1. {} \in SUBSET Keys /\ KeptDue \subseteq Keys
    BY DEF KeptDue, RowInv, TypeInv
  <2>2. QED
    BY <1>1, <2>1, ArmedOK DEF Seeded, RowInv
<1>8. cursor' \in [Epochs -> 0 .. Windows]
  <2> DEFINE e == trig.epoch
             m == Min({clock, Windows})
  <2>1. e \in Epochs /\ clock \in Nat /\ Windows \in Nat /\ cursor[e] \in 0..Windows
    BY TumblingAssumption DEF RowInv, TypeInv
  <2>2. m \in Nat /\ m <= Windows
    BY <2>1, MinIn, {clock, Windows} \in SUBSET Nat
  <2> HIDE DEF m
  <2>3. Max({cursor[e], m}) \in 0..Windows
    <3>1. Max({cursor[e], m}) \in {cursor[e], m}
      BY <2>1, <2>2, MaxOfTwo
    <3>2. QED
      BY <2>1, <2>2, <3>1
  <2>4. cursor' = cursor \/ cursor' = [cursor EXCEPT ![e] = Max({cursor[e], m})]
    BY DEF Sync, m
  <2>5. QED
    BY <2>1, <2>3, <2>4 DEF RowInv, TypeInv
<1>9. TypeInv'
  BY <1>1, <1>3, <1>5, <1>7, <1>8 DEF RowInv, TypeInv, TaskType, Sync, config
<1>10. QED
  BY <1>4, <1>6, <1>9 DEF RowInv

\* Settling the running windows of some set by their runs.
LEMMA SettleRunning ==
  ASSUME RowInv, NEW of \in SUBSET In("running"), Settle(of, LinkedOutcome), runs' = runs
  PROVE  /\ win' \in [Keys -> RowType] /\ RowsOK'
         /\ retries' \subseteq Keys \X (1 .. Retries) \X (0 .. MaxClock)
         /\ \A w \in Keys : win'[w].origin = win[w].origin
<1> DEFINE f == [w \in of |-> LinkedOutcome(w)]
<1>1. of \in SUBSET Keys
  BY DEF In
<1>2. ASSUME NEW w \in of
      PROVE  /\ LinkedOutcome(w) \in RowType /\ RowOK(LinkedOutcome(w), runs[w])
             /\ LinkedOutcome(w).origin = win[w].origin
             /\ LinkedOutcome(w).st = "retry_pending" => LinkedOutcome(w).att \in 1..Retries
  <2>1. /\ w \in Keys /\ win[w].st = "running" /\ win[w] \in RowType
        /\ runs[w] \in Seq(RunStates) /\ RowOK(win[w], runs[w])
    BY DEF In, RowInv, TypeInv, RowsOK
  <2> DEFINE q == Settled(w, win[w], runs[w][win[w].run])
  <2>2. /\ q \in RowType /\ RowOK(q, runs[w]) /\ q.origin = win[w].origin
        /\ q.st = "retry_pending" => q.att \in 1..Retries
    BY <2>1, SettledOK DEF RowInv
  <2>3. LinkedOutcome(w) = q
    BY DEF LinkedOutcome
  <2> HIDE DEF q
  <2>4. QED
    BY <2>2, <2>3
<1>3. /\ win' = [w \in Keys |-> IF w \in of THEN LinkedOutcome(w) ELSE win[w]]
      /\ retries' = retries \cup
           {<<w, LinkedOutcome(w).att, LinkedOutcome(w).due>> :
              w \in {v \in of : LinkedOutcome(v).st = "retry_pending"}}
  BY DEF Settle
<1>4. /\ win' = [w \in Keys |-> IF w \in of THEN f[w] ELSE win[w]]
      /\ retries' = retries \cup
           {<<w, f[w].att, f[w].due>> : w \in {v \in of : f[v].st = "retry_pending"}}
  BY <1>3
<1>5. f \in [of -> RowType]
  BY <1>2
<1>6. \A w \in of : /\ RowOK(f[w], runs[w])
                    /\ f[w].st = "retry_pending" => f[w].att \in 1..Retries
  BY <1>2
<1>7. \A w \in Keys : win'[w].origin = win[w].origin
  BY <1>2, <1>3
<1> HIDE DEF f
<1>8. QED
  BY <1>1, <1>4, <1>5, <1>6, <1>7, SettleOK DEF RowInv

LEMMA BootSettleStep == ASSUME RowInv, BootSettle PROVE RowInv'
<1>1. /\ win' \in [Keys -> RowType] /\ RowsOK'
      /\ retries' \subseteq Keys \X (1 .. Retries) \X (0 .. MaxClock)
  BY SettleRunning DEF BootSettle
<1>2. task' \in TaskType /\ task'.ph # "link"
  BY DoesOK DEF RowInv, BootSettle, Phases
<1>3. LinkOK'
  BY <1>2 DEF LinkOK, At
<1>4. TypeInv'
  BY <1>1, <1>2 DEF RowInv, TypeInv, TaskType, BootSettle, config
<1>5. QED
  BY <1>1, <1>3, <1>4 DEF RowInv

LEMMA TapStep == ASSUME RowInv, NEW w \in taps, Tap(w) PROVE RowInv'
<1>0. w \in Keys /\ runs' = runs /\ taps' \subseteq Keys /\ task.ph = "idle"
  BY DEF RowInv, TypeInv, Tap, Idle, At
<1>1. /\ win' \in [Keys -> RowType] /\ RowsOK'
      /\ retries' \subseteq Keys \X (1 .. Retries) \X (0 .. MaxClock)
  <2>1. CASE win[w].st = "running"
    <3>1. {w} \in SUBSET In("running") /\ Settle({w}, LinkedOutcome)
      BY <1>0, <2>1 DEF In, Tap
    <3>2. QED
      BY <1>0, <3>1, SettleRunning
  <2>2. CASE win[w].st # "running"
    <3>1. UNCHANGED <<win, retries>>
      BY <2>2 DEF Tap
    <3>2. QED
      BY <1>0, <3>1 DEF RowInv, TypeInv, RowsOK, RowOK
  <2>3. QED
    BY <2>1, <2>2
<1>2. task' \in TaskType /\ task'.ph # "link"
  <2>1. Does("scan", 0) \/ task' = task
    BY DEF Tap
  <2>2. QED
    BY <1>0, <2>1, DoesOK DEF RowInv, TypeInv, TaskType, Phases
<1>3. LinkOK'
  BY <1>2 DEF LinkOK, At
<1>4. TypeInv'
  BY <1>0, <1>1, <1>2 DEF RowInv, TypeInv, TaskType, Tap, config
<1>5. QED
  BY <1>1, <1>3, <1>4 DEF RowInv

LEMMA DueStep == ASSUME RowInv, NEW w \in due, DueFires(w) PROVE RowInv'
<1>0. w \in Keys /\ runs' = runs /\ task.ph = "idle"
  BY DEF RowInv, TypeInv, DueFires, Idle, At
<1>1. win' \in [Keys -> RowType] /\ RowsOK' /\ task' \in TaskType /\ task'.ph # "link"
  <2>1. CASE win[w].st = "none" /\ win' = [win EXCEPT ![w] = Created(w, "live")] /\ Does("scan", 0)
    <3>1. Created(w, "live") \in RowType /\ RowOK(Created(w, "live"), runs[w])
      BY <1>0, <2>1, CreatedOK
    <3>2. win' \in [Keys -> RowType] /\ RowsOK'
      BY <1>0, <2>1, <3>1, OneRow DEF RowInv
    <3>3. task' \in TaskType /\ task'.ph = "scan"
      BY <2>1, DoesOK DEF RowInv, Phases
    <3>4. QED
      BY <3>2, <3>3
  <2>2. CASE UNCHANGED <<win, task>>
    BY <1>0, <2>2 DEF RowInv, TypeInv, RowsOK, RowOK, TaskType
  <2>3. QED
    BY <2>1, <2>2 DEF DueFires
<1>2. due' \subseteq Keys /\ spent' \subseteq Keys
  <2>1. due \in SUBSET Keys /\ spent \subseteq Keys
    BY DEF RowInv, TypeInv
  <2>2. Armed(due) \subseteq Keys
    BY <2>1, ArmedOK DEF RowInv
  <2>3. QED
    BY <1>0, <2>1, <2>2 DEF DueFires
<1>3. LinkOK'
  BY <1>1 DEF LinkOK, At
<1>4. TypeInv'
  BY <1>0, <1>1, <1>2 DEF RowInv, TypeInv, TaskType, DueFires, config
<1>5. QED
  BY <1>1, <1>3, <1>4 DEF RowInv

LEMMA RetryStep == ASSUME RowInv, NEW r \in retries, RetryFires(r) PROVE RowInv'
<1> DEFINE w == r[1]
<1>0. w \in Keys /\ runs' = runs /\ task.ph = "idle"
  BY DEF RowInv, TypeInv, RetryFires, Idle, At
<1>1. win' \in [Keys -> RowType] /\ RowsOK' /\ task' \in TaskType /\ task'.ph # "link"
  <2>1. CASE win[w].st = "retry_pending" /\ win' = [win EXCEPT ![w] = Reopened(w)] /\ Does("scan", 0)
    <3>1. Reopened(w) \in RowType /\ RowOK(Reopened(w), runs[w])
      BY <1>0, <2>1, ReopenedOK
    <3>2. win' \in [Keys -> RowType] /\ RowsOK'
      BY <1>0, <2>1, <3>1, OneRow DEF RowInv
    <3>3. task' \in TaskType /\ task'.ph = "scan"
      BY <2>1, DoesOK DEF RowInv, Phases
    <3>4. QED
      BY <3>2, <3>3
  <2>2. CASE UNCHANGED <<win, task>>
    BY <1>0, <2>2 DEF RowInv, TypeInv, RowsOK, RowOK, TaskType
  <2>3. QED
    BY <2>1, <2>2 DEF RetryFires
<1>2. LinkOK'
  BY <1>1 DEF LinkOK, At
<1>3. TypeInv'
  BY <1>0, <1>1 DEF RowInv, TypeInv, TaskType, RetryFires, config
<1>4. QED
  BY <1>1, <1>2, <1>3 DEF RowInv

\* A run that ends was live, so no row took it for a success before.
LEMMA RunEndsStep ==
  ASSUME RowInv, NEW w \in Keys, NEW i \in DOMAIN runs[w], RunEnds(w, i) PROVE RowInv'
<1>1. PICK st \in {"success", "failure", "cancelled"} : runs' = [runs EXCEPT ![w][i] = st]
  BY DEF RunEnds
<1>2. runs \in [Keys -> Seq(RunStates)] /\ runs[w] \in Seq(RunStates) /\ runs[w][i] = "live"
  BY DEF RowInv, TypeInv, RunEnds
<1> DEFINE s == [runs[w] EXCEPT ![i] = st]
<1>3. s \in Seq(RunStates) /\ Len(s) = Len(runs[w]) /\ \A j \in DOMAIN s : j # i => s[j] = runs[w][j]
  <2>1. st \in RunStates
    BY DEF RunStates
  <2>2. QED
    BY <1>2, <2>1
<1>4. runs' = [runs EXCEPT ![w] = s]
  BY <1>1, <1>2
<1> HIDE DEF s
<1>5. runs' \in [Keys -> Seq(RunStates)]
  BY <1>2, <1>3, <1>4
<1>6. RowsOK'
  <2>1. ASSUME NEW v \in Keys PROVE RowOK(win[v], runs'[v])
    <3>1. RowOK(win[v], runs[v]) /\ win[v] \in RowType
      BY DEF RowInv, RowsOK, TypeInv
    <3>2. CASE v = w
      <4>1. runs'[v] = s
        BY <1>2, <1>4, <3>2
      <4>2. ASSUME win[v].st = "succeeded" PROVE s[win[v].att + 1] = "success"
        <5>1. runs[v][win[v].att + 1] = "success" /\ Len(runs[w]) = win[v].att + 1
          BY <3>1, <3>2, <4>2 DEF RowOK, Fired
        <5>2. win[v].att \in Nat
          BY <3>1, TumblingAssumption DEF RowType
        <5>3. win[v].att + 1 \in DOMAIN s /\ win[v].att + 1 # i
          BY <1>2, <1>3, <3>2, <5>1, <5>2
        <5>4. QED
          BY <1>3, <3>2, <5>1, <5>3
      <4>3. QED
        BY <1>3, <3>1, <3>2, <4>1, <4>2 DEF RowOK
    <3>3. CASE v # w
      <4>1. runs'[v] = runs[v]
        BY <1>2, <1>4, <3>3
      <4>2. QED
        BY <3>1, <4>1
    <3>4. QED
      BY <3>2, <3>3
  <2>2. win' = win
    BY DEF RunEnds
  <2>3. QED
    BY <2>1, <2>2 DEF RowsOK, RowOK
<1>7. LinkOK'
  BY DEF RunEnds, LinkOK, At, Idle
<1>8. TypeInv'
  BY <1>5 DEF RowInv, TypeInv, RunEnds, config, alarms
<1>9. QED
  BY <1>6, <1>7, <1>8 DEF RowInv

LEMMA EditStep == ASSUME RowInv, EditTrigger PROVE RowInv'
<1>1. task' \in TaskType /\ task'.ph = "sync"
  BY DoesOK DEF RowInv, EditTrigger, Phases
<1>2. trig' \in [epoch : Epochs, on : BOOLEAN, bound : BOOLEAN, cap : Caps]
  BY DEF RowInv, TypeInv, EditTrigger
<1>3. QED
  BY <1>1, <1>2, MoveStep DEF RowInv, TypeInv, EditTrigger

LEMMA CrashStep == ASSUME RowInv, Crash PROVE RowInv'
<1>1. task' \in TaskType /\ task'.ph = "down"
  BY DEF RowInv, TypeInv, Crash, TaskType, Phases
<1>2. QED
  BY <1>1, MoveStep DEF RowInv, TypeInv, Crash, config

LEMMA RebootStep == ASSUME RowInv, Reboot PROVE RowInv'
<1>1. task' \in TaskType /\ task'.ph = "settle"
  BY DEF RowInv, TypeInv, Reboot, TaskType, Phases
<1>2. QED
  BY <1>1, MoveStep DEF RowInv, TypeInv, Reboot, config

LEMMA TickStep == ASSUME RowInv, Tick PROVE RowInv'
<1>1. clock' \in 0 .. MaxClock
  BY TumblingAssumption DEF RowInv, TypeInv, Tick
<1>2. QED
  BY <1>1, MoveStep DEF RowInv, TypeInv, TaskType, Tick, config

-----------------------------------------------------------------------------
LEMMA RowInit == Init => RowInv
<1> SUFFICES ASSUME Init PROVE RowInv
  OBVIOUS
<1>1. 0 \in 0..MaxClock /\ 0 \in 0..Retries /\ 0 \in 0..Windows
  BY TumblingAssumption
<1>2. NoWindow \in RowType
  BY <1>1 DEF NoWindow, RowType, Status
<1>3. TypeInv
  BY <1>1, <1>2, TumblingAssumption DEF Init, TypeInv, Phases
<1>4. RowsOK
  <2>1. ASSUME NEW w \in Keys PROVE RowOK(win[w], runs[w])
    <3>1. win[w] = NoWindow /\ runs[w] = <<>>
      BY DEF Init
    <3>2. NoWindow.st = "none" /\ NoWindow.att = 0 /\ NoWindow.run = 0 /\ NoWindow.links = {}
      BY DEF NoWindow
    <3>3. Len(<<>>) = 0 /\ 1 .. 0 = {}
      OBVIOUS
    <3>4. QED
      BY <3>1, <3>2, <3>3 DEF RowOK, Fired
  <2>2. QED
    BY <2>1 DEF RowsOK
<1>5. LinkOK
  BY DEF Init, LinkOK, At
<1>6. QED
  BY <1>3, <1>4, <1>5 DEF RowInv

LEMMA RowStep == RowInv /\ [Next]_vars => RowInv'
<1> SUFFICES ASSUME RowInv, [Next]_vars PROVE RowInv'
  OBVIOUS
<1>1. CASE UNCHANGED vars
  BY <1>1 DEF vars, config, tables, alarms, RowInv, TypeInv, RowsOK, RowOK, LinkOK, At, Now
<1>2. CASE Code
  BY <1>2, LinkFiredStep, MaterializeStep, ScanEndsStep, SyncStep, BootSettleStep, BootHealStep
     DEF Code
<1>3. CASE AlarmFires
  BY <1>3, DueStep, RetryStep DEF AlarmFires
<1>4. CASE ARunEnds
  BY <1>4, RunEndsStep DEF ARunEnds
<1>5. CASE Taps
  BY <1>5, TapStep DEF Taps
<1>6. QED
  BY <1>1, <1>2, <1>3, <1>4, <1>5, EditStep, CrashStep, RebootStep, TickStep DEF Next

LEMMA RowInvTells == RowInv => WindowTellsRuns
<1> SUFFICES ASSUME RowInv PROVE WindowTellsRuns
  OBVIOUS
<1>1. ASSUME NEW w \in Keys
      PROVE  /\ win[w] \in RowType /\ runs[w] \in Seq(RunStates) /\ win[w].att \in Nat
             /\ RowOK(win[w], runs[w]) /\ DOMAIN runs[w] = 1 .. Len(runs[w])
  <2>1. win[w] \in RowType /\ runs[w] \in Seq(RunStates) /\ RowOK(win[w], runs[w])
    BY DEF RowInv, TypeInv, RowsOK
  <2>2. QED
    BY <2>1, TumblingAssumption DEF RowType
<1>2. ASSUME NEW w \in Keys
      PROVE  /\ win[w].links \subseteq DOMAIN runs[w] /\ win[w].run \in {0} \cup win[w].links
             /\ Len(runs[w]) <= win[w].att + 1
  BY <1>1 DEF RowOK, RowType, Fired, Status
<1>3. TypeOK
  <2>1. ASSUME NEW w \in Keys
        PROVE  /\ win[w].st \in Status /\ win[w].origin \in {"live", "backfill"}
               /\ win[w].att \in 0 .. Retries /\ win[w].due \in 0 .. MaxClock
               /\ \A i \in DOMAIN runs[w] : runs[w][i] \in RunStates
    BY <1>1 DEF RowType
  <2>2. QED
    BY <1>2, <2>1 DEF TypeOK, RowInv, TypeInv, RunStates
<1>4. OneRunPerAttempt
  BY <1>2 DEF OneRunPerAttempt
<1>5. SucceededIsEarned
  <2>1. ASSUME NEW w \in Keys, win[w].st \in {"succeeded", "running"}
        PROVE  win[w].run = Len(runs[w])
    BY <1>1, <2>1 DEF RowOK, Fired
  <2>2. ASSUME NEW w \in Keys, win[w].st = "succeeded" PROVE Last(runs[w]) = "success"
    BY <1>1, <2>2 DEF RowOK, Fired, Last
  <2>3. QED
    BY <2>1, <2>2 DEF SucceededIsEarned
<1>6. QED
  BY <1>3, <1>4, <1>5 DEF WindowTellsRuns

\* For every grid, set of geometries, lookback, cap and retry budget, and any
\* number of edits, crashes and refused fires, an attempt of a window is fired
\* once and a window is succeeded only by the run of its last attempt
\* (materializeOne's look-up before the fire, linkWindowRun, settleIfTerminal).
THEOREM WindowsTellRuns == Spec => []WindowTellsRuns
<1>1. RowInv /\ [Next]_vars => RowInv'
  BY RowStep
<1>2. QED
  BY <1>1, RowInit, RowInvTells, PTL DEF Spec

-----------------------------------------------------------------------------
(* The serial drain of a backlog, for a trigger without a cap above one.   *)

NoWideCap == \A c \in Caps : c <= 1

\* A step that sets no window running and keeps the windows' origins.
LEMMA SerialKept ==
  ASSUME RowInv, SerialInv, task'.ph # "link" \/ UNCHANGED <<task, trig, win>>,
         \A w \in Keys : win'[w].st = "running" =>
           win[w].st = "running" /\ win'[w].origin = win[w].origin
  PROVE  SerialInv'
<1>1. Backs' \subseteq Backs
  BY DEF Backs, In
<1>2. QED
  BY <1>1 DEF SerialInv, At, Now

\* A step that sets one window running: no backfilled one runs beside it.
LEMMA SerialOneMore ==
  ASSUME SerialInv, NEW w \in Keys, win[w].origin = "backfill" => Backs = {},
         task'.ph # "link", win'[w].origin = win[w].origin,
         \A v \in Keys : v # w => win'[v] = win[v]
  PROVE  SerialInv'
<1>1. Backs' \subseteq Backs \cup (IF win[w].origin = "backfill" THEN {w} ELSE {})
  BY DEF Backs, In
<1>2. QED
  BY <1>1 DEF SerialInv, At

LEMMA SerialMaterialize ==
  ASSUME NoWideCap, RowInv, SerialInv, MaterializeOne PROVE SerialInv'
<1>1. PICK k \in Scanned : LinkOrphan(k) \/ Blocked(k) \/ Fire(k) \/ Skip(k)
  BY DEF MaterializeOne
<1> DEFINE w == Now(k)
<1>2. /\ k \in Grid /\ w \in Keys /\ win[w].st = "waiting"
      /\ win[w].origin = "backfill" => Backs = {}
  BY ScannedOK DEF RowInv, NoWideCap
<1>3. CASE LinkOrphan(k)
  <2> DEFINE Adopted(v) == LET i == Min(Orphans(v)) IN Settled(v, Linked(v, i), runs[v][i])
  <2>1. Orphans(w) # {} /\ Onward(k)
    BY <1>3 DEF LinkOrphan
  <2>2. Adopted(w).origin = win[w].origin
    BY <1>2, <2>1, AdoptedRow
  <2>3. win' = [v \in Keys |-> IF v \in {w} THEN Adopted(v) ELSE win[v]]
    BY <1>3 DEF LinkOrphan, Settle
  <2> HIDE DEF Adopted
  <2>4. win'[w].origin = win[w].origin /\ \A v \in Keys : v # w => win'[v] = win[v]
    BY <1>2, <2>2, <2>3
  <2>5. task'.ph # "link"
    BY <1>2, <2>1, OnwardOK DEF RowInv
  <2>6. QED
    BY <1>2, <2>4, <2>5, SerialOneMore
<1>4. CASE Blocked(k)
  <2>1. task'.ph # "link" /\ win' = win
    BY <1>2, <1>4, OnwardOK DEF RowInv, Blocked, tables
  <2>2. QED
    BY <2>1, SerialKept
<1>5. CASE Skip(k)
  <2>1. task'.ph # "link" /\ win' = win
    BY <1>5, FinishOK DEF RowInv, Skip, tables
  <2>2. QED
    BY <2>1, SerialKept
<1>6. CASE Fire(k)
  <2>1. win' = win /\ trig' = trig /\ Does("link", k) /\ k \in Nat
    BY <1>2, <1>6, TumblingAssumption DEF Fire, config, Grid
  <2>2. task'.cur = k
    BY <2>1, DoesOK DEF RowInv, Phases
  <2>3. Backs' = Backs /\ Now(task.cur)' = w
    BY <2>1, <2>2 DEF Backs, In, Now
  <2>4. QED
    BY <1>2, <2>1, <2>3 DEF SerialInv
<1>7. QED
  BY <1>1, <1>3, <1>4, <1>5, <1>6

LEMMA SerialLink == ASSUME RowInv, SerialInv, LinkFired PROVE SerialInv'
<1> DEFINE w == Now(task.cur)
           q == Linked(w, Len(runs[w]))
<1>1. task.cur \in Grid /\ w \in Keys /\ win[w].st = "waiting" /\ Len(runs[w]) = win[w].att + 1
  BY NowKey DEF RowInv, LinkOK, LinkFired
<1>2. q.origin = win[w].origin
  BY <1>1, LinkedOK
<1>3. win' = [win EXCEPT ![w] = q] /\ win \in [Keys -> RowType]
  BY DEF LinkFired, RowInv, TypeInv
<1>4. task'.ph # "link"
  BY <1>1, OnwardOK DEF RowInv, LinkFired
<1>5. win[w].origin = "backfill" => Backs = {}
  BY DEF SerialInv, LinkFired
<1> HIDE DEF q, w
<1>6. win'[w].origin = win[w].origin /\ \A v \in Keys : v # w => win'[v] = win[v]
  BY <1>1, <1>2, <1>3
<1>7. QED
  BY <1>1, <1>4, <1>5, <1>6, SerialOneMore

\* What the healing passes write does not run.
LEMMA SerialHeal == ASSUME RowInv, SerialInv, Sync \/ BootHeal PROVE SerialInv'
<1>1. task'.ph # "link"
  <2>1. CASE Sync
    BY <2>1 DEF Sync, RowInv, TypeInv
  <2>2. CASE BootHeal
    BY <2>2, DoesOK DEF RowInv, BootHeal, Phases
  <2>3. QED
    BY <2>1, <2>2
<1>2. ASSUME NEW w \in Keys PROVE win'[w] = win[w] \/ win'[w].st \in {"waiting", "superseded"}
  <2>1. Overdue \subseteq In("retry_pending") /\ {} \subseteq In("retry_pending")
    BY DEF Overdue
  <2>2. \/ win'[w] = win[w]
        \/ win'[w] = Created(w, "backfill") /\ win[w].st = "none"
        \/ win'[w] = Healed(Overdue)[w]
        \/ win'[w] = Healed({})[w]
    BY DEF Sync, BootHeal
  <2>3. QED
    BY <2>1, <2>2, HealedOK, CreatedOK
<1>3. QED
  BY <1>1, <1>2, SerialKept

\* What settling writes keeps its origin, and a row that runs ran before.
LEMMA SerialSettle ==
  ASSUME RowInv, SerialInv, NEW of \in SUBSET In("running"), Settle(of, LinkedOutcome),
         runs' = runs, task'.ph # "link"
  PROVE  SerialInv'
<1>1. \A w \in Keys : win'[w].origin = win[w].origin
  BY SettleRunning
<1>2. \A w \in Keys : win[w].st # "running" => win'[w] = win[w]
  BY DEF Settle, In
<1>3. QED
  BY <1>1, <1>2, SerialKept

LEMMA SerialStep == NoWideCap /\ RowInv /\ SerialInv /\ [Next]_vars => SerialInv'
<1> SUFFICES ASSUME NoWideCap, RowInv, SerialInv, [Next]_vars PROVE SerialInv'
  OBVIOUS
<1>1. CASE UNCHANGED vars
  BY <1>1 DEF vars, config, tables, SerialInv, Backs, In, At, Now
<1>2. CASE ScanEnds
  BY <1>2, FinishOK, SerialKept DEF RowInv, ScanEnds, tables
<1>3. CASE BootSettle
  <2>1. task'.ph # "link"
    BY <1>3, DoesOK DEF RowInv, BootSettle, Phases
  <2>2. QED
    BY <1>3, <2>1, SerialSettle DEF BootSettle
<1>4. ASSUME NEW w \in due, DueFires(w) PROVE SerialInv'
  <2>1. task'.ph # "link"
    BY <1>4, DoesOK DEF RowInv, DueFires, Phases, Idle, At
  <2>2. w \in Keys /\ win \in [Keys -> RowType]
    BY DEF RowInv, TypeInv
  <2>3. win' = win \/ (win' = [win EXCEPT ![w] = Created(w, "live")] /\ Created(w, "live").st = "waiting")
    BY <1>4, <2>2, CreatedOK DEF DueFires
  <2>4. QED
    BY <2>1, <2>2, <2>3, SerialKept
<1>5. ASSUME NEW r \in retries, RetryFires(r) PROVE SerialInv'
  <2>1. task'.ph # "link"
    BY <1>5, DoesOK DEF RowInv, RetryFires, Phases, Idle, At
  <2>2. r[1] \in Keys /\ win \in [Keys -> RowType]
    BY DEF RowInv, TypeInv
  <2>3. win' = win \/ (win' = [win EXCEPT ![r[1]] = Reopened(r[1])] /\ Reopened(r[1]).st = "waiting")
    BY <1>5, <2>2, ReopenedOK DEF RetryFires
  <2>4. QED
    BY <2>1, <2>2, <2>3, SerialKept
<1>6. ASSUME NEW w \in taps, Tap(w) PROVE SerialInv'
  <2>1. task'.ph # "link"
    BY <1>6, DoesOK DEF RowInv, Tap, Phases, Idle, At
  <2>2. w \in Keys /\ runs' = runs
    BY <1>6 DEF RowInv, TypeInv, Tap
  <2>3. CASE win[w].st = "running"
    <3>1. {w} \in SUBSET In("running") /\ Settle({w}, LinkedOutcome)
      BY <1>6, <2>2, <2>3 DEF In, Tap
    <3>2. QED
      BY <2>1, <2>2, <3>1, SerialSettle
  <2>4. CASE win[w].st # "running"
    BY <1>6, <2>1, <2>4, SerialKept DEF Tap
  <2>5. QED
    BY <2>3, <2>4
<1>7. CASE EditTrigger
  <2>1. task'.ph # "link" /\ win' = win
    BY <1>7, DoesOK DEF RowInv, EditTrigger, Phases, tables
  <2>2. QED
    BY <2>1, SerialKept
<1>8. CASE ARunEnds \/ Crash \/ Reboot \/ Tick
  <2>1. win' = win /\ (task'.ph # "link" \/ UNCHANGED <<task, trig, win>>)
    BY <1>8 DEF RowInv, TypeInv, ARunEnds, RunEnds, Crash, Reboot, Tick, tables, config
  <2>2. QED
    BY <2>1, SerialKept
<1>9. QED
  BY <1>1, <1>2, <1>3, <1>4, <1>5, <1>6, <1>7, <1>8, SerialMaterialize, SerialLink, SerialHeal
     DEF Next, Code, AlarmFires, Taps

LEMMA SerialMeans == SerialInv => BackfillSerial
<1> SUFFICES ASSUME SerialInv PROVE Cardinality(Backs) <= 1
  BY DEF BackfillSerial, Backs
<1>1. CASE Backs = {}
  BY <1>1, FS_EmptySet
<1>2. CASE Backs # {}
  <2>1. PICK w \in Backs : TRUE
    BY <1>2
  <2>2. Backs = {w}
    BY <2>1 DEF SerialInv
  <2>3. Cardinality({w}) = 1
    BY FS_Singleton
  <2>4. QED
    BY <2>2, <2>3
<1>3. QED
  BY <1>1, <1>2

\* Two backfilled windows of a trigger without a cap above one never run
\* together, across every geometry an edit chooses (materializeWindows' gate).
THEOREM BacklogIsSerial == Spec => []BackfillSerial
<1>1. CASE NoWideCap
  <2>1. Init => SerialInv
    BY DEF Init, SerialInv, Backs, In, NoWindow, At
  <2>2. RowInv /\ [Next]_vars => RowInv'
    BY RowStep
  <2>3. RowInv /\ SerialInv /\ [Next]_vars => SerialInv'
    BY <1>1, SerialStep
  <2>4. QED
    BY <2>1, <2>2, <2>3, RowInit, SerialMeans, PTL DEF Spec
<1>2. CASE ~NoWideCap
  <2>1. BackfillSerial
    BY <1>2 DEF BackfillSerial, NoWideCap
  <2>2. QED
    BY <2>1, PTL
<1>3. QED
  BY <1>1, <1>2

-----------------------------------------------------------------------------
(* The chain of window_due alarms.  A key is spent only once its window has *)
(* closed, so the window that contains the present is always free to arm;   *)
(* and the seat of the one alarm survives everything but an edit or a boot, *)
(* after which sync() seeds it again before the service is idle.            *)

\* The code at work comes after the sync() of the last edit or boot.
Seated == ~task.boot /\ task.ph \in {"idle", "scan", "link"}

OneAlarm == \E k \in Grid : due = {Now(k)}

ChainInv ==
  /\ \A v, w \in due : v = w
  /\ \A w \in spent : w[2] < clock
  /\ (Idle => ~task.boot) /\ (At("settle") \/ At("bootheal") => task.boot)
  /\ Seated /\ Serving /\ clock < Windows => OneAlarm

\* A step of the synchronous code that leaves the alarms alone.
LEMMA ChainKept ==
  ASSUME ChainInv, UNCHANGED <<trig, clock, due, spent>>,
         \/ UNCHANGED task
         \/ task'.ph \in {"sync", "down"}
         \/ task'.ph \in {"settle", "bootheal"} /\ task'.boot
         \/ task'.boot = task.boot /\ task'.ph \in {"scan", "link"} /\ task.ph \in {"idle", "scan", "link"}
         \/ task'.ph = "scan" /\ task'.boot
         \/ task'.ph = "idle" /\ ~task'.boot /\ Seated
  PROVE  ChainInv'
  BY DEF ChainInv, Seated, Serving, OneAlarm, Idle, At, Now

\* The key of the window that contains the present was never used.
LEMMA UpcomingFree ==
  ASSUME TypeInv, ChainInv, clock < Windows
  PROVE  Upcoming \ spent = {Now(clock)} /\ clock \in Grid
<1>1. clock \in Nat /\ Now(clock)[2] = clock
  BY DEF TypeInv, Now
<1>2. Now(clock) \notin spent
  BY <1>1 DEF ChainInv
<1>3. QED
  BY <1>1, <1>2, TumblingAssumption DEF Upcoming, Grid

LEMMA ChainDue == ASSUME RowInv, ChainInv, NEW w \in due, DueFires(w) PROVE ChainInv'
<1>1. /\ w \in Keys /\ w[2] \in Nat /\ clock \in Nat /\ w[2] < clock /\ due = {w}
      /\ spent' = spent \cup {w} /\ UNCHANGED <<trig, clock>>
  BY TumblingAssumption DEF DueFires, RowInv, TypeInv, Keys, Grid, ChainInv, config
<1>2. Idle /\ ~task.boot /\ task'.boot = task.boot /\ task'.ph \in {"idle", "scan"}
  BY DEF DueFires, RowInv, TypeInv, ChainInv, Does, Idle, At
<1>3. \A v \in spent' : v[2] < clock'
  BY <1>1 DEF ChainInv
<1>4. CASE Serving /\ w[1] = trig.epoch
  <2>1. due' = Armed({w}) \ {w}
    BY <1>1, <1>4 DEF DueFires
  <2>2. due' \subseteq {Now(clock)}
    BY <2>1 DEF Armed, Upcoming
  <2>3. clock < Windows => due' = {Now(clock)} /\ clock \in Grid
    <3>1. Now(clock) # w
      BY <1>1 DEF Now
    <3>2. QED
      BY <2>1, <3>1, UpcomingFree DEF Armed, RowInv
  <2>4. QED
    BY <1>1, <1>2, <1>3, <2>2, <2>3 DEF ChainInv, OneAlarm, Now, Idle, At, Seated, Serving
<1>5. CASE ~ (Serving /\ w[1] = trig.epoch)
  <2>1. due' = {}
    BY <1>1, <1>5 DEF DueFires
  <2>2. ~ (Serving /\ clock < Windows)
    BY <1>1, <1>2, <1>5 DEF ChainInv, Seated, OneAlarm, Now, Idle, At
  <2>3. QED
    BY <1>1, <1>2, <1>3, <2>1, <2>2 DEF ChainInv, Serving, At
<1>6. QED
  BY <1>4, <1>5

LEMMA ChainSync == ASSUME RowInv, ChainInv, Sync PROVE ChainInv'
<1>1. /\ due' = Seeded /\ UNCHANGED <<trig, clock, spent>> /\ ~task'.boot
      /\ task'.ph \in {"idle", "scan"}
  BY DEF Sync, RowInv, TypeInv, config
<1>2. KeptDue \subseteq due /\ due \subseteq Keys
  BY DEF KeptDue, RowInv, TypeInv
<1>3. \A v, w \in due' : v = w
  BY <1>1, <1>2 DEF Seeded, Armed, Upcoming, ChainInv
<1>4. ASSUME Serving, clock < Windows PROVE OneAlarm'
  <2>1. CASE KeptDue = {}
    <3>1. due' = {Now(clock)} /\ clock \in Grid
      BY <1>1, <1>4, <2>1, UpcomingFree DEF Seeded, Armed, Serving, RowInv
    <3>2. QED
      BY <1>1, <3>1 DEF OneAlarm, Now
  <2>2. CASE KeptDue # {}
    <3>1. PICK w \in KeptDue : TRUE
      BY <2>2
    <3>2. due' = {w} /\ w \in Keys /\ w[1] = trig.epoch
      BY <1>1, <1>2, <1>3, <2>2, <3>1 DEF Seeded, KeptDue
    <3>3. w = Now(w[2]) /\ w[2] \in Grid
      BY <3>2 DEF Keys, Now
    <3>4. QED
      BY <1>1, <3>2, <3>3 DEF OneAlarm, Now
  <2>3. QED
    BY <2>1, <2>2
<1>5. QED
  BY <1>1, <1>3, <1>4 DEF ChainInv, Serving, At

LEMMA ChainStep == RowInv /\ ChainInv /\ [Next]_vars => ChainInv'
<1> SUFFICES ASSUME RowInv, ChainInv, [Next]_vars PROVE ChainInv'
  OBVIOUS
<1>0. task \in [ph : Phases, cur : Nat, boot : BOOLEAN]
  BY DEF RowInv, TypeInv
<1>1. CASE UNCHANGED vars
  BY <1>1, ChainKept DEF vars, config, alarms
<1>2. CASE LinkFired \/ MaterializeOne \/ ScanEnds
  <2>1. /\ UNCHANGED <<trig, clock, due, spent>> /\ task.ph \in {"scan", "link"}
        /\ \/ \E k : Onward(k)
           \/ \E k : Does("link", k)
           \/ Finish
    BY <1>2 DEF LinkFired, MaterializeOne, ScanEnds, LinkOrphan, Blocked, Fire, Skip, At, config, alarms
  <2>2. /\ task'.boot = task.boot
        /\ \/ task'.ph \in {"scan", "link"}
           \/ task'.ph = IF task.boot THEN "sync" ELSE "idle"
    BY <1>0, <2>1 DEF Onward, Finish, Does
  <2>3. QED
    BY <1>0, <2>1, <2>2, ChainKept DEF Seated
<1>3. CASE BootSettle \/ BootHeal
  <2>1. /\ UNCHANGED <<trig, clock, due, spent>> /\ task'.boot = task.boot
        /\ task'.ph \in {"bootheal", "sync"} \/ (At("bootheal") /\ task'.ph = "scan")
        /\ task.boot
    BY <1>0, <1>3 DEF BootSettle, BootHeal, Does, At, ChainInv, config, alarms
  <2>2. QED
    BY <1>0, <2>1, ChainKept
<1>4. ASSUME NEW r \in retries, RetryFires(r) PROVE ChainInv'
  <2>1. UNCHANGED <<trig, clock, due, spent>> /\ Idle /\ (UNCHANGED task \/ Does("scan", 0))
    BY <1>4 DEF RetryFires, config
  <2>2. QED
    BY <1>0, <2>1, ChainKept DEF Does, Idle, At
<1>5. ASSUME NEW w \in taps, Tap(w) PROVE ChainInv'
  <2>1. UNCHANGED <<trig, clock, due, spent>> /\ Idle /\ (UNCHANGED task \/ Does("scan", 0))
    BY <1>5 DEF Tap, config
  <2>2. QED
    BY <1>0, <2>1, ChainKept DEF Does, Idle, At
<1>6. CASE EditTrigger
  <2>1. UNCHANGED <<clock, due, spent>> /\ task'.ph = "sync"
    BY <1>0, <1>6 DEF EditTrigger, Does, alarms
  <2>2. QED
    BY <2>1 DEF ChainInv, Seated, Idle, At
<1>7. CASE ARunEnds \/ Crash \/ Reboot
  <2>1. UNCHANGED <<trig, clock, due, spent>> /\ (UNCHANGED task \/ task'.ph = "down" \/ (task'.ph = "settle" /\ task'.boot))
    BY <1>0, <1>7 DEF ARunEnds, RunEnds, Crash, Reboot, config, alarms
  <2>2. QED
    BY <2>1, ChainKept
<1>8. CASE Tick
  <2>1. /\ UNCHANGED <<trig, due, spent, task>> /\ clock' = clock + 1 /\ clock \in Nat
    BY <1>8 DEF Tick, config, alarms, RowInv, TypeInv
  <2>2. \A w \in spent : w[2] \in Nat
    BY TumblingAssumption DEF RowInv, TypeInv, Keys, Grid
  <2>3. clock' < Windows => clock < Windows
    BY <2>1, TumblingAssumption
  <2>4. \A w \in spent : w[2] < clock'
    BY <2>1, <2>2 DEF ChainInv
  <2>5. QED
    BY <2>1, <2>3, <2>4 DEF ChainInv, Seated, Serving, OneAlarm, Idle, At, Now
<1>9. QED
  BY <1>1, <1>2, <1>3, <1>4, <1>5, <1>6, <1>7, <1>8, ChainDue, ChainSync DEF Next, Code, AlarmFires, Taps

\* An enabled, bound trigger whose grid goes on always has exactly one pending
\* window_due alarm of its own geometry, after any edits, missed deliveries,
\* crashes and boots: the handler's re-arm and sync()'s seed never meet a key
\* that armWakeup refuses, and never arm a second one.
THEOREM ChainNeverBreaks == Spec => []ChainAlive
<1>1. Init => ChainInv
  BY DEF Init, ChainInv, Idle, At, Seated
<1>2. RowInv /\ [Next]_vars => RowInv'
  BY RowStep
<1>3. RowInv /\ ChainInv /\ [Next]_vars => ChainInv'
  BY ChainStep
<1>4. ChainInv => ChainAlive
  BY DEF ChainInv, ChainAlive, Seated, OneAlarm, Idle, At
<1>5. QED
  BY <1>1, <1>2, <1>3, <1>4, RowInit, PTL DEF Spec

-----------------------------------------------------------------------------
(* Dependencies.  Where the lookback is off or spans the grid, the rows of  *)
(* an epoch appear in order: by the chain alone, or below a cursor under    *)
(* which no row is missing.  A shorter lookback breaks the order (the run   *)
(* skipped_window).                                                         *)

WholeLookback == \A l \in Lookbacks : l = 0 \/ l >= Windows

\* With no backfill, a row has closed and lies before its epoch's alarm.
InOrder ==
  lookback = 0 =>
    \A w \in Keys : win[w].st # "none" =>
      w[2] < clock /\ \A v \in due : v[1] = w[1] => w[2] < v[2]

\* With one, no window below the cursor is without a row.
CursorFull == lookback > 0 => \A w \in Keys : w[2] < cursor[w[1]] => win[w].st # "none"

Dep(w) == win[<<w[1], w[2] - offset>>].st

DependsWell ==
  \A w \in Keys :
    runs[w] # <<>> /\ offset > 0 /\ w[2] >= offset =>
      Dep(w) \in {"succeeded", "superseded"} \/ (lookback = 0 /\ Dep(w) = "none")

DepInv == InOrder /\ CursorFull /\ DependsWell

\* The window that a window depends on is one of the same epoch's.
LEMMA DepKey ==
  ASSUME TypeInv, NEW w \in Keys, offset > 0, w[2] >= offset
  PROVE  /\ <<w[1], w[2] - offset>> \in Keys
         /\ w[2] \in Nat /\ w[2] - offset \in Nat /\ w[2] - offset < w[2]
<1>1. offset \in Nat /\ Windows \in Nat /\ w[1] \in Epochs /\ w[2] \in Grid
  BY TumblingAssumption DEF TypeInv, Keys
<1>2. QED
  BY <1>1 DEF Keys, Grid

\* What a step does to the rows: a row never vanishes, a window that succeeded
\* or was superseded stays so, and a row appears by a due alarm or a backfill.
Births(w) ==
  \/ DueFires(w) /\ w \in due /\ Now(w[2]) = w
  \/ Sync /\ Serving /\ w[1] = trig.epoch /\ w[2] \in Backfilled

RowMoves ==
  \A w \in Keys :
    /\ win[w].st # "none" => win'[w].st # "none"
    /\ win[w].st \in {"succeeded", "superseded"} => win'[w].st = win[w].st
    /\ win[w].st = "none" /\ win'[w].st # "none" => Births(w)

\* Rows that change were waiting, running or about to be retried.
LEMMA OpenRowMoves ==
  ASSUME \A w \in Keys : \/ win'[w] = win[w]
                         \/ /\ win[w].st \in {"waiting", "running", "retry_pending"}
                            /\ win'[w].st # "none"
  PROVE  RowMoves
BY DEF RowMoves

LEMMA ScanRowMoves == ASSUME RowInv, LinkFired \/ MaterializeOne PROVE RowMoves
<1>1. win \in [Keys -> RowType] /\ TypeInv /\ RowInv'
  BY LinkFiredStep, MaterializeStep DEF RowInv, TypeInv
<1>2. \A w \in Keys : RowOK(win'[w], runs'[w]) /\ RowOK(win[w], runs[w])
  BY <1>1 DEF RowInv, RowsOK
<1>3. CASE LinkFired
  <2>1. task.cur \in Grid /\ Now(task.cur) \in Keys /\ win[Now(task.cur)].st = "waiting"
    BY <1>1, <1>3, NowKey DEF LinkFired, RowInv, LinkOK
  <2>2. Linked(Now(task.cur), Len(runs[Now(task.cur)])).st = "running"
    BY <1>1, <2>1 DEF Linked, RowType
  <2>3. QED
    BY <1>1, <1>3, <2>1, <2>2, OpenRowMoves DEF LinkFired
<1>4. ASSUME NEW k \in Scanned, LinkOrphan(k) PROVE RowMoves
  <2>1. Now(k) \in Keys /\ win[Now(k)].st = "waiting"
    BY <1>1, ScannedOK
  <2>2. \A w \in Keys : w # Now(k) => win'[w] = win[w]
    BY <1>4 DEF LinkOrphan, Settle
  <2>3. Orphans(Now(k)) # {} /\ runs' = runs
    BY <1>4 DEF LinkOrphan
  <2>4. Len(runs[Now(k)]) # 0
    BY <1>1, <2>1, <2>3 DEF Orphans, TypeInv
  <2>5. win'[Now(k)].st # "none"
    BY <1>2, <2>1, <2>3, <2>4 DEF RowOK
  <2>6. QED
    BY <2>1, <2>2, <2>5, OpenRowMoves
<1>5. CASE win' = win
  BY <1>5, OpenRowMoves
<1>6. QED
  BY <1>3, <1>4, <1>5 DEF MaterializeOne, Blocked, Fire, Skip, tables

LEMMA HealRowMoves == ASSUME RowInv, Sync \/ BootHeal PROVE RowMoves
<1>1. ASSUME NEW w \in Keys
      PROVE  \/ win'[w] = win[w]
             \/ win[w].st \in {"waiting", "retry_pending"} /\ win'[w].st # "none"
             \/ win[w].st = "none" /\ Births(w)
  <2>1. Overdue \subseteq In("retry_pending") /\ {} \subseteq In("retry_pending")
    BY DEF Overdue
  <2>2. \A o \in {Overdue, {}} : Healed(o)[w] = win[w] \/
          (win[w].st \in {"waiting", "retry_pending"} /\ Healed(o)[w].st # "none")
    <3>1. \A o \in {Overdue, {}} :
            Healed(o)[w] = win[w] \/ (Healed(o)[w].st \in {"waiting", "superseded"})
      BY <2>1, HealedOK
    <3>2. \A o \in {Overdue, {}} : w \notin o /\ w \notin Stale => Healed(o)[w] = win[w]
      BY DEF Healed
    <3>3. w \in Overdue \cup Stale => win[w].st \in {"waiting", "retry_pending"}
      BY DEF Overdue, Stale, In
    <3>4. QED
      BY <3>1, <3>2, <3>3
  <2>3. CASE BootHeal
    BY <2>2, <2>3 DEF BootHeal
  <2>4. CASE Sync
    <3>1. \/ win'[w] = win[w] \/ win'[w] = Healed(Overdue)[w]
          \/ win[w].st = "none" /\ Serving /\ w[1] = trig.epoch /\ w[2] \in Backfilled
      BY <2>4 DEF Sync
    <3>2. QED
      BY <2>2, <2>4, <3>1 DEF Births
  <2>5. QED
    BY <2>3, <2>4
<1>2. ASSUME NEW w \in Keys PROVE win[w].st = "none" \/ win'[w] = win[w] \/ win'[w].st # "none"
  BY <1>1
<1>3. QED
  BY <1>1, <1>2 DEF RowMoves

\* Settling running windows: a window that had a run keeps its row.
LEMMA SettleRowMoves ==
  ASSUME RowInv, NEW of \in SUBSET In("running"), Settle(of, LinkedOutcome), runs' = runs
  PROVE  RowMoves
<1>1. RowsOK' /\ \A w \in Keys : win[w].st # "running" => win'[w] = win[w]
  BY SettleRunning DEF Settle, In
<1>2. ASSUME NEW w \in Keys, win[w].st = "running" PROVE win'[w].st # "none"
  <2>1. /\ RowOK(win'[w], runs[w]) /\ RowOK(win[w], runs[w])
        /\ win[w].att \in Nat
    BY <1>1, TumblingAssumption DEF RowInv, RowsOK, TypeInv, RowType
  <2>2. QED
    BY <1>2, <2>1 DEF RowOK, Fired
<1>3. QED
  BY <1>1, <1>2, OpenRowMoves

LEMMA RowsMove == ASSUME RowInv, [Next]_vars PROVE RowMoves
<1>0. win \in [Keys -> RowType] /\ due \subseteq Keys
  BY DEF RowInv, TypeInv
<1>1. ASSUME NEW w \in due, DueFires(w) PROVE RowMoves
  <2>1. w \in Keys /\ (w[1] = trig.epoch => Now(w[2]) = w)
    BY <1>0 DEF Keys, Now
  <2>2. \/ win' = win
        \/ /\ win[w].st = "none" /\ w[1] = trig.epoch
           /\ \A v \in Keys : v # w => win'[v] = win[v]
    BY <1>0, <1>1 DEF DueFires
  <2>3. win' = win => RowMoves
    BY OpenRowMoves
  <2>4. QED
    BY <1>1, <2>1, <2>2, <2>3 DEF RowMoves, Births
<1>2. ASSUME NEW r \in retries, RetryFires(r) PROVE RowMoves
  <2>1. r[1] \in Keys
    BY DEF RowInv, TypeInv
  <2>2. win' = win \/ (win[r[1]].st = "retry_pending" /\ win' = [win EXCEPT ![r[1]] = Reopened(r[1])])
    BY <1>2 DEF RetryFires
  <2>3. Reopened(r[1]).st = "waiting"
    BY <1>0, <2>1 DEF Reopened, RowType
  <2>4. QED
    BY <1>0, <2>1, <2>2, <2>3, OpenRowMoves
<1>3. ASSUME NEW w \in taps, Tap(w) PROVE RowMoves
  <2>1. win' = win \/ ({w} \in SUBSET In("running") /\ Settle({w}, LinkedOutcome) /\ runs' = runs)
    BY <1>3 DEF Tap, In, RowInv, TypeInv
  <2>2. QED
    BY <2>1, SettleRowMoves, OpenRowMoves
<1>4. CASE BootSettle
  BY <1>4, SettleRowMoves DEF BootSettle
<1>5. CASE win' = win
  BY <1>5, OpenRowMoves
<1>6. QED
  BY <1>1, <1>2, <1>3, <1>4, <1>5, ScanRowMoves, HealRowMoves
     DEF Next, Code, AlarmFires, Taps, ScanEnds, ARunEnds, RunEnds, EditTrigger, Crash, Reboot, Tick,
         vars, tables

\* The first run of a window is fired once its dependency is satisfied.
LEMMA FirstRun ==
  ASSUME RowInv, [Next]_vars, NEW w \in Keys, runs[w] = <<>>, runs'[w] # <<>>
  PROVE  \E k \in Grid : w = Now(k) /\ DependencySatisfied(k) /\ win' = win
<1>1. ASSUME NEW v \in Keys, NEW i \in DOMAIN runs[v], RunEnds(v, i) PROVE FALSE
  <2>1. v # w /\ runs \in [Keys -> Seq(RunStates)]
    BY <1>1 DEF RowInv, TypeInv
  <2>2. runs'[w] = runs[w]
    BY <1>1, <2>1 DEF RunEnds
  <2>3. QED
    BY <2>2
<1>2. ASSUME NEW k \in Scanned, Fire(k)
      PROVE  \E j \in Grid : w = Now(j) /\ DependencySatisfied(j) /\ win' = win
  <2>1. k \in Grid
    BY ScannedOK DEF RowInv
  <2>2. w = Now(k) /\ DependencySatisfied(k) /\ win' = win
    BY <1>2 DEF Fire, RowInv, TypeInv
  <2>3. QED
    BY <2>1, <2>2
<1>3. CASE runs' = runs
  BY <1>3
<1>4. QED
  BY <1>1, <1>2, <1>3
     DEF Next, Code, AlarmFires, Taps, LinkFired, MaterializeOne, LinkOrphan, Blocked, Skip, ScanEnds,
         Sync, BootSettle, BootHeal, DueFires, RetryFires, Tap, ARunEnds, EditTrigger, Crash, Reboot,
         Tick, vars, tables

LEMMA OrderStep ==
  ASSUME RowInv, ChainInv, InOrder, [Next]_vars
  PROVE  InOrder'
<1> SUFFICES ASSUME lookback = 0, lookback' = lookback PROVE InOrder'
  <2>1. lookback' = lookback
    BY DEF Next, Code, AlarmFires, Taps, LinkFired, MaterializeOne, LinkOrphan, Blocked, Fire, Skip,
           ScanEnds, Sync, BootSettle, BootHeal, DueFires, RetryFires, Tap, ARunEnds, RunEnds,
           EditTrigger, Crash, Reboot, Tick, vars, config
  <2>2. QED
    BY <2>1 DEF InOrder
<1>1. RowMoves /\ due \subseteq Keys /\ clock \in Nat
  BY RowsMove DEF RowInv, TypeInv
<1>2. ASSUME NEW w \in Keys PROVE w[2] \in Nat
  BY TumblingAssumption DEF Keys, Grid
<1>3. Backfilled = {}
  BY DEF Backfilled
<1>4. clock' = clock \/ clock' = clock + 1
  BY DEF Next, Code, AlarmFires, Taps, LinkFired, MaterializeOne, LinkOrphan, Blocked, Fire, Skip,
         ScanEnds, Sync, BootSettle, BootHeal, DueFires, RetryFires, Tap, ARunEnds, RunEnds,
         EditTrigger, Crash, Reboot, Tick, vars
\* A new row is the one whose alarm fires; its epoch's next alarm is later.
<1>5. ASSUME NEW w \in Keys, win'[w].st # "none", win[w].st = "none" PROVE DueFires(w) /\ w \in due
  BY <1>1, <1>3, <1>5 DEF RowMoves, Births
<1>6. ASSUME NEW v \in due' PROVE v \in due \/ (v = Now(clock) /\ clock' = clock)
  <2>1. CASE Sync
    BY <1>6, <2>1 DEF Sync, Seeded, KeptDue, Armed, Upcoming
  <2>2. ASSUME NEW w \in due, DueFires(w) PROVE v \in due \/ (v = Now(clock) /\ clock' = clock)
    BY <1>6, <2>2 DEF DueFires, Armed, Upcoming
  <2>3. CASE due' = due
    BY <1>6, <2>3
  <2>4. QED
    BY <2>1, <2>2, <2>3
       DEF Next, Code, AlarmFires, Taps, LinkFired, MaterializeOne, LinkOrphan, Blocked, Fire, Skip,
           ScanEnds, BootSettle, BootHeal, RetryFires, Tap, ARunEnds, RunEnds, EditTrigger, Crash,
           Reboot, Tick, vars, alarms
<1>7. ASSUME NEW w \in Keys, win'[w].st # "none" PROVE w[2] < clock'
  <2>1. CASE win[w].st # "none"
    BY <1>1, <1>2, <1>4, <2>1 DEF InOrder
  <2>2. CASE win[w].st = "none"
    BY <1>1, <1>2, <1>4, <1>5, <1>7, <2>2 DEF DueFires
  <2>3. QED
    BY <2>1, <2>2
<1>8. ASSUME NEW w \in Keys, win'[w].st # "none", NEW v \in due', v[1] = w[1] PROVE w[2] < v[2]
  <2>1. CASE v = Now(clock) /\ clock' = clock
    BY <1>7, <1>8, <2>1 DEF Now
  <2>2. CASE v \in due /\ win[w].st # "none"
    BY <1>8, <2>2 DEF InOrder
  <2>3. CASE v \in due /\ win[w].st = "none"
    <3>1. DueFires(w) /\ w \in due /\ v = w
      BY <1>5, <1>8, <2>3 DEF ChainInv
    <3>2. w \notin due'
      BY <3>1 DEF DueFires
    <3>3. QED
      BY <3>1, <3>2
  <2>4. QED
    BY <1>6, <2>1, <2>2, <2>3
<1>9. QED
  BY <1>7, <1>8 DEF InOrder

LEMMA CursorStep ==
  ASSUME WholeLookback, RowInv, CursorFull, [Next]_vars
  PROVE  CursorFull'
<1> SUFFICES ASSUME lookback > 0, NEW w \in Keys, w[2] < cursor'[w[1]], win'[w].st = "none"
             PROVE  FALSE
  <2>1. lookback' = lookback
    BY DEF Next, Code, AlarmFires, Taps, LinkFired, MaterializeOne, LinkOrphan, Blocked, Fire, Skip,
           ScanEnds, Sync, BootSettle, BootHeal, DueFires, RetryFires, Tap, ARunEnds, RunEnds,
           EditTrigger, Crash, Reboot, Tick, vars, config
  <2>2. QED
    BY <2>1 DEF CursorFull
<1>1. RowMoves /\ RowInv
  BY RowsMove
<1>2. win[w].st = "none" /\ ~ (w[2] < cursor[w[1]])
  BY <1>1 DEF RowMoves, CursorFull
<1>3. cursor' # cursor
  BY <1>2
<1>4. Sync
  BY <1>3
     DEF Next, Code, AlarmFires, Taps, LinkFired, MaterializeOne, LinkOrphan, Blocked, Fire, Skip,
         ScanEnds, BootSettle, BootHeal, DueFires, RetryFires, Tap, ARunEnds, RunEnds, EditTrigger,
         Crash, Reboot, Tick, vars
<1> DEFINE edge == Min({clock, Windows})
           c == cursor[trig.epoch]
<1>5. /\ Serving /\ Backfilled # {} /\ cursor' = [cursor EXCEPT ![trig.epoch] = Max({c, edge})]
      /\ win' = [v \in Keys |-> IF v[1] = trig.epoch /\ v[2] \in Backfilled /\ win[v].st = "none"
                                THEN Created(v, "backfill") ELSE Healed(Overdue)[v]]
  BY <1>3, <1>4 DEF Sync, Serving
<1>6. /\ clock \in Nat /\ Windows \in Nat /\ lookback \in Nat /\ lookback >= Windows /\ c \in Nat
      /\ w[1] \in Epochs /\ w[2] \in Grid /\ w[2] \in Nat /\ cursor \in [Epochs -> 0..Windows]
  BY TumblingAssumption DEF RowInv, TypeInv, WholeLookback, Keys, Grid
<1>7. edge \in Nat /\ edge <= Windows
  BY <1>6, MinIn, {clock, Windows} \in SUBSET Nat
<1>8. w[1] = trig.epoch /\ Max({c, edge}) \in {c, edge} /\ w[2] >= c
  <2> HIDE DEF edge
  <2>1. Max({c, edge}) \in {c, edge}
    BY <1>6, <1>7, MaxOfTwo
  <2>2. QED
    BY <1>2, <1>5, <1>6, <2>1
<1>9. w[2] < edge
  <2> HIDE DEF edge
  <2>1. cursor'[w[1]] = Max({c, edge})
    BY <1>5, <1>6, <1>8
  <2>2. QED
    BY <1>6, <1>7, <1>8, <2>1
<1>10. w[2] \in Backfilled
  <2>1. Backfilled = {k \in Grid : Max({c, IF edge > lookback THEN edge - lookback ELSE 0}) <= k /\ k < edge}
    BY <1>6 DEF Backfilled
  <2> HIDE DEF edge
  <2>2. (IF edge > lookback THEN edge - lookback ELSE 0) = 0
    BY <1>6, <1>7
  <2>3. Max({c, 0}) \in {c, 0}
    BY <1>6, MaxOfTwo
  <2>4. Max({c, 0}) <= w[2]
    BY <1>6, <1>8, <2>3
  <2>5. QED
    BY <1>6, <1>9, <2>1, <2>2, <2>4
<1>11. win'[w] = Created(w, "backfill")
  BY <1>2, <1>5, <1>8, <1>10
<1>12. QED
  BY <1>1, <1>2, <1>11, CreatedOK

LEMMA DependsStep ==
  ASSUME WholeLookback, RowInv, ChainInv, DepInv, [Next]_vars
  PROVE  DependsWell'
<1>1. RowMoves /\ RowInv /\ TypeInv
  BY RowsMove DEF RowInv
<1>2. UNCHANGED <<lookback, offset>>
  BY DEF Next, Code, AlarmFires, Taps, LinkFired, MaterializeOne, LinkOrphan, Blocked, Fire, Skip,
         ScanEnds, Sync, BootSettle, BootHeal, DueFires, RetryFires, Tap, ARunEnds, RunEnds,
         EditTrigger, Crash, Reboot, Tick, vars, config
<1> SUFFICES ASSUME NEW w \in Keys, runs'[w] # <<>>, offset > 0, w[2] >= offset
             PROVE  LET st == win'[<<w[1], w[2] - offset>>].st IN
                    st \in {"succeeded", "superseded"} \/ (lookback = 0 /\ st = "none")
  BY <1>2 DEF DependsWell, Dep
<1> DEFINE d == <<w[1], w[2] - offset>>
<1>3. d \in Keys /\ d[1] = w[1] /\ d[2] < w[2] /\ d[2] = w[2] - offset /\ d[2] \in Nat /\ w[2] \in Nat
  BY <1>1, DepKey
<1> HIDE DEF d
<1>4. CASE runs[w] # <<>>
  <2>1. win[d].st \in {"succeeded", "superseded"} \/ (lookback = 0 /\ win[d].st = "none")
    BY <1>4 DEF DepInv, DependsWell, Dep, d
  <2>2. ASSUME lookback = 0, win[d].st = "none" PROVE win'[d].st = "none"
    <3> SUFFICES ASSUME win'[d].st # "none" PROVE FALSE
      OBVIOUS
    <3>1. Backfilled = {}
      BY <2>2 DEF Backfilled
    <3>2. d \in due
      BY <1>1, <1>3, <2>2, <3>1 DEF RowMoves, Births
    <3>3. RowOK(win[w], runs[w]) /\ runs[w] \in Seq(RunStates)
      BY <1>1 DEF RowInv, RowsOK, TypeInv
    <3>4. win[w].st # "none"
      BY <1>4, <3>3 DEF RowOK
    <3>5. w[2] < d[2]
      BY <1>3, <2>2, <3>2, <3>4 DEF DepInv, InOrder
    <3>6. QED
      BY <1>3, <3>5
  <2>3. QED
    BY <1>1, <1>3, <2>1, <2>2 DEF RowMoves, d
<1>5. CASE runs[w] = <<>>
  <2>1. PICK k \in Grid : w = Now(k) /\ DependencySatisfied(k) /\ win' = win
    BY <1>1, <1>5, FirstRun
  <2>2. k = w[2] /\ d = Now(k - offset) /\ w[1] = trig.epoch
    BY <2>1 DEF Now, d
  <2>3. \/ win[d].st \in {"succeeded", "superseded"}
        \/ win[d].st = "none" /\ (lookback > 0 => d[2] < cursor[d[1]])
    BY <1>3, <2>1, <2>2 DEF DependencySatisfied
  <2>4. lookback \in Nat
    BY <1>1, TumblingAssumption DEF TypeInv
  <2>5. win[d].st = "none" => lookback = 0
    BY <1>3, <2>3, <2>4 DEF DepInv, CursorFull
  <2>6. QED
    BY <2>1, <2>3, <2>5 DEF d
<1>6. QED
  BY <1>4, <1>5

\* Where the lookback is off or spans the whole grid, no window runs before
\* the one it depends on has succeeded or was superseded, and one that had no
\* row then never gets one afterwards: through edits, crashes and late alarms
\* the rows appear in the order dependencySatisfied's answer for a missing row
\* takes for granted.
THEOREM DependenciesHold ==
  ASSUME WholeLookback
  PROVE  Spec => []DependencyHolds
<1>1. Init => ChainInv /\ DepInv
  <2>1. Init => ChainInv
    BY DEF Init, ChainInv, Idle, At, Seated
  <2>2. Init => InOrder /\ DependsWell
    BY DEF Init, InOrder, DependsWell, NoWindow
  <2>3. Init => CursorFull
    BY TumblingAssumption DEF Init, CursorFull, Keys, Grid
  <2>4. QED
    BY <2>1, <2>2, <2>3 DEF DepInv
<1>2. RowInv /\ [Next]_vars => RowInv'
  BY RowStep
<1>3. RowInv /\ ChainInv /\ [Next]_vars => ChainInv'
  BY ChainStep
<1>4. RowInv /\ ChainInv /\ DepInv /\ [Next]_vars => DepInv'
  BY OrderStep, CursorStep, DependsStep DEF DepInv
<1>5. DepInv => DependencyHolds
  BY DEF DepInv, DependsWell, Dep, DependencyHolds
<1>6. QED
  BY <1>1, <1>2, <1>3, <1>4, <1>5, RowInit, PTL DEF Spec
=============================================================================
