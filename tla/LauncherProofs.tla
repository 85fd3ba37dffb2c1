--------------------------- MODULE LauncherProofs ---------------------------
(***************************************************************************)
(* Admission for any triggers, policies, capacities and pipelines, and any *)
(* number of rows, parks, edits, crashes and shutdowns.  A drain is a      *)
(* recursive function of the table; what it computes is shown by counting: *)
(* each iteration admits one row, so after as many as there are rows none  *)
(* is left that both gates would let in.                                   *)
(***************************************************************************)
EXTENDS Launcher, FiniteSetTheorems, WellFoundedInduction, TLAPS

-----------------------------------------------------------------------------
(* Naturals, and functions defined by recursion on them.                   *)

\* A set of naturals has a least element.
LEMMA LeastOf ==
  ASSUME NEW S \in SUBSET Nat, S # {}
  PROVE  \E x \in S : \A y \in S : x <= y
<1> DEFINE R == {ss \in Nat \X Nat : ss[1] < ss[2]}
<1>1. IsWellFoundedOn(R, Nat)
  BY NatLessThanWellFounded, Zenon DEF OpToRel
<1> HIDE DEF R
<1>2. PICK x \in S : \A y \in S : ~ (<<y, x>> \in R)
  BY <1>1, WFMin
<1>3. ASSUME NEW y \in S PROVE x <= y
  <2>1. x \in Nat /\ y \in Nat /\ <<y, x>> \notin R
    BY <1>2
  <2>2. ~ (y < x)
    BY <2>1 DEF R
  <2> QED BY <2>1, <2>2
<1> QED BY <1>3

\* A bounded set of naturals has a greatest element, which is its Max.
LEMMA MaxOf ==
  ASSUME NEW S \in SUBSET Nat, S # {}, NEW b \in Nat, \A x \in S : x <= b
  PROVE  Max(S) \in S /\ \A x \in S : x <= Max(S)
<1> DEFINE U == {u \in Nat : \A x \in S : x <= u}
<1>1. PICK m \in U : \A u \in U : m <= u
  BY LeastOf
<1>2. m \in S
  <2> SUFFICES ASSUME m \notin S PROVE FALSE
    OBVIOUS
  <2>1. \A x \in S : x \in Nat /\ x < m
    BY <1>1
  <2>2. m \in Nat /\ m # 0 /\ \A x \in S : x <= m - 1
    <3>1. PICK x0 \in S : TRUE
      OBVIOUS
    <3>2. m \in Nat /\ x0 \in Nat /\ x0 < m
      BY <1>1, <2>1
    <3>3. \A x \in S : x <= m - 1
      BY <2>1, <3>2
    <3> QED BY <3>2, <3>3
  <2>3. m - 1 \in U
    BY <2>2
  <2> QED BY <1>1, <2>2, <2>3
<1>3. \E x \in S : \A y \in S : x >= y
  BY <1>1, <1>2
<1> QED BY <1>3 DEF Max

\* What holds at the start and is passed on holds up to the end.
LEMMA Induct ==
  ASSUME NEW n \in Nat, NEW S, 0 \in S, \A k \in 0..n : k < n /\ k \in S => k + 1 \in S
  PROVE  \A k \in 0..n : k \in S
<1> DEFINE B == {k \in 0..n : k \notin S}
<1> SUFFICES ASSUME B # {} PROVE FALSE
  OBVIOUS
<1>0. B \in SUBSET Nat
  OBVIOUS
<1>1. PICK b \in B : \A y \in B : b <= y
  <2> HIDE DEF B
  <2> QED BY <1>0, LeastOf
<1>2. b \in 0..n /\ b \notin S /\ b # 0
  BY <1>1
<1>3. b - 1 \in 0..n /\ b - 1 \notin B /\ b - 1 < n
  BY <1>1, <1>2
<1>4. b - 1 + 1 \in S
  BY <1>3
<1> QED BY <1>2, <1>4

\* A recursive definition over 0..n has a solution.
IsStep(F, T) == F \in [Nat \X T -> T]

Solvable(F, T, x, n) ==
  \E g \in [0..n -> T] : g[0] = x /\ \A k \in 1..n : g[k] = F[<<k, g[k - 1]>>]

LEMMA Recursion ==
  ASSUME NEW F, NEW T, IsStep(F, T), NEW x \in T, NEW n \in Nat
  PROVE  Solvable(F, T, x, n)
<1> USE DEF IsStep
<1> DEFINE Solves(g, m) == g[0] = x /\ \A k \in 1..m : g[k] = F[<<k, g[k - 1]>>]
           G == {m \in Nat : \E g \in [0..m -> T] : Solves(g, m)}
<1>1. 0 \in G
  <2>1. [k \in 0..0 |-> x] \in [0..0 -> T] /\ Solves([k \in 0..0 |-> x], 0)
    OBVIOUS
  <2> QED BY <2>1
<1>2. ASSUME NEW m \in Nat, m \in G PROVE m + 1 \in G
  <2>1. PICK g \in [0..m -> T] : Solves(g, m)
    BY <1>2
  <2> DEFINE h == [k \in 0..(m + 1) |-> IF k = m + 1 THEN F[<<k, g[m]>>] ELSE g[k]]
  <2>2. h \in [0..(m + 1) -> T]
    <3>1. F[<<m + 1, g[m]>>] \in T
      OBVIOUS
    <3> QED BY <3>1
  <2>3. h[0] = x
    BY <2>1
  <2>4. ASSUME NEW k \in 1..(m + 1) PROVE h[k] = F[<<k, h[k - 1]>>]
    <3>1. CASE k = m + 1
      BY <3>1
    <3>2. CASE k # m + 1
      <4>1. k \in 1..m /\ k \in 0..(m + 1) /\ k - 1 \in 0..(m + 1) /\ k - 1 # m + 1
        BY <3>2
      <4>2. h[k] = g[k] /\ h[k - 1] = g[k - 1]
        BY <3>2, <4>1
      <4> QED BY <2>1, <4>1, <4>2
    <3> QED BY <3>1, <3>2
  <2>5. Solves(h, m + 1)
    BY <2>3, <2>4
  <2> HIDE DEF h, Solves
  <2> QED BY <2>2, <2>5
<1>3. n \in G
  <2> HIDE DEF G
  <2>1. \A k \in 0..n : k < n /\ k \in G => k + 1 \in G
    BY <1>2
  <2> QED BY <1>1, <2>1, Induct
<1> QED BY <1>3 DEF Solvable

-----------------------------------------------------------------------------
(* Tables of rows.                                                         *)

RowStatus == {"queued", "pending", "running", "held", "waiting", "ended"}

Row == [trig : Triggers \cup {NoTrigger}, pipe : Pipelines, at : Nat, st : RowStatus]

\* A table stamped no later than c; a queued row has a trigger and no stamp.
Table(c) ==
  {r \in Seq(Row) : \A i \in DOMAIN r :
     r[i].at <= c /\ (r[i].st = "queued" => r[i].trig # NoTrigger /\ r[i].at = 0)}

Took(x, y, c) ==
  x.st = "queued" /\ y.st = "pending" /\ y.at = c /\ y.trig = x.trig /\ y.pipe = x.pipe

\* The rows of r are those of b, some of them admitted at c.
Served(b, r, c) ==
  Len(r) = Len(b) /\ \A i \in DOMAIN b : r[i] = b[i] \/ Took(b[i], r[i], c)

\* No drain of p has anything to do.
Stuck(r, p) == ~PipelineHasRoom(r, p) \/ Candidates(r, p) = {}

LEMMA TableFacts ==
  ASSUME NEW c \in Nat, NEW r \in Table(c)
  PROVE  /\ r \in Seq(Row) /\ Len(r) \in Nat /\ DOMAIN r = 1..Len(r)
         /\ \A i \in DOMAIN r :
              /\ i \in Nat /\ r[i] \in Row /\ r[i].at \in Nat /\ r[i].at <= c
              /\ r[i].trig \in Triggers \cup {NoTrigger} /\ r[i].pipe \in Pipelines
              /\ r[i].st \in RowStatus
              /\ r[i].st = "queued" => r[i].trig \in Triggers /\ r[i].at = 0
<1>1. r \in Seq(Row)
  BY DEF Table
<1>2. \A i \in DOMAIN r : r[i] \in Row
  BY <1>1
<1> QED BY <1>1, <1>2 DEF Table, Row

\* Counting the rows of a table.
LEMMA CountFacts ==
  ASSUME NEW c \in Nat, NEW r \in Table(c), NEW S \in SUBSET DOMAIN r
  PROVE  IsFiniteSet(S) /\ Cardinality(S) \in Nat
<1>1. IsFiniteSet(1..Len(r))
  BY TableFacts, FS_Interval
<1>2. IsFiniteSet(S)
  BY <1>1, TableFacts, FS_Subset
<1> QED BY <1>2, FS_CardinalityType

LEMMA CountMono ==
  ASSUME NEW c \in Nat, NEW r \in Table(c), NEW S \in SUBSET DOMAIN r, NEW U \in SUBSET S
  PROVE  Cardinality(U) \in Nat /\ Cardinality(S) \in Nat /\ Cardinality(U) <= Cardinality(S)
BY CountFacts, FS_Subset

LEMMA ActiveNat ==
  ASSUME NEW c \in Nat, NEW r \in Table(c)
  PROVE  /\ \A t : ActiveForTrigger(r, t) \in Nat
         /\ \A p : ActiveForPipeline(r, p) \in Nat
BY CountFacts DEF ActiveForTrigger, ActiveForPipeline

\* Admissions only fill slots: nothing becomes admissible by one.
LEMMA ServedMono ==
  ASSUME NEW c \in Nat, NEW b \in Table(c), NEW r \in Table(c), Served(b, r, c)
  PROVE  /\ \A t : ActiveForTrigger(b, t) <= ActiveForTrigger(r, t)
         /\ \A p : ActiveForPipeline(b, p) <= ActiveForPipeline(r, p)
         /\ \A t, p : QueuedOn(r, t, p) \subseteq QueuedOn(b, t, p)
         /\ \A p \in Pipelines : PipelineHasRoom(r, p) => PipelineHasRoom(b, p)
         /\ \A p : Candidates(r, p) \subseteq Candidates(b, p)
         /\ \A p \in Pipelines : Stuck(b, p) => Stuck(r, p)
<1>1. DOMAIN r = DOMAIN b
  BY TableFacts DEF Served
<1>2. ASSUME NEW i \in DOMAIN b
      PROVE  /\ r[i].trig = b[i].trig /\ r[i].pipe = b[i].pipe
             /\ Occupies(b[i]) => Occupies(r[i])
             /\ r[i].st = "queued" => b[i].st = "queued"
  BY DEF Served, Took, Occupies
<1>3. ASSUME NEW t PROVE ActiveForTrigger(b, t) <= ActiveForTrigger(r, t)
  <2> DEFINE U == {i \in DOMAIN b : Occupies(b[i]) /\ b[i].trig = t}
             S == {i \in DOMAIN r : Occupies(r[i]) /\ r[i].trig = t}
  <2>1. U \subseteq S /\ S \subseteq DOMAIN r
    BY <1>1, <1>2
  <2>2. Cardinality(U) <= Cardinality(S)
    <3> HIDE DEF U, S
    <3> QED BY <2>1, CountMono
  <2> QED BY <2>2 DEF ActiveForTrigger
<1>4. ASSUME NEW p PROVE ActiveForPipeline(b, p) <= ActiveForPipeline(r, p)
  <2> DEFINE U == {i \in DOMAIN b : Occupies(b[i]) /\ b[i].pipe = p}
             S == {i \in DOMAIN r : Occupies(r[i]) /\ r[i].pipe = p}
  <2>1. U \subseteq S /\ S \subseteq DOMAIN r
    BY <1>1, <1>2
  <2>2. Cardinality(U) <= Cardinality(S)
    <3> HIDE DEF U, S
    <3> QED BY <2>1, CountMono
  <2> QED BY <2>2 DEF ActiveForPipeline
<1>5. \A t, p : QueuedOn(r, t, p) \subseteq QueuedOn(b, t, p)
  BY <1>1, <1>2 DEF QueuedOn, QueuedForTrigger
<1>6. \A p \in Pipelines : PipelineHasRoom(r, p) => PipelineHasRoom(b, p)
  BY <1>4, ActiveNat, LauncherAssumption DEF PipelineHasRoom
<1>7. ASSUME NEW p, NEW t \in Candidates(r, p) PROVE t \in Candidates(b, p)
  <2>1. AdmissionCapacity(t) \in Nat /\ t \in Triggers
    BY <1>7, LauncherAssumption DEF Candidates, AdmissionCapacity
  <2> QED BY <1>3, <1>5, <1>7, <2>1, ActiveNat DEF Candidates
<1> QED BY <1>3, <1>4, <1>5, <1>6, <1>7 DEF Stuck

\* The last admission of a trigger to a pipeline.
LEMMA LastFacts ==
  ASSUME NEW c \in Nat, NEW r \in Table(c), NEW t, NEW p
  PROVE  /\ LastAdmitted(r, t, p) \in Nat
         /\ \A i \in DOMAIN r : r[i].trig = t /\ r[i].pipe = p => r[i].at <= LastAdmitted(r, t, p)
         /\ \/ LastAdmitted(r, t, p) = 0
            \/ \E i \in DOMAIN r : r[i].trig = t /\ r[i].pipe = p /\ r[i].at = LastAdmitted(r, t, p)
<1> DEFINE own == {i \in DOMAIN r : r[i].trig = t /\ r[i].pipe = p}
           S == {0} \cup {r[i].at : i \in own}
<1>1. LastAdmitted(r, t, p) = Max(S)
  BY DEF LastAdmitted
<1>2. S \in SUBSET Nat /\ S # {} /\ \A x \in S : x <= c
  BY TableFacts
<1>3. Max(S) \in S /\ \A x \in S : x <= Max(S)
  <2> HIDE DEF S
  <2> QED BY <1>2, MaxOf
<1>4. \A i \in own : r[i].at \in S
  OBVIOUS
<1>5. Max(S) = 0 \/ \E i \in own : r[i].at = Max(S)
  <2>1. \A x \in S : x = 0 \/ \E i \in own : r[i].at = x
    OBVIOUS
  <2> HIDE DEF S
  <2> QED BY <1>3, <2>1
<1> HIDE DEF S
<1> QED BY <1>1, <1>2, <1>3, <1>4, <1>5

LEMMA LastMono ==
  ASSUME NEW c \in Nat, NEW b \in Table(c), NEW r \in Table(c), Served(b, r, c), NEW t, NEW p
  PROVE  LastAdmitted(b, t, p) <= LastAdmitted(r, t, p)
<1>1. LastAdmitted(b, t, p) \in Nat /\ LastAdmitted(r, t, p) \in Nat
  BY LastFacts
<1>2. CASE LastAdmitted(b, t, p) = 0
  BY <1>1, <1>2
<1>3. CASE LastAdmitted(b, t, p) # 0
  <2>1. PICK i \in DOMAIN b : b[i].trig = t /\ b[i].pipe = p /\ b[i].at = LastAdmitted(b, t, p)
    BY <1>3, LastFacts
  <2>2. DOMAIN r = DOMAIN b
    BY TableFacts DEF Served
  <2>3. b[i].at \in Nat /\ (b[i].st = "queued" => b[i].at = 0) /\ r[i].at \in Nat
    BY <2>2, TableFacts
  <2>4. r[i].trig = t /\ r[i].pipe = p /\ b[i].at <= r[i].at
    BY <2>1, <2>3 DEF Served, Took
  <2>5. r[i].at <= LastAdmitted(r, t, p)
    BY <2>2, <2>4, LastFacts
  <2> QED BY <1>1, <2>1, <2>3, <2>4, <2>5
<1> QED BY <1>2, <1>3

-----------------------------------------------------------------------------
(* One admission.                                                          *)

\* From r to q a drain of p admits, at c, the oldest waiting fire of the
\* trigger it serves next.
Admission(r, q, p, c) ==
  /\ PipelineHasRoom(r, p)
  /\ \E t \in Candidates(r, p) : \E i \in QueuedOn(r, t, p) :
       /\ \A j \in QueuedOn(r, t, p) : i <= j
       /\ \A u \in Candidates(r, p) \ {t} : ServedBefore(r, p, t, u)
       /\ DOMAIN q = DOMAIN r /\ Took(r[i], q[i], c)
       /\ \A j \in DOMAIN r \ {i} : q[j] = r[j]

LEMMA NextQueuedFacts ==
  ASSUME NEW c \in Nat, NEW r \in Table(c), NEW p, NEW t \in Candidates(r, p)
  PROVE  /\ NextQueued(r, t, p) \in QueuedOn(r, t, p) /\ NextQueued(r, t, p) \in Nat
         /\ \A j \in QueuedOn(r, t, p) : NextQueued(r, t, p) <= j
<1>1. QueuedOn(r, t, p) \in SUBSET Nat /\ QueuedOn(r, t, p) # {}
  BY TableFacts DEF QueuedOn, QueuedForTrigger, Candidates
<1>2. \E i \in QueuedOn(r, t, p) : \A j \in QueuedOn(r, t, p) : i <= j
  BY <1>1, LeastOf
<1> QED BY <1>1, <1>2 DEF NextQueued

\* Some candidate comes before all others.
LEMMA SomeIsServed ==
  ASSUME NEW c \in Nat, NEW r \in Table(c), NEW p, Candidates(r, p) # {}
  PROVE  \E t \in Candidates(r, p) : \A u \in Candidates(r, p) \ {t} : ServedBefore(r, p, t, u)
<1> DEFINE C == Candidates(r, p)
           V == {LastAdmitted(r, t, p) : t \in C}
<1>1. \A t \in C : LastAdmitted(r, t, p) \in Nat
  BY LastFacts
<1>2. V \in SUBSET Nat /\ V # {}
  BY <1>1
<1>3. PICK m \in V : \A v \in V : m <= v
  <2> HIDE DEF V
  <2> QED BY <1>2, LeastOf
<1> DEFINE D == {t \in C : LastAdmitted(r, t, p) = m}
           W == {NextQueued(r, t, p) : t \in D}
<1>4. W \in SUBSET Nat /\ W # {}
  BY <1>3, NextQueuedFacts
<1>5. PICK w \in W : \A v \in W : w <= v
  <2> HIDE DEF W
  <2> QED BY <1>4, LeastOf
<1>6. PICK t \in D : w = NextQueued(r, t, p)
  BY <1>5
<1>7. ASSUME NEW u \in C \ {t} PROVE ServedBefore(r, p, t, u)
  <2>1. LastAdmitted(r, t, p) = m /\ m <= LastAdmitted(r, u, p)
    BY <1>3, <1>6
  <2>2. CASE LastAdmitted(r, u, p) = m
    <3>1. w <= NextQueued(r, u, p)
      BY <1>5, <2>2
    <3>2. /\ NextQueued(r, t, p) \in QueuedOn(r, t, p) /\ NextQueued(r, u, p) \in QueuedOn(r, u, p)
          /\ NextQueued(r, t, p) \in Nat /\ NextQueued(r, u, p) \in Nat
      BY <1>6, NextQueuedFacts
    <3>3. NextQueued(r, t, p) # NextQueued(r, u, p)
      BY <3>2 DEF QueuedOn, QueuedForTrigger
    <3> QED BY <1>6, <2>1, <2>2, <3>1, <3>2, <3>3 DEF ServedBefore
  <2>3. CASE LastAdmitted(r, u, p) # m
    <3>1. LastAdmitted(r, u, p) \in Nat /\ LastAdmitted(r, t, p) \in Nat
      BY <1>1, <1>6
    <3> QED BY <2>1, <2>3, <3>1 DEF ServedBefore
  <2> QED BY <2>2, <2>3
<1> QED BY <1>6, <1>7

LEMMA AdmitOne ==
  ASSUME clock \in Nat, NEW r \in Table(now), NEW p \in Pipelines, PipelineHasRoom(r, p),
         Candidates(r, p) # {}
  PROVE  AdmitNext(r, p) \in Table(now) /\ Admission(r, AdmitNext(r, p), p, now)
<1> DEFINE t == CHOOSE t \in Candidates(r, p) :
                  \A u \in Candidates(r, p) \ {t} : ServedBefore(r, p, t, u)
           i == NextQueued(r, t, p)
           q == AdmitNext(r, p)
<1>0. now \in Nat
  BY DEF now
<1>1. t \in Candidates(r, p) /\ \A u \in Candidates(r, p) \ {t} : ServedBefore(r, p, t, u)
  BY <1>0, SomeIsServed
<1>2. q = [r EXCEPT ![i].st = "pending", ![i].at = now]
  BY DEF AdmitNext
<1> HIDE DEF t, q
<1>3. i \in QueuedOn(r, t, p) /\ \A j \in QueuedOn(r, t, p) : i <= j
  BY <1>0, <1>1, NextQueuedFacts
<1>4. i \in DOMAIN r /\ r[i].st = "queued" /\ r[i] \in Row /\ r \in Seq(Row) /\ DOMAIN r = 1..Len(r)
  BY <1>0, <1>3, TableFacts DEF QueuedOn, QueuedForTrigger
<1> HIDE DEF i
<1>5. /\ DOMAIN q = DOMAIN r /\ \A j \in DOMAIN r \ {i} : q[j] = r[j]
      /\ q[i] = [[r[i] EXCEPT !.st = "pending"] EXCEPT !.at = now]
  BY <1>2, <1>4
<1>6. /\ q[i].st = "pending" /\ q[i].at = now /\ q[i].trig = r[i].trig /\ q[i].pipe = r[i].pipe
      /\ q[i] \in Row
  BY <1>0, <1>4, <1>5 DEF Row, RowStatus
<1>7. Took(r[i], q[i], now)
  BY <1>4, <1>6 DEF Took
<1>8. Admission(r, q, p, now)
  BY <1>1, <1>3, <1>5, <1>7 DEF Admission
<1>9. q \in Table(now)
  <2>1. \A j \in DOMAIN q : q[j] \in Row /\ q[j].at <= now
                            /\ (q[j].st = "queued" => q[j].trig # NoTrigger /\ q[j].at = 0)
    <3>1. ASSUME NEW j \in DOMAIN r
          PROVE  r[j] \in Row /\ r[j].at <= now /\ (r[j].st = "queued" => r[j].trig # NoTrigger /\ r[j].at = 0)
      BY <1>0, TableFacts, LauncherAssumption
    <3>2. q[i] \in Row /\ q[i].at <= now /\ q[i].st # "queued"
      BY <1>0, <1>6
    <3> QED BY <1>5, <3>1, <3>2
  <2>2. q \in Seq(Row)
    <3>1. Len(r) \in Nat /\ DOMAIN q = 1..Len(r) /\ q = [j \in 1..Len(r) |-> q[j]]
      BY <1>0, <1>2, <1>4, <1>5, TableFacts
    <3> QED BY <2>1, <3>1
  <2> QED BY <2>1, <2>2 DEF Table
<1> QED BY <1>8, <1>9 DEF q

\* A drain is a sequence of admissions, ending when none is possible.
DrainStep(r, p) ==
  IF PipelineHasRoom(r, p) /\ Candidates(r, p) # {} THEN AdmitNext(r, p) ELSE r

LEMMA DrainUnfolds ==
  ASSUME clock \in Nat, NEW b \in Table(now), NEW p \in Pipelines
  PROVE  \E g \in [0..Len(b) -> Table(now)] :
           /\ g[0] = b /\ DrainPipelineQueue(b, p) = g[Len(b)]
           /\ \A k \in 0..Len(b) : k < Len(b) => g[k + 1] = DrainStep(g[k], p)
<1> DEFINE T == Table(now)
           F == [x \in Nat \X T |-> DrainStep(x[2], p)]
           n == Len(b)
<1>1. now \in Nat /\ n \in Nat /\ b \in T
  BY TableFacts DEF now
<1>2. \A r \in T : DrainStep(r, p) \in T
  BY AdmitOne DEF DrainStep
<1>3. F \in [Nat \X T -> T]
  BY <1>2
<1>4. PICK f \in [0..n -> T] : f[0] = b /\ \A k \in 1..n : f[k] = F[<<k, f[k - 1]>>]
  <2>1. Solvable(F, T, b, n)
    <3> HIDE DEF F, T, n
    <3>1. IsStep(F, T)
      BY <1>3 DEF IsStep
    <3> QED BY <1>1, <3>1, Recursion
  <2> QED BY <2>1 DEF Solvable
<1>5. ASSUME NEW k \in 0..n, k # 0 PROVE f[k] = DrainStep(f[k - 1], p)
  <2>1. k \in Nat /\ k \in 1..n /\ f[k - 1] \in T
    BY <1>1, <1>5
  <2> QED BY <1>4, <2>1
<1>6. f = [k \in 0..n |-> IF k = 0 THEN b ELSE DrainStep(f[k - 1], p)]
  <2> HIDE DEF F, T, n
  <2> QED BY <1>4, <1>5
<1> DEFINE g == CHOOSE g : g = [k \in 0..n |-> IF k = 0 THEN b ELSE DrainStep(g[k - 1], p)]
<1>7. g = [k \in 0..n |-> IF k = 0 THEN b ELSE DrainStep(g[k - 1], p)]
  <2> HIDE DEF T, n
  <2> QED BY <1>6
<1>8. DrainPipelineQueue(b, p) = g[n]
  BY DEF DrainPipelineQueue, DrainStep
<1> HIDE DEF g, n
<1>9. g[0] = b /\ \A k \in 0..n : k < n => g[k + 1] = DrainStep(g[k], p)
  <2>1. ASSUME NEW k \in 0..n, k < n PROVE g[k + 1] = DrainStep(g[k], p)
    <3>1. k + 1 \in 0..n /\ k + 1 # 0 /\ k + 1 - 1 = k
      BY <1>1, <2>1
    <3> QED BY <1>7, <3>1
  <2>2. 0 \in 0..n
    BY <1>1
  <2> QED BY <1>7, <2>1, <2>2
<1>10. \A k \in 0..n : g[k] \in T
  <2> DEFINE S == {k \in 0..n : g[k] \in T}
  <2>1. 0 \in S /\ \A k \in 0..n : k < n /\ k \in S => k + 1 \in S
    BY <1>1, <1>2, <1>9
  <2>2. \A k \in 0..n : k \in S
    <3> HIDE DEF S
    <3> QED BY <1>1, <2>1, Induct
  <2> QED BY <2>2
<1>11. g \in [0..n -> T]
  BY <1>7, <1>10
<1> QED BY <1>8, <1>9, <1>11 DEF n

-----------------------------------------------------------------------------
(* What an admission keeps.                                                *)

\* A fire of a `queue` trigger that waits has none stamped behind it.
Fifo(r) ==
  \A i, j \in DOMAIN r :
    ( /\ i < j /\ r[i].trig = r[j].trig /\ r[i].pipe = r[j].pipe
      /\ r[i].st = "queued" /\ Policy[r[i].trig] = "queue" ) => r[j].at = 0

WithinCaps(r, t, p) ==
  ActiveForPipeline(r, p) <= PipeCap[p] /\ ActiveForTrigger(r, t) <= AdmissionCapacity(t)

NoneOvertaken(b, r, t, p) ==
  \A u \in Triggers \ {t} : u \in Candidates(r, p) => LastAdmitted(b, t, p) <= LastAdmitted(r, u, p)

\* r is b after some admissions at c, each by the rules.
Grown(b, r, c) ==
  /\ Served(b, r, c) /\ (Fifo(b) => Fifo(r))
  /\ \A i \in DOMAIN b : r[i] # b[i] =>
       WithinCaps(r, r[i].trig, r[i].pipe) /\ NoneOvertaken(b, r, r[i].trig, r[i].pipe)

LEMMA ServedRefl == ASSUME NEW b, NEW c PROVE Served(b, b, c) /\ Grown(b, b, c)
BY DEF Served, Grown

LEMMA ServedTrans ==
  ASSUME NEW c \in Nat, NEW b \in Table(c), NEW r \in Table(c), NEW q \in Table(c),
         Served(b, r, c), Served(r, q, c)
  PROVE  Served(b, q, c)
<1>1. DOMAIN r = DOMAIN b /\ DOMAIN q = DOMAIN r
  BY TableFacts DEF Served
<1> QED BY <1>1 DEF Served, Took

LEMMA AdmissionServes ==
  ASSUME NEW c \in Nat, NEW r \in Table(c), NEW q \in Table(c), NEW p, Admission(r, q, p, c)
  PROVE  Served(r, q, c)
<1>1. DOMAIN q = DOMAIN r
  BY DEF Admission
<1>2. Len(q) = Len(r)
  BY <1>1, TableFacts
<1> QED BY <1>1, <1>2 DEF Admission, Served

\* An admission fills one slot of its pipeline and one of its trigger.
LEMMA AdmissionCounts ==
  ASSUME NEW c \in Nat, NEW r \in Table(c), NEW q \in Table(c),
         NEW i \in DOMAIN r, DOMAIN q = DOMAIN r, Took(r[i], q[i], c),
         \A j \in DOMAIN r \ {i} : q[j] = r[j]
  PROVE  /\ \A p : ActiveForPipeline(q, p) =
              IF p = r[i].pipe THEN ActiveForPipeline(r, p) + 1 ELSE ActiveForPipeline(r, p)
         /\ \A t : ActiveForTrigger(q, t) =
              IF t = r[i].trig THEN ActiveForTrigger(r, t) + 1 ELSE ActiveForTrigger(r, t)
<1>0. Occupies(q[i]) /\ ~Occupies(r[i])
  BY DEF Took, Occupies
<1>1. ASSUME NEW p
      PROVE  ActiveForPipeline(q, p) =
               IF p = r[i].pipe THEN ActiveForPipeline(r, p) + 1 ELSE ActiveForPipeline(r, p)
  <2> DEFINE U == {j \in DOMAIN r : Occupies(r[j]) /\ r[j].pipe = p}
             S == {j \in DOMAIN q : Occupies(q[j]) /\ q[j].pipe = p}
  <2>1. ActiveForPipeline(q, p) = Cardinality(S) /\ ActiveForPipeline(r, p) = Cardinality(U)
    BY DEF ActiveForPipeline
  <2>2. i \notin U /\ U \in SUBSET DOMAIN r
    BY <1>0
  <2>3. S = IF p = r[i].pipe THEN U \cup {i} ELSE U
    BY <1>0 DEF Took
  <2> HIDE DEF U, S
  <2>4. IsFiniteSet(U)
    BY <2>2, CountFacts
  <2>5. Cardinality(U \cup {i}) = Cardinality(U) + 1
    BY <2>2, <2>4, FS_AddElement
  <2> QED BY <2>1, <2>3, <2>5
<1>2. ASSUME NEW t
      PROVE  ActiveForTrigger(q, t) =
               IF t = r[i].trig THEN ActiveForTrigger(r, t) + 1 ELSE ActiveForTrigger(r, t)
  <2> DEFINE U == {j \in DOMAIN r : Occupies(r[j]) /\ r[j].trig = t}
             S == {j \in DOMAIN q : Occupies(q[j]) /\ q[j].trig = t}
  <2>1. ActiveForTrigger(q, t) = Cardinality(S) /\ ActiveForTrigger(r, t) = Cardinality(U)
    BY DEF ActiveForTrigger
  <2>2. i \notin U /\ U \in SUBSET DOMAIN r
    BY <1>0
  <2>3. S = IF t = r[i].trig THEN U \cup {i} ELSE U
    BY <1>0 DEF Took
  <2> HIDE DEF U, S
  <2>4. IsFiniteSet(U)
    BY <2>2, CountFacts
  <2>5. Cardinality(U \cup {i}) = Cardinality(U) + 1
    BY <2>2, <2>4, FS_AddElement
  <2> QED BY <2>1, <2>3, <2>5
<1> QED BY <1>1, <1>2

LEMMA AdmissionGrows ==
  ASSUME NEW c \in Nat, NEW b \in Table(c), NEW r \in Table(c), NEW q \in Table(c),
         NEW p \in Pipelines, Grown(b, r, c), Admission(r, q, p, c)
  PROVE  Grown(b, q, c)
<1>1. PICK t \in Candidates(r, p) : \E i \in QueuedOn(r, t, p) :
        /\ \A j \in QueuedOn(r, t, p) : i <= j
        /\ \A u \in Candidates(r, p) \ {t} : ServedBefore(r, p, t, u)
        /\ DOMAIN q = DOMAIN r /\ Took(r[i], q[i], c)
        /\ \A j \in DOMAIN r \ {i} : q[j] = r[j]
  BY DEF Admission
<1>2. PICK i \in QueuedOn(r, t, p) :
        /\ \A j \in QueuedOn(r, t, p) : i <= j
        /\ \A u \in Candidates(r, p) \ {t} : ServedBefore(r, p, t, u)
        /\ DOMAIN q = DOMAIN r /\ Took(r[i], q[i], c)
        /\ \A j \in DOMAIN r \ {i} : q[j] = r[j]
  BY <1>1
<1>3. /\ i \in DOMAIN r /\ r[i].st = "queued" /\ r[i].trig = t /\ r[i].pipe = p /\ t \in Triggers
      /\ q[i].trig = t /\ q[i].pipe = p
  BY <1>2 DEF QueuedOn, QueuedForTrigger, Candidates, Took
<1>4. Served(b, r, c) /\ Served(r, q, c) /\ Served(b, q, c) /\ DOMAIN b = DOMAIN r
  BY AdmissionServes, ServedTrans, TableFacts DEF Grown, Served
<1>5. Fifo(r) => Fifo(q)
  <2> SUFFICES ASSUME Fifo(r), NEW j \in DOMAIN q, NEW k \in DOMAIN q, j < k,
                      q[j].trig = q[k].trig, q[j].pipe = q[k].pipe, q[j].st = "queued",
                      Policy[q[j].trig] = "queue"
               PROVE  q[k].at = 0
    BY DEF Fifo
  <2>1. j # i /\ q[j] = r[j]
    BY <1>2 DEF Took
  <2>2. CASE k # i
    <3>1. q[k] = r[k]
      BY <1>2, <2>2
    <3> QED BY <1>2, <2>1, <3>1 DEF Fifo
  <2>3. CASE k = i
    <3>1. j \in QueuedOn(r, t, p)
      BY <1>2, <1>3, <2>1, <2>3 DEF QueuedOn, QueuedForTrigger
    <3>2. i <= j /\ i \in Nat /\ j \in Nat
      BY <1>2, <1>3, <3>1, TableFacts
    <3> QED BY <2>3, <3>2
  <2> QED BY <2>2, <2>3
<1>6. /\ ActiveForPipeline(r, p) < PipeCap[p] /\ ActiveForTrigger(r, t) < AdmissionCapacity(t)
      /\ PipeCap[p] \in Nat /\ AdmissionCapacity(t) \in Nat
  BY <1>3, LauncherAssumption DEF Admission, PipelineHasRoom, Candidates, AdmissionCapacity
<1>7. /\ \A p1 : ActiveForPipeline(q, p1) =
           IF p1 = p THEN ActiveForPipeline(r, p1) + 1 ELSE ActiveForPipeline(r, p1)
      /\ \A t1 : ActiveForTrigger(q, t1) =
           IF t1 = t THEN ActiveForTrigger(r, t1) + 1 ELSE ActiveForTrigger(r, t1)
  BY <1>2, <1>3, AdmissionCounts
<1>8. WithinCaps(q, t, p)
  BY <1>6, <1>7, ActiveNat DEF WithinCaps
<1>9. ASSUME NEW p1, NEW t1, WithinCaps(r, t1, p1) PROVE WithinCaps(q, t1, p1)
  <2>1. ActiveForPipeline(q, p1) <= PipeCap[p1]
    BY <1>7, <1>8, <1>9 DEF WithinCaps
  <2>2. ActiveForTrigger(q, t1) <= AdmissionCapacity(t1)
    BY <1>7, <1>8, <1>9 DEF WithinCaps
  <2> QED BY <2>1, <2>2 DEF WithinCaps
<1>10. NoneOvertaken(b, q, t, p)
  <2> SUFFICES ASSUME NEW u \in Triggers \ {t}, u \in Candidates(q, p)
               PROVE  LastAdmitted(b, t, p) <= LastAdmitted(q, u, p)
    BY DEF NoneOvertaken
  <2>1. u \in Candidates(r, p) \ {t}
    BY <1>4, ServedMono
  <2>2. LastAdmitted(r, t, p) <= LastAdmitted(r, u, p)
    <3>1. LastAdmitted(r, t, p) \in Nat /\ LastAdmitted(r, u, p) \in Nat
      BY LastFacts
    <3> QED BY <1>2, <2>1, <3>1 DEF ServedBefore
  <2>3. /\ LastAdmitted(b, t, p) <= LastAdmitted(r, t, p)
        /\ LastAdmitted(r, u, p) <= LastAdmitted(q, u, p)
    BY <1>4, LastMono
  <2>4. /\ LastAdmitted(b, t, p) \in Nat /\ LastAdmitted(r, t, p) \in Nat
        /\ LastAdmitted(r, u, p) \in Nat /\ LastAdmitted(q, u, p) \in Nat
    BY LastFacts
  <2> QED BY <2>2, <2>3, <2>4
<1>11. ASSUME NEW t1, NEW p1, NoneOvertaken(b, r, t1, p1) PROVE NoneOvertaken(b, q, t1, p1)
  <2> SUFFICES ASSUME NEW u \in Triggers \ {t1}, u \in Candidates(q, p1)
               PROVE  LastAdmitted(b, t1, p1) <= LastAdmitted(q, u, p1)
    BY DEF NoneOvertaken
  <2>1. u \in Candidates(r, p1)
    BY <1>4, ServedMono
  <2>2. LastAdmitted(b, t1, p1) <= LastAdmitted(r, u, p1)
    BY <1>11, <2>1 DEF NoneOvertaken
  <2>3. LastAdmitted(r, u, p1) <= LastAdmitted(q, u, p1)
    BY <1>4, LastMono
  <2>4. /\ LastAdmitted(b, t1, p1) \in Nat /\ LastAdmitted(r, u, p1) \in Nat
        /\ LastAdmitted(q, u, p1) \in Nat
    BY LastFacts
  <2> QED BY <2>2, <2>3, <2>4
<1>12. ASSUME NEW j \in DOMAIN b, q[j] # b[j]
       PROVE  WithinCaps(q, q[j].trig, q[j].pipe) /\ NoneOvertaken(b, q, q[j].trig, q[j].pipe)
  <2>1. CASE j = i
    BY <1>3, <1>8, <1>10, <2>1
  <2>2. CASE j # i
    <3>1. q[j] = r[j] /\ r[j] # b[j]
      BY <1>2, <1>4, <1>12, <2>2
    <3>2. WithinCaps(r, r[j].trig, r[j].pipe) /\ NoneOvertaken(b, r, r[j].trig, r[j].pipe)
      BY <3>1 DEF Grown
    <3> QED BY <1>9, <1>11, <3>1, <3>2
  <2> QED BY <2>1, <2>2
<1> QED BY <1>4, <1>5, <1>12 DEF Grown

\* A drain of p grows the table and leaves no admissible row on p.
Queue(r) == {i \in DOMAIN r : r[i].st = "queued"}

LEMMA DrainGrows ==
  ASSUME clock \in Nat, NEW b \in Table(now), NEW r \in Table(now), Grown(b, r, now),
         NEW p \in Pipelines
  PROVE  LET q == DrainPipelineQueue(r, p) IN
         q \in Table(now) /\ Grown(b, q, now) /\ Served(r, q, now) /\ Stuck(q, p)
<1> DEFINE n == Len(r)
<1>1. PICK g \in [0..n -> Table(now)] :
        /\ g[0] = r /\ DrainPipelineQueue(r, p) = g[n]
        /\ \A k \in 0..n : k < n => g[k + 1] = DrainStep(g[k], p)
  BY DrainUnfolds
<1>2. now \in Nat /\ n \in Nat /\ DOMAIN r = 1..n
  BY TableFacts DEF now
<1> DEFINE Good(k) == /\ Grown(b, g[k], now) /\ Served(r, g[k], now)
                      /\ Stuck(g[k], p) \/ Cardinality(Queue(g[k])) <= n - k
           S == {k \in 0..n : Good(k)}
<1>3. Good(0)
  <2>1. Cardinality(Queue(r)) <= n
    <3>1. IsFiniteSet(1..n) /\ Cardinality(1..n) = n
      <4> HIDE DEF n
      <4> QED BY <1>2, FS_Interval
    <3>2. Queue(r) \in SUBSET (1..n)
      BY <1>2 DEF Queue
    <3> QED BY <3>1, <3>2, FS_Subset
  <2> QED BY <1>1, <1>2, <2>1, ServedRefl
<1>4. ASSUME NEW k \in 0..n, k < n, Good(k) PROVE Good(k + 1)
  <2>1. g[k] \in Table(now) /\ g[k + 1] \in Table(now) /\ g[k + 1] = DrainStep(g[k], p)
    BY <1>1, <1>2, <1>4
  <2>2. CASE Stuck(g[k], p)
    <3>1. g[k + 1] = g[k]
      BY <2>1, <2>2 DEF DrainStep, Stuck
    <3> QED BY <1>4, <2>2, <3>1
  <2>3. CASE ~Stuck(g[k], p)
    <3>1. Admission(g[k], g[k + 1], p, now)
      BY <2>1, <2>3, AdmitOne DEF DrainStep, Stuck
    <3>2. Grown(b, g[k + 1], now)
      BY <1>2, <1>4, <2>1, <3>1, AdmissionGrows
    <3>3. Served(g[k], g[k + 1], now) /\ Served(r, g[k + 1], now)
      BY <1>2, <1>4, <2>1, <3>1, AdmissionServes, ServedTrans
    <3>4. Cardinality(Queue(g[k + 1])) = Cardinality(Queue(g[k])) - 1
      <4>1. PICK i \in Queue(g[k]) : Queue(g[k + 1]) = Queue(g[k]) \ {i}
        BY <3>1 DEF Admission, Took, Queue, QueuedOn, QueuedForTrigger
      <4>2. IsFiniteSet(Queue(g[k]))
        BY <1>2, <2>1, CountFacts DEF Queue
      <4> QED BY <4>1, <4>2, FS_RemoveElement
    <3>5. Cardinality(Queue(g[k])) \in Nat
      BY <1>2, <2>1, CountFacts DEF Queue
    <3> QED BY <1>2, <1>4, <2>3, <3>2, <3>3, <3>4, <3>5
  <2> QED BY <2>2, <2>3
<1>5. \A k \in 0..n : k \in S
  <2>1. 0 \in S /\ \A k \in 0..n : k < n /\ k \in S => k + 1 \in S
    <3> HIDE DEF Good, n
    <3> QED BY <1>2, <1>3, <1>4
  <2> HIDE DEF S, n
  <2> QED BY <1>2, <2>1, Induct
<1>6. Good(n) /\ g[n] \in Table(now)
  <2> HIDE DEF Good, n
  <2> QED BY <1>2, <1>5
<1>7. Stuck(g[n], p)
  <2> SUFFICES ASSUME ~Stuck(g[n], p) PROVE FALSE
    OBVIOUS
  <2>1. IsFiniteSet(Queue(g[n])) /\ Cardinality(Queue(g[n])) \in Nat
    BY <1>2, <1>6, CountFacts DEF Queue
  <2>2. Queue(g[n]) = {}
    <3>1. Cardinality(Queue(g[n])) = 0
      BY <1>2, <1>6, <2>1
    <3> QED BY <2>1, <3>1, FS_EmptySet
  <2> QED BY <2>2 DEF Stuck, Candidates, QueuedOn, QueuedForTrigger, Queue
<1> QED BY <1>1, <1>6, <1>7

-----------------------------------------------------------------------------
(* Boot: every pipeline with a queued row is drained.                      *)

WaitingOn(r) == {r[i].pipe : i \in Queue(r)}

\* An enumeration without repetition names every one of them.
LEMMA EnumerationIsWhole ==
  ASSUME NEW c \in Nat, NEW b \in Table(c),
         NEW s \in [1..Cardinality(WaitingOn(b)) -> WaitingOn(b)],
         \A x, y \in DOMAIN s : s[x] = s[y] => x = y
  PROVE  /\ Cardinality(WaitingOn(b)) \in Nat
         /\ \A p \in WaitingOn(b) : \E k \in 1..Cardinality(WaitingOn(b)) : s[k] = p
<1> DEFINE W == WaitingOn(b)
           f == [i \in Queue(b) |-> b[i].pipe]
<1>1. f \in Surjection(Queue(b), W)
  BY DEF Surjection, WaitingOn
<1>2. IsFiniteSet(Queue(b))
  BY CountFacts DEF Queue
<1>3. IsFiniteSet(W)
  <2> HIDE DEF f, W
  <2> QED BY <1>1, <1>2, FS_Surjection
<1> HIDE DEF W
<1>4. Cardinality(W) \in Nat
  BY <1>3, FS_CardinalityType
<1>5. s \in Injection(1..Cardinality(W), W)
  BY DEF Injection, IsInjective, W
<1>6. IsFiniteSet(1..Cardinality(W)) /\ Cardinality(1..Cardinality(W)) = Cardinality(W)
  BY <1>4, FS_Interval
<1>7. s \in Surjection(1..Cardinality(W), W)
  BY <1>3, <1>5, <1>6, FS_Injection
<1> QED BY <1>4, <1>7 DEF Surjection, W

\* Boot's recovery grows the table and leaves no admissible row anywhere.
LEMMA RecoverGrows ==
  ASSUME clock \in Nat, NEW b \in Table(now), NEW q \in RecoverQueued(b)
  PROVE  q \in Table(now) /\ Grown(b, q, now) /\ \A p \in Pipelines : Stuck(q, p)
<1> DEFINE W == WaitingOn(b)
           m == Cardinality(W)
           T == Table(now)
           all(s) == LET step[k \in 0..Len(s)] ==
                           IF k = 0 THEN b ELSE DrainPipelineQueue(step[k - 1], s[k])
                     IN step[Len(s)]
<1>1. PICK s \in [1..m -> W] : /\ \A x, y \in DOMAIN s : s[x] = s[y] => x = y
                               /\ q = all(s)
  BY DEF RecoverQueued, WaitingOn, Queue
<1>2. now \in Nat
  BY DEF now
<1>3. m \in Nat /\ \A p \in W : \E k \in 1..m : s[k] = p
  BY <1>1, <1>2, EnumerationIsWhole
<1>4. W \subseteq Pipelines
  BY <1>2, TableFacts DEF WaitingOn, Queue
<1> HIDE DEF W, m
<1>5. Len(s) = m
  BY <1>3
<1> DEFINE g == CHOOSE g : g = [k \in 0..m |-> IF k = 0 THEN b ELSE DrainPipelineQueue(g[k - 1], s[k])]
<1>6. q = g[m]
  BY <1>1, <1>5
<1> HIDE DEF all
<1> DEFINE F == [x \in Nat \X T |-> IF x[1] \in 1..m THEN DrainPipelineQueue(x[2], s[x[1]]) ELSE x[2]]
<1>7. ASSUME NEW r \in T, NEW p \in Pipelines PROVE DrainPipelineQueue(r, p) \in T
  BY ServedRefl, DrainGrows
<1>8. F \in [Nat \X T -> T]
  <2>1. ASSUME NEW x \in Nat \X T
        PROVE (IF x[1] \in 1..m THEN DrainPipelineQueue(x[2], s[x[1]]) ELSE x[2]) \in T
    <3>1. x[2] \in T
      OBVIOUS
    <3>2. CASE x[1] \in 1..m
      <4>1. s[x[1]] \in Pipelines
        BY <1>4, <3>2
      <4> QED BY <1>7, <3>1, <3>2, <4>1
    <3> HIDE DEF T
    <3> QED BY <3>1, <3>2
  <2> HIDE DEF T
  <2> QED BY <2>1
<1>9. PICK f \in [0..m -> T] : f[0] = b /\ \A k \in 1..m : f[k] = F[<<k, f[k - 1]>>]
  <2>1. Solvable(F, T, b, m)
    <3>0. b \in T
      OBVIOUS
    <3> HIDE DEF F, T
    <3>1. IsStep(F, T)
      BY <1>8 DEF IsStep
    <3> QED BY <1>3, <3>0, <3>1, Recursion
  <2> QED BY <2>1 DEF Solvable
<1>10. ASSUME NEW k \in 1..m PROVE f[k] = DrainPipelineQueue(f[k - 1], s[k])
  <2>1. k \in Nat /\ k - 1 \in 0..m
    BY <1>3
  <2>2. f[k - 1] \in T
    BY <2>1
  <2>3. F[<<k, f[k - 1]>>] = DrainPipelineQueue(f[k - 1], s[k])
    <3> HIDE DEF T
    <3> QED BY <2>1, <2>2
  <2> QED BY <1>9, <2>3
<1> HIDE DEF F, T
<1>11. f = [k \in 0..m |-> IF k = 0 THEN b ELSE DrainPipelineQueue(f[k - 1], s[k])]
  <2>1. \A k \in 0..m : k # 0 => k \in 1..m
    BY <1>3
  <2> QED BY <1>9, <1>10, <2>1
<1>12. g = [k \in 0..m |-> IF k = 0 THEN b ELSE DrainPipelineQueue(g[k - 1], s[k])]
  BY <1>11
<1> HIDE DEF g
<1>13. g[0] = b /\ \A k \in 0..m : k < m => g[k + 1] = DrainPipelineQueue(g[k], s[k + 1])
  <2>1. ASSUME NEW k \in 0..m, k < m PROVE g[k + 1] = DrainPipelineQueue(g[k], s[k + 1])
    <3>1. k + 1 \in 0..m /\ k + 1 # 0 /\ k + 1 - 1 = k
      BY <1>3, <2>1
    <3> QED BY <1>12, <3>1
  <2>2. 0 \in 0..m
    BY <1>3
  <2> QED BY <1>12, <2>1, <2>2
<1> DEFINE Good(k) == g[k] \in T /\ Grown(b, g[k], now) /\ \A j \in 1..k : Stuck(g[k], s[j])
           S == {k \in 0..m : Good(k)}
<1>14. Good(0)
  BY <1>13, ServedRefl DEF T
<1>15. ASSUME NEW k \in 0..m, k < m, Good(k) PROVE Good(k + 1)
  <2>1. k + 1 \in 1..m /\ s[k + 1] \in Pipelines
    BY <1>3, <1>4, <1>15
  <2>2. g[k + 1] = DrainPipelineQueue(g[k], s[k + 1])
    BY <1>13, <1>15
  <2>3. /\ g[k + 1] \in T /\ Grown(b, g[k + 1], now) /\ Served(g[k], g[k + 1], now)
        /\ Stuck(g[k + 1], s[k + 1])
    BY <1>15, <2>1, <2>2, DrainGrows DEF T
  <2>4. ASSUME NEW j \in 1..k PROVE Stuck(g[k + 1], s[j])
    <3>1. s[j] \in Pipelines /\ Stuck(g[k], s[j])
      BY <1>3, <1>4, <1>15
    <3> QED BY <1>2, <1>15, <2>3, <3>1, ServedMono DEF T
  <2>5. \A j \in 1..(k + 1) : j \in 1..k \/ j = k + 1
    BY <1>3
  <2> QED BY <2>3, <2>4, <2>5
<1>16. \A k \in 0..m : k \in S
  <2>1. 0 \in S /\ \A k \in 0..m : k < m /\ k \in S => k + 1 \in S
    <3> HIDE DEF Good
    <3> QED BY <1>3, <1>14, <1>15
  <2> HIDE DEF S
  <2> QED BY <1>3, <2>1, Induct
<1>17. Good(m)
  <2> HIDE DEF Good
  <2> QED BY <1>3, <1>16
<1>18. ASSUME NEW p \in Pipelines PROVE Stuck(q, p)
  <2>1. CASE p \in W
    BY <1>3, <1>6, <1>17, <2>1
  <2>2. CASE p \notin W
    <3>1. Stuck(b, p)
      BY <2>2 DEF Stuck, Candidates, QueuedOn, QueuedForTrigger, WaitingOn, Queue, W
    <3>2. Served(b, q, now) /\ q \in Table(now)
      BY <1>6, <1>17 DEF Grown, T
    <3> QED BY <1>2, <3>1, <3>2, ServedMono
  <2> QED BY <2>1, <2>2
<1> QED BY <1>6, <1>17, <1>18 DEF T

-----------------------------------------------------------------------------
(* The other ways a table changes.                                         *)

\* A row that moves on, and not back to the queue.
MovesTo(r, q, i, st) == q = [r EXCEPT ![i].st = st]

LEMMA Retagged ==
  ASSUME NEW c \in Nat, NEW r \in Table(c), NEW i \in DOMAIN r,
         NEW st \in {"running", "held", "waiting", "ended"}, NEW q, MovesTo(r, q, i, st)
  PROVE  /\ q \in Table(c) /\ DOMAIN q = DOMAIN r /\ \A j \in DOMAIN r \ {i} : q[j] = r[j]
         /\ q[i].st = st /\ q[i].trig = r[i].trig /\ q[i].pipe = r[i].pipe /\ q[i].at = r[i].at
         /\ Fifo(r) => Fifo(q)
<1>1. /\ i \in DOMAIN r /\ r[i] \in Row /\ r \in Seq(Row) /\ DOMAIN r = 1..Len(r) /\ Len(r) \in Nat
      /\ r[i].at <= c /\ \A j \in DOMAIN r : j \in Nat
  BY TableFacts
<1>2. DOMAIN q = DOMAIN r /\ (\A j \in DOMAIN r \ {i} : q[j] = r[j]) /\ q[i] = [r[i] EXCEPT !.st = st]
  BY <1>1 DEF MovesTo
<1>3. /\ q[i].st = st /\ q[i].trig = r[i].trig /\ q[i].pipe = r[i].pipe /\ q[i].at = r[i].at
      /\ q[i] \in Row
  BY <1>1, <1>2 DEF Row, RowStatus
<1>4. ASSUME NEW j \in DOMAIN q
      PROVE  q[j] \in Row /\ q[j].at <= c /\ (q[j].st = "queued" => q[j].trig # NoTrigger /\ q[j].at = 0)
  <2>1. r[j] \in Row /\ r[j].at <= c /\ (r[j].st = "queued" => r[j].trig # NoTrigger /\ r[j].at = 0)
    BY <1>2, TableFacts, LauncherAssumption
  <2>2. CASE j = i
    BY <1>1, <1>3, <2>2
  <2>3. CASE j # i
    BY <1>2, <2>1, <2>3
  <2> QED BY <2>2, <2>3
<1>5. q \in Seq(Row)
  <2>1. q = [j \in 1..Len(r) |-> q[j]]
    BY <1>1, <1>2 DEF MovesTo
  <2> QED BY <1>1, <1>2, <1>4, <2>1
<1>6. q \in Table(c)
  BY <1>4, <1>5 DEF Table
<1>7. Fifo(r) => Fifo(q)
  <2> SUFFICES ASSUME Fifo(r), NEW j \in DOMAIN q, NEW k \in DOMAIN q, j < k,
                      q[j].trig = q[k].trig, q[j].pipe = q[k].pipe, q[j].st = "queued",
                      Policy[q[j].trig] = "queue"
               PROVE  q[k].at = 0
    BY DEF Fifo
  <2>1. j # i /\ q[j] = r[j]
    BY <1>2, <1>3
  <2>2. q[k].trig = r[k].trig /\ q[k].pipe = r[k].pipe /\ q[k].at = r[k].at
    BY <1>2, <1>3
  <2> QED BY <1>2, <2>1, <2>2 DEF Fifo
<1> QED BY <1>2, <1>3, <1>6, <1>7

\* A new row.
Adds(r, q, x) == q = Append(r, x)

Fits(x, c) == x \in Row /\ x.at <= c /\ (x.st = "queued" => x.trig # NoTrigger /\ x.at = 0)

Added(r, q, x, c, n) ==
  /\ q \in Table(c) /\ n \notin DOMAIN r /\ DOMAIN q = DOMAIN r \cup {n}
  /\ q[n] = x /\ \A j \in DOMAIN r : q[j] = r[j] /\ j < n

LEMMA Appended ==
  ASSUME NEW c \in Nat, NEW r \in Table(c), NEW x, Fits(x, c), NEW q, Adds(r, q, x)
  PROVE  Added(r, q, x, c, Len(r) + 1)
<1>1. r \in Seq(Row) /\ Len(r) \in Nat /\ DOMAIN r = 1..Len(r) /\ x \in Row
  BY TableFacts DEF Fits
<1>2. q \in Seq(Row) /\ DOMAIN q = 1..(Len(r) + 1) /\ q[Len(r) + 1] = x /\ \A j \in DOMAIN r : q[j] = r[j]
  BY <1>1 DEF Adds
<1>3. Len(r) + 1 \notin DOMAIN r /\ DOMAIN q = DOMAIN r \cup {Len(r) + 1} /\ \A j \in DOMAIN r : j < Len(r) + 1
  BY <1>1, <1>2
<1>4. q \in Table(c)
  <2>1. ASSUME NEW j \in DOMAIN q
        PROVE  q[j].at <= c /\ (q[j].st = "queued" => q[j].trig # NoTrigger /\ q[j].at = 0)
    <3>1. CASE j = Len(r) + 1
      BY <1>2, <3>1 DEF Fits
    <3>2. CASE j \in DOMAIN r
      BY <1>2, <3>2, TableFacts, LauncherAssumption
    <3> QED BY <1>3, <3>1, <3>2
  <2> QED BY <1>2, <2>1 DEF Table
<1> QED BY <1>2, <1>3, <1>4 DEF Added

LEMMA AppendedCounts ==
  ASSUME NEW c \in Nat, NEW r \in Table(c), NEW x, Fits(x, c), NEW q, Adds(r, q, x)
  PROVE  /\ \A p : ActiveForPipeline(q, p) =
              IF Occupies(x) /\ x.pipe = p THEN ActiveForPipeline(r, p) + 1 ELSE ActiveForPipeline(r, p)
         /\ \A t : ActiveForTrigger(q, t) =
              IF Occupies(x) /\ x.trig = t THEN ActiveForTrigger(r, t) + 1 ELSE ActiveForTrigger(r, t)
<1> DEFINE i == Len(r) + 1
<1>0. /\ i \notin DOMAIN r /\ DOMAIN q = DOMAIN r \cup {i}
      /\ q[i] = x /\ \A j \in DOMAIN r : q[j] = r[j]
  <2>1. Added(r, q, x, c, i)
    BY Appended
  <2> QED BY <2>1 DEF Added
<1> HIDE DEF i
<1>1. ASSUME NEW p
      PROVE  ActiveForPipeline(q, p) =
               IF Occupies(x) /\ x.pipe = p THEN ActiveForPipeline(r, p) + 1 ELSE ActiveForPipeline(r, p)
  <2> DEFINE U == {j \in DOMAIN r : Occupies(r[j]) /\ r[j].pipe = p}
             S == {j \in DOMAIN q : Occupies(q[j]) /\ q[j].pipe = p}
  <2>1. ActiveForPipeline(q, p) = Cardinality(S) /\ ActiveForPipeline(r, p) = Cardinality(U)
    BY DEF ActiveForPipeline
  <2>2. i \notin U /\ U \in SUBSET DOMAIN r
    BY <1>0
  <2>3. S = IF Occupies(x) /\ x.pipe = p THEN U \cup {i} ELSE U
    BY <1>0
  <2> HIDE DEF U, S
  <2>4. IsFiniteSet(U)
    BY <2>2, CountFacts
  <2>5. Cardinality(U \cup {i}) = Cardinality(U) + 1
    BY <2>2, <2>4, FS_AddElement
  <2> QED BY <2>1, <2>3, <2>5
<1>2. ASSUME NEW t
      PROVE  ActiveForTrigger(q, t) =
               IF Occupies(x) /\ x.trig = t THEN ActiveForTrigger(r, t) + 1 ELSE ActiveForTrigger(r, t)
  <2> DEFINE U == {j \in DOMAIN r : Occupies(r[j]) /\ r[j].trig = t}
             S == {j \in DOMAIN q : Occupies(q[j]) /\ q[j].trig = t}
  <2>1. ActiveForTrigger(q, t) = Cardinality(S) /\ ActiveForTrigger(r, t) = Cardinality(U)
    BY DEF ActiveForTrigger
  <2>2. i \notin U /\ U \in SUBSET DOMAIN r
    BY <1>0
  <2>3. S = IF Occupies(x) /\ x.trig = t THEN U \cup {i} ELSE U
    BY <1>0
  <2> HIDE DEF U, S
  <2>4. IsFiniteSet(U)
    BY <2>2, CountFacts
  <2>5. Cardinality(U \cup {i}) = Cardinality(U) + 1
    BY <2>2, <2>4, FS_AddElement
  <2> QED BY <2>1, <2>3, <2>5
<1> QED BY <1>1, <1>2

LEMMA TableGrows ==
  ASSUME NEW c \in Nat, NEW d \in Nat, c <= d
  PROVE  Table(c) \subseteq Table(d)
<1> SUFFICES ASSUME NEW r \in Table(c) PROVE r \in Table(d)
  OBVIOUS
<1>1. \A i \in DOMAIN r : r[i].at \in Nat /\ r[i].at <= d
  BY TableFacts
<1> QED BY <1>1 DEF Table

-----------------------------------------------------------------------------
(* What a step does to the table and the clock.                            *)

RowInv == TypeOK /\ runs \in Table(clock)

Kept == runs' = runs /\ clock' = clock

Recoloured ==
  /\ clock' = clock
  /\ \E i \in DOMAIN runs : \E st \in {"running", "held", "waiting", "ended"} :
       MovesTo(runs, runs', i, st)

\* Rows admitted by drains.
Drained ==
  /\ runs' \in Table(now) /\ Grown(runs, runs', now)
  /\ \E live \in SUBSET drives : DriveAdmitted(live)

\* The row an Insert adds.
NewRow(trig, p, st, at) == [trig |-> trig, pipe |-> p, st |-> st, at |-> at]

\* A fire or the editor adds a row, under the gates it passes.
Launched(t) ==
  /\ ~Refused(t) /\ ~Overflows(t) /\ Adds(runs, runs', NewRow(t, bound[t], "pending", now))

Enqueued(t) ==
  /\ Overflows(t) /\ Adds(runs, runs', NewRow(t, bound[t], "queued", 0))

Edited(p) ==
  /\ PipelineHasRoom(runs, p) /\ Adds(runs, runs', NewRow(NoTrigger, p, "pending", now))

Inserted ==
  /\ (\E t \in Triggers : Launched(t) \/ Enqueued(t)) \/ \E p \in Pipelines : Edited(p)
  /\ DriveAdmitted(drives)

LEMMA RowTypes ==
  ASSUME RowInv
  PROVE  /\ clock \in Nat /\ now \in Nat /\ now = clock + 1
         /\ runs \in Table(clock) /\ runs \in Table(now)
<1>1. clock \in Nat /\ now \in Nat /\ now = clock + 1 /\ clock <= now
  BY DEF RowInv, TypeOK, now
<1> QED BY <1>1, TableGrows DEF RowInv

\* The rows a drain admits are stamped with its millisecond.
LEMMA DrainedAdmits ==
  ASSUME RowInv, Drained
  PROVE  /\ DOMAIN runs' = DOMAIN runs
         /\ \A i \in DOMAIN runs : \/ i \notin Admitted /\ runs'[i] = runs[i]
                                   \/ i \in Admitted /\ Took(runs[i], runs'[i], now)
<1>1. DOMAIN runs' = DOMAIN runs
  BY RowTypes, TableFacts DEF Drained, Grown, Served
<1> QED BY <1>1 DEF Drained, Grown, Served, Took, Admitted

LEMMA InsertedRow ==
  ASSUME RowInv, Inserted
  PROVE  \E x : /\ Fits(x, now) /\ Adds(runs, runs', x)
                /\ \/ \E t \in Triggers : Launched(t) /\ x = NewRow(t, bound[t], "pending", now)
                   \/ \E t \in Triggers : Enqueued(t) /\ x = NewRow(t, bound[t], "queued", 0)
                   \/ \E p \in Pipelines : Edited(p) /\ x = NewRow(NoTrigger, p, "pending", now)
<1>1. bound \in [Triggers -> Pipelines] /\ now \in Nat
  BY RowTypes DEF RowInv, TypeOK
<1>2. ASSUME NEW t \in Triggers
      PROVE  Fits(NewRow(t, bound[t], "pending", now), now) /\ Fits(NewRow(t, bound[t], "queued", 0), now)
  BY <1>1, LauncherAssumption DEF Fits, NewRow, Row, RowStatus
<1>3. \A p \in Pipelines : Fits(NewRow(NoTrigger, p, "pending", now), now)
  BY <1>1 DEF Fits, NewRow, Row, RowStatus
<1>4. ASSUME NEW t \in Triggers, Launched(t) PROVE Adds(runs, runs', NewRow(t, bound[t], "pending", now))
  BY <1>4 DEF Launched
<1>5. ASSUME NEW t \in Triggers, Enqueued(t) PROVE Adds(runs, runs', NewRow(t, bound[t], "queued", 0))
  BY <1>5 DEF Enqueued
<1>6. ASSUME NEW p \in Pipelines, Edited(p) PROVE Adds(runs, runs', NewRow(NoTrigger, p, "pending", now))
  BY <1>6 DEF Edited
<1> QED BY <1>2, <1>3, <1>4, <1>5, <1>6 DEF Inserted

LEMMA RowFields ==
  ASSUME NEW t, NEW p, NEW st, NEW at
  PROVE  LET x == NewRow(t, p, st, at) IN x.trig = t /\ x.pipe = p /\ x.st = st /\ x.at = at
BY DEF NewRow

\* An inserted row is admitted exactly when it is not queued.
LEMMA InsertedAdmits ==
  ASSUME RowInv, NEW x, Fits(x, now), Adds(runs, runs', x)
  PROVE  Admitted = (IF x.st = "pending" THEN {Len(runs) + 1} ELSE {})
<1>1. /\ Len(runs) + 1 \notin DOMAIN runs /\ DOMAIN runs' = DOMAIN runs \cup {Len(runs) + 1}
      /\ runs'[Len(runs) + 1] = x /\ \A j \in DOMAIN runs : runs'[j] = runs[j]
  <2>1. Added(runs, runs', x, now, Len(runs) + 1)
    BY RowTypes, Appended
  <2> QED BY <2>1 DEF Added
<1> QED BY <1>1 DEF Admitted

\* The clock is at the last stamp.
LEMMA ClockMoves ==
  ASSUME RowInv, NEW live, DriveAdmitted(live), runs' \in Table(now),
         \A i \in Admitted : runs'[i].at = now,
         \A i \in DOMAIN runs' : i \in Admitted \/ runs'[i].at <= clock
  PROVE  clock' \in Nat /\ clock <= clock' /\ runs' \in Table(clock')
<1> DEFINE S == {clock} \cup {runs'[i].at : i \in Admitted}
<1>1. clock \in Nat /\ now \in Nat /\ clock <= now
  BY RowTypes
<1>2. clock' = Max(S)
  BY DEF DriveAdmitted
<1>3. S \in SUBSET Nat /\ S # {} /\ \A x \in S : x <= now
  BY <1>1
<1>4. Max(S) \in S /\ \A x \in S : x <= Max(S)
  <2> HIDE DEF S
  <2> QED BY <1>1, <1>3, MaxOf
<1>5. clock \in S /\ \A i \in Admitted : runs'[i].at \in S
  OBVIOUS
<1> HIDE DEF S
<1>6. clock' \in Nat /\ clock <= clock' /\ \A i \in Admitted : runs'[i].at <= clock'
  BY <1>2, <1>3, <1>4, <1>5
<1>7. \A i \in DOMAIN runs' : runs'[i].at \in Nat /\ runs'[i].at <= clock'
  <2>1. \A i \in DOMAIN runs' : runs'[i].at \in Nat
    BY <1>1, TableFacts
  <2> QED BY <1>1, <1>6, <2>1
<1>8. runs' \in Table(clock')
  BY <1>7 DEF Table
<1> QED BY <1>6, <1>8

\* What the theorems say of one step.
GoodRows ==
  /\ clock' \in Nat /\ runs' \in Table(clock') /\ DOMAIN runs \subseteq DOMAIN runs'
  /\ Fifo(runs) => Fifo(runs')
  /\ \A i \in Admitted :
       /\ ActiveForPipeline(runs', runs'[i].pipe) <= PipeCap[runs'[i].pipe]
       /\ runs'[i].trig \in Triggers =>
            ActiveForTrigger(runs', runs'[i].trig) <= AdmissionCapacity(runs'[i].trig)
  /\ \A i \in Admitted \cap DOMAIN runs : NoneOvertaken(runs, runs', runs[i].trig, runs[i].pipe)

LEMMA KeptGood == ASSUME RowInv, Kept PROVE GoodRows
<1>1. Admitted = {}
  BY DEF Admitted, Kept
<1> QED BY <1>1, RowTypes DEF GoodRows, Kept

LEMMA RecolouredGood == ASSUME RowInv, Recoloured PROVE GoodRows
<1>1. PICK i \in DOMAIN runs, st \in {"running", "held", "waiting", "ended"} : MovesTo(runs, runs', i, st)
  BY DEF Recoloured
<1>2. /\ runs' \in Table(clock) /\ DOMAIN runs' = DOMAIN runs
      /\ \A j \in DOMAIN runs \ {i} : runs'[j] = runs[j]
      /\ runs'[i].st = st
      /\ Fifo(runs) => Fifo(runs')
  <2>1. clock \in Nat /\ runs \in Table(clock)
    BY RowTypes
  <2> QED BY <1>1, <2>1, Retagged
<1>3. Admitted = {}
  BY <1>2 DEF Admitted
<1>4. clock' = clock /\ clock \in Nat
  BY RowTypes DEF Recoloured
<1> QED BY <1>2, <1>3, <1>4 DEF GoodRows

LEMMA DrainedGood == ASSUME RowInv, Drained PROVE GoodRows
<1>1. /\ DOMAIN runs' = DOMAIN runs
      /\ \A i \in DOMAIN runs : \/ i \notin Admitted /\ runs'[i] = runs[i]
                                \/ i \in Admitted /\ Took(runs[i], runs'[i], now)
  BY DrainedAdmits
<1>2. Admitted \subseteq DOMAIN runs
  BY <1>1 DEF Admitted
<1>3. clock \in Nat /\ now \in Nat /\ runs \in Table(clock)
  BY RowTypes
<1>4. clock' \in Nat /\ runs' \in Table(clock')
  <2>1. PICK live : DriveAdmitted(live)
    BY DEF Drained
  <2>2. \A i \in Admitted : runs'[i].at = now
    BY <1>1, <1>2 DEF Took
  <2>3. \A i \in DOMAIN runs' : i \in Admitted \/ runs'[i].at <= clock
    BY <1>1, <1>3, TableFacts
  <2>4. runs' \in Table(now)
    BY DEF Drained
  <2> QED BY <2>1, <2>2, <2>3, <2>4, ClockMoves
<1>5. ASSUME NEW i \in Admitted
      PROVE  /\ WithinCaps(runs', runs'[i].trig, runs'[i].pipe)
             /\ NoneOvertaken(runs, runs', runs[i].trig, runs[i].pipe)
  <2>1. i \in DOMAIN runs /\ Took(runs[i], runs'[i], now)
    BY <1>1, <1>2
  <2>2. runs'[i] # runs[i] /\ runs'[i].trig = runs[i].trig /\ runs'[i].pipe = runs[i].pipe
    BY <2>1 DEF Took
  <2> QED BY <2>1, <2>2 DEF Drained, Grown
<1> QED BY <1>1, <1>4, <1>5 DEF GoodRows, Drained, Grown, WithinCaps

\* Both gates of a fire.
LEMMA LaunchedCaps ==
  ASSUME RowInv, NEW t \in Triggers, ~Refused(t), ~Overflows(t)
  PROVE  /\ ActiveForPipeline(runs, bound[t]) + 1 <= PipeCap[bound[t]]
         /\ ActiveForTrigger(runs, t) + 1 <= AdmissionCapacity(t)
<1>1. bound[t] \in Pipelines /\ PipeCap[bound[t]] \in Nat /\ ConcMax[t] \in Nat
  BY LauncherAssumption DEF RowInv, TypeOK
<1>2. ActiveForPipeline(runs, bound[t]) \in Nat /\ ActiveForTrigger(runs, t) \in Nat
  BY RowTypes, ActiveNat
<1>3. Policy[t] \in {"skip_if_running", "parallel", "queue"}
  BY LauncherAssumption
<1> QED BY <1>1, <1>2, <1>3 DEF Refused, Overflows, PipelineHasRoom, AdmissionCapacity

LEMMA InsertedGood == ASSUME RowInv, Inserted PROVE GoodRows
<1> DEFINE n == Len(runs) + 1
<1>1. PICK x : /\ Fits(x, now) /\ Adds(runs, runs', x)
               /\ \/ \E t \in Triggers : Launched(t) /\ x = NewRow(t, bound[t], "pending", now)
                  \/ \E t \in Triggers : Enqueued(t) /\ x = NewRow(t, bound[t], "queued", 0)
                  \/ \E p \in Pipelines : Edited(p) /\ x = NewRow(NoTrigger, p, "pending", now)
  BY InsertedRow
<1>2. clock \in Nat /\ now \in Nat /\ runs \in Table(clock) /\ runs \in Table(now)
  BY RowTypes
<1>3. /\ runs' \in Table(now) /\ n \notin DOMAIN runs /\ DOMAIN runs' = DOMAIN runs \cup {n}
      /\ runs'[n] = x /\ \A j \in DOMAIN runs : runs'[j] = runs[j] /\ j < n
  <2>1. Fits(x, now) /\ Adds(runs, runs', x)
    BY <1>1
  <2>2. Added(runs, runs', x, now, n)
    BY <1>2, <2>1, Appended
  <2> QED BY <2>2 DEF Added
<1>4. Admitted = (IF x.st = "pending" THEN {n} ELSE {})
  BY <1>1, InsertedAdmits
<1> HIDE DEF n
<1>5. (x.st = "pending" /\ x.at = now) \/ (x.st = "queued" /\ x.at = 0)
  BY <1>1, RowFields
<1>6. clock' \in Nat /\ runs' \in Table(clock')
  <2>1. DriveAdmitted(drives)
    BY DEF Inserted
  <2>2. \A i \in Admitted : runs'[i].at = now
    BY <1>3, <1>4, <1>5
  <2>3. \A i \in DOMAIN runs' : i \in Admitted \/ runs'[i].at <= clock
    BY <1>2, <1>3, <1>4, <1>5, TableFacts
  <2> QED BY <1>3, <2>1, <2>2, <2>3, ClockMoves
<1>7. Fifo(runs) => Fifo(runs')
  <2> SUFFICES ASSUME Fifo(runs), NEW j \in DOMAIN runs', NEW k \in DOMAIN runs', j < k,
                      runs'[j].trig = runs'[k].trig, runs'[j].pipe = runs'[k].pipe,
                      runs'[j].st = "queued", Policy[runs'[j].trig] = "queue"
               PROVE  runs'[k].at = 0
    BY DEF Fifo
  <2>0. n \in Nat /\ \A i \in DOMAIN runs : i \in Nat /\ i < n
    BY <1>2, <1>3, TableFacts DEF n
  <2>1. j \in DOMAIN runs /\ runs'[j] = runs[j]
    BY <1>3, <2>0
  <2>2. CASE k \in DOMAIN runs
    BY <1>3, <2>1, <2>2 DEF Fifo
  <2>3. CASE k = n
    <3>0. runs'[k] = x
      BY <1>3, <2>3
    <3>1. ASSUME NEW t \in Triggers, Launched(t), x = NewRow(t, bound[t], "pending", now) PROVE FALSE
      <4>1. x.trig = t
        BY <3>1, RowFields
      <4>2. runs[j].trig = t /\ runs[j].st = "queued" /\ Policy[t] = "queue"
        BY <2>1, <3>0, <4>1
      <4>3. j \in QueuedForTrigger(runs, t)
        BY <2>1, <4>2 DEF QueuedForTrigger
      <4> QED BY <3>1, <4>2, <4>3 DEF Launched, Overflows
    <3>2. ASSUME NEW p \in Pipelines, x = NewRow(NoTrigger, p, "pending", now) PROVE FALSE
      <4>1. x.trig = NoTrigger
        BY <3>2, RowFields
      <4>2. runs[j].trig \in Triggers
        BY <1>2, <2>1, TableFacts
      <4> QED BY <2>1, <3>0, <4>1, <4>2, LauncherAssumption
    <3>3. x.at = 0
      BY <1>1, <3>1, <3>2, RowFields
    <3> QED BY <3>0, <3>3
  <2> QED BY <1>3, <2>2, <2>3
<1>8. ASSUME x.st = "pending"
      PROVE  /\ ActiveForPipeline(runs', x.pipe) <= PipeCap[x.pipe]
             /\ x.trig \in Triggers => ActiveForTrigger(runs', x.trig) <= AdmissionCapacity(x.trig)
  <2>1. /\ ActiveForPipeline(runs', x.pipe) = ActiveForPipeline(runs, x.pipe) + 1
        /\ ActiveForTrigger(runs', x.trig) = ActiveForTrigger(runs, x.trig) + 1
    BY <1>1, <1>2, <1>8, AppendedCounts DEF Occupies
  <2>2. ASSUME NEW t \in Triggers, Launched(t), x = NewRow(t, bound[t], "pending", now)
        PROVE  /\ ActiveForPipeline(runs', x.pipe) <= PipeCap[x.pipe]
               /\ ActiveForTrigger(runs', x.trig) <= AdmissionCapacity(x.trig)
    <3>1. x.pipe = bound[t] /\ x.trig = t
      BY <2>2, RowFields
    <3>2. ~Refused(t) /\ ~Overflows(t)
      BY <2>2 DEF Launched
    <3> QED BY <2>1, <3>1, <3>2, LaunchedCaps
  <2>3. ASSUME NEW p \in Pipelines, Edited(p), x = NewRow(NoTrigger, p, "pending", now)
        PROVE  ActiveForPipeline(runs', x.pipe) <= PipeCap[x.pipe] /\ x.trig \notin Triggers
    <3>1. x.pipe = p /\ x.trig = NoTrigger
      BY <2>3, RowFields
    <3>2. ActiveForPipeline(runs, p) < PipeCap[p] /\ PipeCap[p] \in Nat
      BY <2>3, LauncherAssumption DEF Edited, PipelineHasRoom
    <3>3. ActiveForPipeline(runs, p) \in Nat
      BY <1>2, ActiveNat
    <3> QED BY <2>1, <3>1, <3>2, <3>3, LauncherAssumption
  <2>4. \A t : x # NewRow(t, bound[t], "queued", 0)
    BY <1>8, RowFields
  <2> QED BY <1>1, <2>2, <2>3, <2>4
<1>9. Admitted \cap DOMAIN runs = {}
  BY <1>3, <1>4
<1>10. \A i \in Admitted : i = n /\ x.st = "pending"
  BY <1>4
<1> QED BY <1>3, <1>6, <1>7, <1>8, <1>9, <1>10 DEF GoodRows

-----------------------------------------------------------------------------
(* The actions.                                                            *)

\* The types of everything but the table and the clock.
RestOK ==
  /\ bound \in [Triggers -> Pipelines]
  /\ drives \subseteq (DOMAIN runs) \X {"launcher", "alarm"} /\ taps \subseteq Pipelines
  /\ up \in {"down", "boot", "up", "stopped"}
  /\ vacated \subseteq DOMAIN runs
  /\ parks \in 0..MaxParks /\ holds \in 0..MaxHolds
  /\ rebinds \in 0..MaxRebinds /\ stops \in 0..MaxStops

LEMMA TypeSplit == clock \in Nat /\ runs \in Table(clock) /\ RestOK => RowInv
<1> SUFFICES ASSUME clock \in Nat, runs \in Table(clock), RestOK PROVE RowInv
  OBVIOUS
<1>1. runs \in Seq(Row)
  BY DEF Table
<1>2. Row = [trig : Triggers \cup {NoTrigger}, pipe : Pipelines, at : Nat,
             st : {"queued", "pending", "running", "held", "waiting", "ended"}]
  BY DEF Row, RowStatus
<1>3. \A i \in DOMAIN runs : runs[i].st = "queued" => runs[i].trig # NoTrigger /\ runs[i].at = 0
  BY DEF Table
<1> QED BY <1>1, <1>2, <1>3 DEF RowInv, TypeOK, RestOK

LEMMA RowRest == RowInv => RestOK
BY DEF RowInv, TypeOK, RestOK

\* A step of the launcher that admits rows keeps the drives to rows.
LEMMA AdmittedDrives ==
  ASSUME RowInv, NEW live \in SUBSET drives, DriveAdmitted(live), DOMAIN runs \subseteq DOMAIN runs'
  PROVE  drives' \subseteq (DOMAIN runs') \X {"launcher", "alarm"}
<1>1. drives \subseteq (DOMAIN runs) \X {"launcher", "alarm"}
  BY RowRest DEF RestOK
<1>2. Admitted \subseteq DOMAIN runs'
  BY DEF Admitted
<1> QED BY <1>1, <1>2 DEF DriveAdmitted

\* Steps of one row.
MovedRow(i) ==
  CancelQueued(i) \/ StartRun(i) \/ StartRefused(i) \/ EndRun(i) \/ Park(i) \/ HoldRetry(i)
  \/ Resume(i) \/ Reconcile(i)

LEMMA MovedKind ==
  ASSUME RowInv, NEW i \in DOMAIN runs, MovedRow(i)
  PROVE  Recoloured
<1>1. CASE CancelQueued(i)
  BY <1>1 DEF CancelQueued, Recoloured, MovesTo
<1>2. CASE StartRun(i)
  BY <1>2 DEF StartRun, Moves, Recoloured, MovesTo
<1>3. CASE StartRefused(i)
  BY <1>3 DEF StartRefused, Moves, Recoloured, MovesTo
<1>4. CASE EndRun(i)
  BY <1>4 DEF EndRun, Moves, Recoloured, MovesTo
<1>5. CASE Park(i)
  BY <1>5 DEF Park, Moves, Recoloured, MovesTo
<1>6. CASE Resume(i)
  BY <1>6 DEF Resume, Recoloured, MovesTo
<1>7. CASE Reconcile(i)
  BY <1>7 DEF Reconcile, Recoloured, MovesTo
<1>8. CASE HoldRetry(i)
  BY <1>8 DEF HoldRetry, Moves, Recoloured, MovesTo
<1> QED BY <1>1, <1>2, <1>3, <1>4, <1>5, <1>6, <1>7, <1>8 DEF MovedRow

LEMMA MovedRest ==
  ASSUME RowInv, NEW i \in DOMAIN runs, MovedRow(i), DOMAIN runs \subseteq DOMAIN runs'
  PROVE  RestOK'
<1>0. RestOK /\ runs[i].pipe \in Pipelines
  BY RowRest, RowTypes, TableFacts
<1>b. MaxParks \in Nat /\ MaxHolds \in Nat
  BY LauncherAssumption
<1>1. CASE CancelQueued(i)
  BY <1>0, <1>1 DEF CancelQueued, RestOK, budgets
<1>2. CASE StartRun(i) \/ StartRefused(i)
  BY <1>0, <1>2 DEF StartRun, StartRefused, Moves, RestOK
<1>4. CASE EndRun(i)
  BY <1>0, <1>4 DEF EndRun, Moves, RestOK
<1>5. CASE Park(i)
  <2>1. UNCHANGED <<bound, drives, taps, up, holds, rebinds, stops>>
    BY <1>5 DEF Park, Moves
  <2>2. parks' \in 0..MaxParks
    BY <1>0, <1>5, <1>b DEF Park, RestOK
  <2>3. vacated' \subseteq vacated \cup {i}
    BY <1>5 DEF Park
  <2> QED BY <1>0, <2>1, <2>2, <2>3 DEF RestOK
<1>8. CASE HoldRetry(i)
  <2>1. UNCHANGED <<bound, drives, taps, up, vacated, parks, rebinds, stops>>
    BY <1>8 DEF HoldRetry, Moves
  <2>2. holds' \in 0..MaxHolds
    BY <1>0, <1>8, <1>b DEF HoldRetry, RestOK
  <2> QED BY <1>0, <2>1, <2>2 DEF RestOK
<1>6. CASE Resume(i)
  BY <1>0, <1>6 DEF Resume, RestOK, budgets
<1>7. CASE Reconcile(i)
  BY <1>0, <1>7 DEF Reconcile, RestOK, budgets
<1> QED BY <1>1, <1>2, <1>4, <1>5, <1>6, <1>7, <1>8 DEF MovedRow

\* Steps that do not touch the table.
Aside ==
  \/ \E i \in DOMAIN runs : AlarmSettles(i)
  \/ \E t \in Triggers, p \in Pipelines : Rebind(t, p)
  \/ Stop \/ Crash \/ Restart \/ Over \/ UNCHANGED vars

LEMMA AsideKind ==
  ASSUME RowInv, Aside
  PROVE  Kept /\ RestOK'
<1>0. RestOK
  BY RowRest
<1>b. MaxRebinds \in Nat /\ MaxStops \in Nat
  BY LauncherAssumption
<1>1. ASSUME NEW i \in DOMAIN runs, AlarmSettles(i) PROVE Kept /\ RestOK'
  BY <1>0, <1>1 DEF AlarmSettles, Kept, RestOK, budgets
<1>2. ASSUME NEW t \in Triggers, NEW p \in Pipelines, Rebind(t, p) PROVE Kept /\ RestOK'
  BY <1>0, <1>b, <1>2 DEF Rebind, Kept, RestOK
<1>3. CASE Stop
  BY <1>0, <1>3 DEF Stop, Kept, RestOK, budgets
<1>4. CASE Crash
  BY <1>0, <1>b, <1>4 DEF Crash, Kept, RestOK
<1>5. CASE Restart
  BY <1>0, <1>5 DEF Restart, Kept, RestOK, budgets
<1>6. CASE Over \/ UNCHANGED vars
  BY <1>0, <1>6 DEF Over, vars, Kept, RestOK
<1> QED BY <1>1, <1>2, <1>3, <1>4, <1>5, <1>6 DEF Aside

\* Drains.
DrainAct ==
  \/ \E i \in DOMAIN runs : LauncherSettles(i)
  \/ \E p \in Pipelines : TapDrains(p)
  \/ BootLaunch

LEMMA DrainIsGrown ==
  ASSUME RowInv, NEW p \in Pipelines
  PROVE  LET q == DrainPipelineQueue(runs, p) IN
         q \in Table(now) /\ Grown(runs, q, now) /\ Served(runs, q, now) /\ Stuck(q, p)
BY RowTypes, ServedRefl, DrainGrows

LEMMA DrainKind ==
  ASSUME RowInv, DrainAct
  PROVE  Drained /\ RestOK'
<1>0. RestOK /\ runs \in Table(now)
  BY RowRest, RowTypes
<1> SUFFICES /\ Drained
             /\ bound' = bound /\ taps' \subseteq Pipelines /\ up' \in {"down", "boot", "up", "stopped"}
             /\ vacated' \subseteq vacated
             /\ parks' = parks /\ holds' = holds /\ rebinds' = rebinds /\ stops' = stops
  <2>1. ASSUME Drained PROVE drives' \subseteq (DOMAIN runs') \X {"launcher", "alarm"} /\ DOMAIN runs' = DOMAIN runs
    <3>1. DOMAIN runs' = DOMAIN runs
      BY <2>1, DrainedAdmits
    <3>2. PICK live \in SUBSET drives : DriveAdmitted(live)
      BY <2>1 DEF Drained
    <3> QED BY <3>1, <3>2, AdmittedDrives
  <2> QED BY <1>0, <2>1 DEF RestOK
<1>1. ASSUME NEW i \in DOMAIN runs, LauncherSettles(i)
      PROVE  runs' \in Table(now) /\ Grown(runs, runs', now) /\ \E live \in SUBSET drives : DriveAdmitted(live)
  <2>1. runs[i].pipe \in Pipelines
    BY RowTypes, TableFacts
  <2>2. CASE up = "up"
    <3>1. runs' = DrainPipelineQueue(runs, runs[i].pipe)
      BY <1>1, <2>2 DEF LauncherSettles
    <3> QED BY <1>1, <2>1, <3>1, DrainIsGrown DEF LauncherSettles
  <2>3. CASE up # "up"
    <3>1. runs' = runs
      BY <1>1, <2>3 DEF LauncherSettles
    <3> QED BY <1>0, <1>1, <3>1, ServedRefl DEF LauncherSettles
  <2> QED BY <2>2, <2>3
<1>2. ASSUME NEW p \in Pipelines, TapDrains(p)
      PROVE  runs' \in Table(now) /\ Grown(runs, runs', now) /\ \E live \in SUBSET drives : DriveAdmitted(live)
  <2>1. runs' = DrainPipelineQueue(runs, p) /\ DriveAdmitted(drives)
    BY <1>2 DEF TapDrains
  <2> QED BY <2>1, DrainIsGrown
<1>3. ASSUME BootLaunch
      PROVE  runs' \in Table(now) /\ Grown(runs, runs', now) /\ \E live \in SUBSET drives : DriveAdmitted(live)
  <2>1. runs' \in RecoverQueued(runs) /\ DriveAdmitted({})
    BY <1>3 DEF BootLaunch
  <2>2. clock \in Nat
    BY RowTypes
  <2> QED BY <1>0, <2>1, <2>2, RecoverGrows
<1>4. Drained
  BY <1>1, <1>2, <1>3 DEF DrainAct, Drained
<1>5. /\ bound' = bound /\ taps' \subseteq Pipelines /\ up' \in {"down", "boot", "up", "stopped"}
      /\ vacated' \subseteq vacated
      /\ parks' = parks /\ holds' = holds /\ rebinds' = rebinds /\ stops' = stops
  BY <1>0 DEF DrainAct, LauncherSettles, TapDrains, VacatedElsewhere, BootLaunch, RestOK, budgets
<1> QED BY <1>4, <1>5

\* New rows.
NewAct == (\E t \in Triggers : Launch(t) \/ Enqueue(t)) \/ \E p \in Pipelines : RunNow(p)

LEMMA NewKind ==
  ASSUME RowInv, NewAct
  PROVE  Inserted /\ UNCHANGED <<bound, taps, up, vacated, parks, holds, rebinds, stops>>
<1>1. ASSUME NEW t \in Triggers, Launch(t)
      PROVE  Inserted /\ UNCHANGED <<bound, taps, up, vacated, parks, holds, rebinds, stops>>
  BY <1>1 DEF Launch, Insert, Inserted, Launched, Adds, NewRow, budgets
<1>2. ASSUME NEW t \in Triggers, Enqueue(t)
      PROVE  Inserted /\ UNCHANGED <<bound, taps, up, vacated, parks, holds, rebinds, stops>>
  BY <1>2 DEF Enqueue, Insert, Inserted, Enqueued, Adds, NewRow, budgets
<1>3. ASSUME NEW p \in Pipelines, RunNow(p)
      PROVE  Inserted /\ UNCHANGED <<bound, taps, up, vacated, parks, holds, rebinds, stops>>
  BY <1>3 DEF RunNow, Insert, Inserted, Edited, Adds, NewRow, budgets
<1> QED BY <1>1, <1>2, <1>3 DEF NewAct

LEMMA NextKinds ==
  ASSUME [Next]_vars
  PROVE  Aside \/ DrainAct \/ NewAct \/ \E i \in DOMAIN runs : MovedRow(i)
BY DEF Next, BootSteps, DriveStep, Aside, DrainAct, NewAct, MovedRow

LEMMA GoodIsInv == GoodRows /\ RestOK' => RowInv'
<1> SUFFICES ASSUME GoodRows, RestOK' PROVE RowInv'
  OBVIOUS
<1>1. (clock \in Nat /\ runs \in Table(clock) /\ RestOK)'
  BY DEF GoodRows
<1> QED BY <1>1, TypeSplit, PTL

LEMMA RowStep ==
  ASSUME RowInv, [Next]_vars
  PROVE  GoodRows /\ RowInv'
<1>1. CASE Aside
  <2>1. Kept /\ RestOK'
    BY <1>1, AsideKind
  <2>2. GoodRows
    BY <2>1, KeptGood
  <2> QED BY <2>1, <2>2, GoodIsInv
<1>2. CASE DrainAct
  <2>1. Drained /\ RestOK'
    BY <1>2, DrainKind
  <2>2. GoodRows
    BY <2>1, DrainedGood
  <2> QED BY <2>1, <2>2, GoodIsInv
<1>3. CASE NewAct
  <2>1. Inserted /\ UNCHANGED <<bound, taps, up, vacated, parks, holds, rebinds, stops>>
    BY <1>3, NewKind
  <2>2. GoodRows
    BY <2>1, InsertedGood
  <2>3. drives' \subseteq (DOMAIN runs') \X {"launcher", "alarm"}
    BY <2>1, <2>2, AdmittedDrives DEF Inserted, GoodRows
  <2>4. RestOK'
    <3>1. DOMAIN runs \subseteq DOMAIN runs'
      BY <2>2 DEF GoodRows
    <3> QED BY <2>1, <2>3, <3>1, RowRest DEF RestOK
  <2> QED BY <2>2, <2>4, GoodIsInv
<1>4. ASSUME NEW i \in DOMAIN runs, MovedRow(i) PROVE GoodRows /\ RowInv'
  <2>2. GoodRows
    BY <1>4, MovedKind, RecolouredGood
  <2>3. RestOK'
    BY <1>4, <2>2, MovedRest DEF GoodRows
  <2> QED BY <2>2, <2>3, GoodIsInv
<1> QED BY <1>1, <1>2, <1>3, <1>4, NextKinds

LEMMA RowInit == Init => RowInv /\ Fifo(runs)
<1> SUFFICES ASSUME Init PROVE RowInv /\ Fifo(runs)
  OBVIOUS
<1>1. clock = 0 /\ runs = <<>>
  BY DEF Init
<1>2. runs \in Table(clock) /\ Fifo(runs)
  BY <1>1 DEF Table, Fifo
<1>3. RestOK
  BY LauncherAssumption DEF Init, RestOK
<1> QED BY <1>1, <1>2, <1>3, TypeSplit

LEMMA RowInvariant == Spec => []RowInv
<1>1. Init => RowInv
  BY RowInit
<1>2. RowInv /\ [Next]_vars => RowInv'
  BY RowStep
<1> QED BY <1>1, <1>2, PTL DEF Spec

-----------------------------------------------------------------------------
(* Theorems.                                                               *)

\* Fires of a `queue` trigger are admitted to a pipeline in arrival order, by
\* the fast path of fire, by any drain or at boot (launcher.ts, nextQueuedRun).
THEOREM QueueOrder == Spec => []FifoPerTrigger
<1>1. Init => RowInv /\ Fifo(runs)
  BY RowInit
<1>2. RowInv /\ Fifo(runs) /\ [Next]_vars => RowInv' /\ Fifo(runs)'
  BY RowStep DEF GoodRows, Fifo
<1>3. RowInv /\ Fifo(runs) => FifoPerTrigger
  BY DEF RowInv, Fifo, FifoPerTrigger
<1> QED BY <1>1, <1>2, <1>3, PTL DEF Spec

\* Every admission leaves its pipeline and its trigger within their capacities,
\* however many rows a drain admits at once and whatever alarms resumed.
THEOREM CapsHold == Spec => AdmitsWithinCaps
<1>1. RowInv /\ [Next]_vars =>
        [\A i \in Admitted :
           /\ ActiveForPipeline(runs', runs'[i].pipe) <= PipeCap[runs'[i].pipe]
           /\ runs'[i].trig \in Triggers =>
                ActiveForTrigger(runs', runs'[i].trig) <= AdmissionCapacity(runs'[i].trig)]_vars
  BY RowStep DEF GoodRows
<1> QED BY <1>1, RowInvariant, PTL DEF Spec, AdmitsWithinCaps

\* A drain never admits a fire and leaves waiting for the pipeline alone a
\* trigger that was served less recently (drainPipelineQueue's ordering).
THEOREM FairShare == Spec => NoMonopoly
<1>1. RowInv /\ [Next]_vars =>
        [\A i \in Admitted \cap DOMAIN runs : \A u \in Triggers \ {runs[i].trig} :
           LET p == runs[i].pipe IN
           u \in Candidates(runs', p) =>
             LastAdmitted(runs, runs[i].trig, p) <= LastAdmitted(runs', u, p)]_vars
  BY RowStep DEF GoodRows, NoneOvertaken
<1> QED BY <1>1, RowInvariant, PTL DEF Spec, NoMonopoly

-----------------------------------------------------------------------------
(* No row is stranded, as long as no trigger is bound anew: that frees a   *)
(* slot no drain looks at.                                                 *)

OnBinding(r) == \A i \in DOMAIN r : r[i].trig \in Triggers => r[i].pipe = Binding[r[i].trig]

\* A drain of p is still to come, or the end of a run that vacated a slot of it.
Comes(p) == DrainToCome(p) \/ \E v \in vacated : runs[v].pipe = p /\ runs[v].st # "ended"

\* A row that an alarm drives, or that parked in such a drive, has left the queue
\* and has been started.
AlarmInv ==
  \A i \in DOMAIN runs : <<i, "alarm">> \in drives \/ i \in vacated => runs[i].st \notin {"queued", "pending"}

Attended == up = "up" => \A p \in Pipelines : Stuck(runs, p) \/ Comes(p)

StrandInv == bound = Binding /\ OnBinding(runs) /\ AlarmInv /\ Attended

\* From r to q slots are only taken and queued rows only leave.
Fills(r, q) ==
  /\ DOMAIN r \subseteq DOMAIN q
  /\ \A i \in DOMAIN r : /\ q[i].trig = r[i].trig /\ q[i].pipe = r[i].pipe
                         /\ Occupies(r[i]) => Occupies(q[i])
  /\ \A i \in DOMAIN q : q[i].st = "queued" => i \in DOMAIN r /\ r[i].st = "queued"

LEMMA FillsCounts ==
  ASSUME NEW c \in Nat, NEW r, NEW q \in Table(c), DOMAIN r \subseteq DOMAIN q,
         \A i \in DOMAIN r : /\ q[i].trig = r[i].trig /\ q[i].pipe = r[i].pipe
                             /\ Occupies(r[i]) => Occupies(q[i])
  PROVE  /\ \A t : ActiveForTrigger(r, t) <= ActiveForTrigger(q, t)
         /\ \A p : ActiveForPipeline(r, p) <= ActiveForPipeline(q, p)
<1>1. ASSUME NEW t PROVE ActiveForTrigger(r, t) <= ActiveForTrigger(q, t)
  <2> DEFINE U == {i \in DOMAIN r : Occupies(r[i]) /\ r[i].trig = t}
             S == {i \in DOMAIN q : Occupies(q[i]) /\ q[i].trig = t}
  <2>1. U \subseteq S /\ S \subseteq DOMAIN q
    OBVIOUS
  <2>2. Cardinality(U) <= Cardinality(S)
    <3> HIDE DEF U, S
    <3> QED BY <2>1, CountMono
  <2> QED BY <2>2 DEF ActiveForTrigger
<1>2. ASSUME NEW p PROVE ActiveForPipeline(r, p) <= ActiveForPipeline(q, p)
  <2> DEFINE U == {i \in DOMAIN r : Occupies(r[i]) /\ r[i].pipe = p}
             S == {i \in DOMAIN q : Occupies(q[i]) /\ q[i].pipe = p}
  <2>1. U \subseteq S /\ S \subseteq DOMAIN q
    OBVIOUS
  <2>2. Cardinality(U) <= Cardinality(S)
    <3> HIDE DEF U, S
    <3> QED BY <2>1, CountMono
  <2> QED BY <2>2 DEF ActiveForPipeline
<1> QED BY <1>1, <1>2

\* Fewer candidates and fewer slots.
LEMMA StuckMono ==
  ASSUME NEW c \in Nat, NEW r \in Table(c), NEW q \in Table(c), NEW p \in Pipelines, Stuck(r, p),
         ActiveForPipeline(r, p) <= ActiveForPipeline(q, p),
         \A t \in Candidates(q, p) :
           QueuedOn(r, t, p) # {} /\ ActiveForTrigger(r, t) <= ActiveForTrigger(q, t)
  PROVE  Stuck(q, p)
<1>1. PipeCap[p] \in Nat /\ ActiveForPipeline(r, p) \in Nat /\ ActiveForPipeline(q, p) \in Nat
  BY LauncherAssumption, ActiveNat
<1>2. PipelineHasRoom(q, p) => PipelineHasRoom(r, p)
  BY <1>1 DEF PipelineHasRoom
<1>3. ASSUME NEW t \in Candidates(q, p) PROVE t \in Candidates(r, p)
  <2>1. AdmissionCapacity(t) \in Nat /\ t \in Triggers
    BY <1>3, LauncherAssumption DEF Candidates, AdmissionCapacity
  <2>2. ActiveForTrigger(r, t) \in Nat /\ ActiveForTrigger(q, t) \in Nat
    BY ActiveNat
  <2>3. ActiveForTrigger(q, t) < AdmissionCapacity(t)
    BY <1>3 DEF Candidates
  <2>4. QueuedOn(r, t, p) # {} /\ ActiveForTrigger(r, t) <= ActiveForTrigger(q, t)
    BY <1>3
  <2> QED BY <2>1, <2>2, <2>3, <2>4 DEF Candidates
<1> QED BY <1>2, <1>3 DEF Stuck

LEMMA FillsStuck ==
  ASSUME NEW c \in Nat, NEW r \in Table(c), NEW q \in Table(c), Fills(r, q),
         NEW p \in Pipelines, Stuck(r, p)
  PROVE  Stuck(q, p)
<1>1. /\ \A t : ActiveForTrigger(r, t) <= ActiveForTrigger(q, t)
      /\ ActiveForPipeline(r, p) <= ActiveForPipeline(q, p)
  BY FillsCounts DEF Fills
<1>2. ASSUME NEW t \in Candidates(q, p) PROVE QueuedOn(r, t, p) # {}
  <2>1. PICK j \in QueuedOn(q, t, p) : TRUE
    BY <1>2 DEF Candidates
  <2>2. j \in QueuedOn(r, t, p)
    BY <2>1 DEF QueuedOn, QueuedForTrigger, Fills
  <2> QED BY <2>2
<1> QED BY <1>1, <1>2, StuckMono

\* A slot freed on one pipeline concerns no other: the trigger's queue is there.
LEMMA FreedElsewhere ==
  ASSUME NEW c \in Nat, NEW r \in Table(c), NEW q \in Table(c), OnBinding(r), NEW i \in DOMAIN r,
         DOMAIN q = DOMAIN r, \A j \in DOMAIN r \ {i} : q[j] = r[j], q[i].st # "queued",
         q[i].trig = r[i].trig, q[i].pipe = r[i].pipe,
         NEW p \in Pipelines, p # r[i].pipe, Stuck(r, p)
  PROVE  Stuck(q, p)
<1>1. ActiveForPipeline(q, p) = ActiveForPipeline(r, p)
  <2>1. {j \in DOMAIN q : Occupies(q[j]) /\ q[j].pipe = p} = {j \in DOMAIN r : Occupies(r[j]) /\ r[j].pipe = p}
    OBVIOUS
  <2> QED BY <2>1 DEF ActiveForPipeline
<1>2. ASSUME NEW t \in Candidates(q, p)
      PROVE  QueuedOn(r, t, p) # {} /\ ActiveForTrigger(q, t) = ActiveForTrigger(r, t)
  <2>1. PICK j \in QueuedOn(q, t, p) : TRUE
    BY <1>2 DEF Candidates
  <2>2. j # i /\ j \in QueuedOn(r, t, p)
    BY <2>1 DEF QueuedOn, QueuedForTrigger
  <2>3. t \in Triggers /\ j \in DOMAIN r /\ r[j].trig = t /\ r[j].pipe = p
    BY <1>2, <2>2 DEF Candidates, QueuedOn, QueuedForTrigger
  <2>4. r[i].trig # t
    BY <2>3 DEF OnBinding
  <2>5. {k \in DOMAIN q : Occupies(q[k]) /\ q[k].trig = t} = {k \in DOMAIN r : Occupies(r[k]) /\ r[k].trig = t}
    BY <2>4
  <2> QED BY <2>2, <2>5 DEF ActiveForTrigger
<1>3. \A t : ActiveForTrigger(r, t) \in Nat
  BY ActiveNat
<1>4. ActiveForPipeline(r, p) \in Nat
  BY ActiveNat
<1>5. /\ ActiveForPipeline(r, p) <= ActiveForPipeline(q, p)
      /\ \A t \in Candidates(q, p) :
           QueuedOn(r, t, p) # {} /\ ActiveForTrigger(r, t) <= ActiveForTrigger(q, t)
  BY <1>1, <1>2, <1>3, <1>4
<1> QED BY <1>5, StuckMono

\* A queued row concerns its trigger on its pipeline alone.
LEMMA QueuedElsewhere ==
  ASSUME NEW c \in Nat, NEW r \in Table(c), NEW x, Fits(x, c), NEW q, Adds(r, q, x), x.st = "queued",
         NEW p \in Pipelines, Stuck(r, p),
         x.pipe = p => QueuedOn(r, x.trig, p) # {} \/ x.trig \notin Candidates(q, p)
  PROVE  Stuck(q, p)
<1> DEFINE n == Len(r) + 1
<1>1. Added(r, q, x, c, n)
  BY Appended
<1> HIDE DEF n
<1>2. /\ q \in Table(c) /\ DOMAIN q = DOMAIN r \cup {n}
      /\ q[n] = x /\ \A j \in DOMAIN r : q[j] = r[j]
  BY <1>1 DEF Added
<1>3. /\ ActiveForPipeline(q, p) = ActiveForPipeline(r, p)
      /\ \A t : ActiveForTrigger(q, t) = ActiveForTrigger(r, t)
  BY AppendedCounts DEF Occupies
<1>4. ASSUME NEW t \in Candidates(q, p) PROVE QueuedOn(r, t, p) # {}
  <2>1. PICK j \in QueuedOn(q, t, p) : TRUE
    BY <1>4 DEF Candidates
  <2>2. CASE j = n
    <3>1. x.trig = t /\ x.pipe = p
      BY <1>2, <2>1, <2>2 DEF QueuedOn, QueuedForTrigger
    <3> QED BY <1>4, <3>1
  <2>3. CASE j # n
    <3>1. j \in QueuedOn(r, t, p)
      BY <1>2, <2>1, <2>3 DEF QueuedOn, QueuedForTrigger
    <3> QED BY <3>1
  <2> QED BY <2>2, <2>3
<1>5. ActiveForPipeline(r, p) \in Nat /\ \A t : ActiveForTrigger(r, t) \in Nat
  BY ActiveNat
<1>6. /\ ActiveForPipeline(r, p) <= ActiveForPipeline(q, p)
      /\ \A t \in Candidates(q, p) :
           QueuedOn(r, t, p) # {} /\ ActiveForTrigger(r, t) <= ActiveForTrigger(q, t)
  BY <1>3, <1>4, <1>5
<1> QED BY <1>2, <1>6, StuckMono

\* What the rest of a step needs: pipes and triggers of rows never change.
PipesKept ==
  /\ DOMAIN runs \subseteq DOMAIN runs'
  /\ \A i \in DOMAIN runs : runs'[i].pipe = runs[i].pipe /\ runs'[i].trig = runs[i].trig

LEMMA ComesStays ==
  ASSUME RowInv, PipesKept, NEW p, Comes(p), taps \subseteq taps',
         \A d \in drives : d[2] = "launcher" => d \in drives',
         \A v \in vacated : runs[v].st # "ended" =>
           (v \in vacated' /\ runs'[v].st # "ended") \/ runs[v].pipe \in taps'
  PROVE  Comes(p)'
<1>1. (\A d \in drives : d[1] \in DOMAIN runs) /\ vacated \subseteq DOMAIN runs
  BY RowRest DEF RestOK
<1>2. CASE DrainToCome(p)
  BY <1>1, <1>2 DEF Comes, DrainToCome, PipesKept
<1>3. CASE ~DrainToCome(p)
  <2>1. PICK v \in vacated : runs[v].pipe = p /\ runs[v].st # "ended"
    BY <1>3 DEF Comes
  <2>2. runs'[v].pipe = p
    BY <1>1, <2>1 DEF PipesKept
  <2> QED BY <2>1, <2>2 DEF Comes, DrainToCome
<1> QED BY <1>2, <1>3

LEMMA AsideStrand ==
  ASSUME RowInv, StrandInv, MaxRebinds = 0, Aside
  PROVE  StrandInv'
<1>0. RestOK
  BY RowRest
<1>1. runs' = runs /\ PipesKept
  BY AsideKind DEF Kept, PipesKept
<1>2. /\ bound' = bound /\ drives' \subseteq drives /\ vacated' \subseteq vacated
      /\ up' = "up" => /\ up = "up" /\ taps' = taps /\ vacated' = vacated
                       /\ \A d \in drives : d[2] = "launcher" => d \in drives'
  <2>1. ASSUME NEW i \in DOMAIN runs, AlarmSettles(i)
        PROVE  /\ bound' = bound /\ drives' \subseteq drives /\ up' = up /\ taps' = taps
               /\ vacated' = vacated
               /\ \A d \in drives : d[2] = "launcher" => d \in drives'
    BY <2>1 DEF AlarmSettles
  <2>2. ASSUME NEW t \in Triggers, NEW p \in Pipelines, Rebind(t, p) PROVE FALSE
    BY <1>0, <2>2 DEF Rebind, RestOK
  <2>3. CASE Stop \/ Crash \/ Restart
    BY <2>3 DEF Stop, Crash, Restart
  <2>4. CASE Over \/ UNCHANGED vars
    BY <2>4 DEF Over, vars
  <2> QED BY <2>1, <2>2, <2>3, <2>4 DEF Aside
<1>3. AlarmInv'
  BY <1>1, <1>2 DEF StrandInv, AlarmInv
<1>4. ASSUME up' = "up", NEW p \in Pipelines PROVE Stuck(runs', p) \/ Comes(p)'
  <2>1. Stuck(runs, p) \/ Comes(p)
    BY <1>2, <1>4 DEF StrandInv, Attended
  <2> QED BY <1>1, <1>2, <1>4, <2>1, ComesStays
<1> QED BY <1>1, <1>2, <1>3, <1>4 DEF StrandInv, Attended

\* A step of one row: unless it only takes a slot, a drain is to come.
LEMMA MovedDetail ==
  ASSUME RowInv, StrandInv, NEW i \in DOMAIN runs, MovedRow(i)
  PROVE  \E st \in {"running", "held", "waiting", "ended"} :
           /\ MovesTo(runs, runs', i, st)
           /\ bound' = bound /\ up' = up /\ taps \subseteq taps' /\ drives \subseteq drives'
           /\ drives' \subseteq drives \cup {<<i, "alarm">>}
           /\ vacated \subseteq vacated' /\ vacated' \subseteq vacated \cup {i}
           /\ up = "up" => \/ Occupies(runs[i]) => st \in {"running", "held"}
                           \/ runs[i].pipe \in taps' \/ <<i, "launcher">> \in drives
                           \/ st = "waiting" /\ i \in vacated'
           /\ up = "up" /\ i \in vacated /\ st = "ended" => runs[i].pipe \in taps'
<1>0. RestOK
  BY RowRest
<1>1. CASE CancelQueued(i)
  <2>1. i \notin vacated
    BY <1>1 DEF CancelQueued, StrandInv, AlarmInv
  <2> QED BY <1>1, <2>1 DEF CancelQueued, MovesTo, Occupies
<1>2. CASE StartRun(i)
  BY <1>2 DEF StartRun, Moves, MovesTo
<1>3. CASE StartRefused(i)
  <2>1. PICK d \in drives : d[1] = i
    BY <1>3 DEF StartRefused, Moves, Driven
  <2>2. runs[i].st = "pending"
    BY <1>3 DEF StartRefused, Moves
  <2>3. d = <<i, "launcher">> \/ d = <<i, "alarm">>
    BY <1>0, <2>1 DEF RestOK
  <2>4. <<i, "launcher">> \in drives /\ i \notin vacated
    BY <2>1, <2>2, <2>3 DEF StrandInv, AlarmInv
  <2> QED BY <1>3, <2>4 DEF StartRefused, Moves, MovesTo
<1>4. CASE EndRun(i)
  BY <1>4 DEF EndRun, Moves, MovesTo
<1>5. CASE Park(i)
  <2>1. MovesTo(runs, runs', i, "waiting") /\ UNCHANGED <<bound, up, taps, drives>>
    BY <1>5 DEF Park, Moves, MovesTo
  <2>2. vacated' = vacated \cup {i} \/ (vacated' = vacated /\ <<i, "launcher">> \in drives)
    BY <1>5 DEF Park
  <2> QED BY <2>1, <2>2
<1>6. CASE Resume(i)
  BY <1>6 DEF Resume, MovesTo
<1>7. CASE Reconcile(i)
  BY <1>7 DEF Reconcile, MovesTo
<1>8. CASE HoldRetry(i)
  BY <1>8 DEF HoldRetry, Moves, MovesTo
<1> QED BY <1>1, <1>2, <1>3, <1>4, <1>5, <1>6, <1>7, <1>8 DEF MovedRow

LEMMA MovedStrand ==
  ASSUME RowInv, StrandInv, NEW i \in DOMAIN runs, MovedRow(i)
  PROVE  StrandInv'
<1>1. PICK st \in {"running", "held", "waiting", "ended"} :
        /\ MovesTo(runs, runs', i, st)
        /\ bound' = bound /\ up' = up /\ taps \subseteq taps' /\ drives \subseteq drives'
        /\ drives' \subseteq drives \cup {<<i, "alarm">>}
        /\ vacated \subseteq vacated' /\ vacated' \subseteq vacated \cup {i}
        /\ up = "up" => \/ Occupies(runs[i]) => st \in {"running", "held"}
                        \/ runs[i].pipe \in taps' \/ <<i, "launcher">> \in drives
                        \/ st = "waiting" /\ i \in vacated'
        /\ up = "up" /\ i \in vacated /\ st = "ended" => runs[i].pipe \in taps'
  BY MovedDetail
<1>2. clock \in Nat /\ runs \in Table(clock)
  BY RowTypes
<1>3. /\ runs' \in Table(clock) /\ DOMAIN runs' = DOMAIN runs
      /\ \A j \in DOMAIN runs \ {i} : runs'[j] = runs[j]
      /\ runs'[i].st = st /\ runs'[i].trig = runs[i].trig /\ runs'[i].pipe = runs[i].pipe
  <2>1. MovesTo(runs, runs', i, st)
    BY <1>1
  <2> QED BY <1>2, <2>1, Retagged
<1>4. PipesKept
  BY <1>3 DEF PipesKept
<1>5. OnBinding(runs')
  BY <1>3 DEF StrandInv, OnBinding
<1>6. AlarmInv'
  <2> SUFFICES ASSUME NEW j \in DOMAIN runs, <<j, "alarm">> \in drives' \/ j \in vacated'
               PROVE  runs'[j].st \notin {"queued", "pending"}
    BY <1>3 DEF AlarmInv
  <2>1. CASE j = i
    BY <1>3, <2>1
  <2>2. CASE j # i
    BY <1>1, <1>3, <2>2 DEF StrandInv, AlarmInv
  <2> QED BY <2>1, <2>2
<1>7. ASSUME up' = "up", NEW p \in Pipelines PROVE Stuck(runs', p) \/ Comes(p)'
  <2>0. up = "up" /\ (Stuck(runs, p) \/ Comes(p))
    BY <1>1, <1>7 DEF StrandInv, Attended
  <2>1. CASE Comes(p)
    <3>1. \A v \in vacated : runs[v].st # "ended" =>
            (v \in vacated' /\ runs'[v].st # "ended") \/ runs[v].pipe \in taps'
      <4>1. vacated \subseteq DOMAIN runs
        BY RowRest DEF RestOK
      <4> QED BY <1>1, <1>3, <2>0, <4>1
    <3> QED BY <1>1, <1>4, <2>1, <3>1, ComesStays
  <2>2. CASE Stuck(runs, p) /\ (Occupies(runs[i]) => st \in {"running", "held"})
    <3>1. Fills(runs, runs')
      BY <1>3, <2>2 DEF Fills, Occupies
    <3> QED BY <1>2, <1>3, <2>2, <3>1, FillsStuck
  <2>3. CASE Stuck(runs, p) /\ ~(Occupies(runs[i]) => st \in {"running", "held"})
    <3>1. \/ runs[i].pipe \in taps' \/ <<i, "launcher">> \in drives'
          \/ i \in vacated' /\ runs'[i].st # "ended"
      BY <1>1, <1>3, <2>0, <2>3
    <3>2. CASE p = runs[i].pipe
      BY <1>3, <3>1, <3>2 DEF Comes, DrainToCome
    <3>3. CASE p # runs[i].pipe
      <4>1. OnBinding(runs) /\ runs'[i].st # "queued"
        BY <1>3 DEF StrandInv
      <4> QED BY <1>2, <1>3, <2>3, <3>3, <4>1, FreedElsewhere
    <3> QED BY <3>2, <3>3
  <2> QED BY <2>0, <2>1, <2>2, <2>3
<1>8. bound' = Binding
  BY <1>1 DEF StrandInv
<1> QED BY <1>5, <1>6, <1>7, <1>8 DEF StrandInv, Attended

LEMMA DrainStrand ==
  ASSUME RowInv, StrandInv, DrainAct
  PROVE  StrandInv'
<1>0. RestOK /\ now \in Nat /\ runs \in Table(now) /\ clock \in Nat
  BY RowRest, RowTypes
<1>1. Drained
  BY DrainKind
<1>2. /\ DOMAIN runs' = DOMAIN runs
      /\ \A i \in DOMAIN runs : runs'[i] = runs[i] \/ Took(runs[i], runs'[i], now)
  BY <1>1, DrainedAdmits
<1>3. PipesKept /\ Fills(runs, runs') /\ runs' \in Table(now)
  BY <1>1, <1>2 DEF PipesKept, Fills, Took, Occupies, Drained
<1>4. OnBinding(runs')
  BY <1>2, <1>3 DEF StrandInv, OnBinding, PipesKept
<1>5. AlarmInv'
  <2> SUFFICES ASSUME NEW j \in DOMAIN runs, <<j, "alarm">> \in drives' \/ j \in vacated'
               PROVE  runs'[j].st \notin {"queued", "pending"}
    BY <1>2 DEF AlarmInv
  <2>0. vacated' \subseteq vacated
    BY DEF DrainAct, LauncherSettles, TapDrains, BootLaunch, VacatedElsewhere
  <2>1. <<j, "alarm">> \in drives \/ j \in vacated
    BY <1>1, <2>0 DEF Drained, DriveAdmitted
  <2>2. runs[j].st \notin {"queued", "pending"}
    BY <2>1 DEF StrandInv, AlarmInv
  <2> QED BY <1>2, <2>2 DEF Took
<1>6. bound' = Binding
  BY DEF StrandInv, DrainAct, LauncherSettles, TapDrains, BootLaunch
<1>7. ASSUME NEW p \in Pipelines, Stuck(runs, p) PROVE Stuck(runs', p)
  BY <1>0, <1>3, <1>7, FillsStuck
<1>8. ASSUME NEW p \in Pipelines, Comes(p), up = "up", ~Stuck(runs', p), ~BootLaunch PROVE Comes(p)'
  <2>0. /\ \A d \in drives : d[1] \in DOMAIN runs
        /\ \A v \in vacated : v \in DOMAIN runs /\ (runs[v].st # "ended" => runs'[v].st # "ended")
    BY <1>0, <1>2 DEF RestOK, Took
  <2>1. ASSUME NEW i \in DOMAIN runs, LauncherSettles(i) PROVE Comes(p)'
    <3>1. runs[i].pipe \in Pipelines
      BY <1>0, TableFacts
    <3>2. runs' = DrainPipelineQueue(runs, runs[i].pipe) /\ vacated' = VacatedElsewhere(runs[i].pipe)
      BY <1>8, <2>1 DEF LauncherSettles
    <3>3. p # runs[i].pipe
      BY <1>8, <3>1, <3>2, DrainIsGrown
    <3>4. taps' = taps /\ drives \ {<<i, "launcher">>} \subseteq drives'
      BY <2>1 DEF LauncherSettles, DriveAdmitted
    <3>5. CASE DrainToCome(p)
      BY <1>3, <2>0, <3>3, <3>4, <3>5 DEF Comes, DrainToCome, PipesKept
    <3>6. CASE ~DrainToCome(p)
      <4>1. PICK v \in vacated : runs[v].pipe = p /\ runs[v].st # "ended"
        BY <1>8, <3>6 DEF Comes
      <4>2. v \in vacated' /\ runs'[v].pipe = p /\ runs'[v].st # "ended"
        BY <1>3, <2>0, <3>2, <3>3, <4>1 DEF VacatedElsewhere, PipesKept
      <4> QED BY <4>2 DEF Comes
    <3> QED BY <3>5, <3>6
  <2>2. ASSUME NEW q \in Pipelines, TapDrains(q) PROVE Comes(p)'
    <3>1. /\ runs' = DrainPipelineQueue(runs, q) /\ vacated' = VacatedElsewhere(q)
          /\ taps' = taps \ {q} /\ drives \subseteq drives'
      BY <2>2 DEF TapDrains, DriveAdmitted
    <3>2. p # q
      BY <1>8, <3>1, DrainIsGrown
    <3>3. CASE DrainToCome(p)
      BY <1>3, <2>0, <3>1, <3>2, <3>3 DEF Comes, DrainToCome, PipesKept
    <3>4. CASE ~DrainToCome(p)
      <4>1. PICK v \in vacated : runs[v].pipe = p /\ runs[v].st # "ended"
        BY <1>8, <3>4 DEF Comes
      <4>2. v \in vacated' /\ runs'[v].pipe = p /\ runs'[v].st # "ended"
        BY <1>3, <2>0, <3>1, <3>2, <4>1 DEF VacatedElsewhere, PipesKept
      <4> QED BY <4>2 DEF Comes
    <3> QED BY <3>3, <3>4
  <2> QED BY <1>8, <2>1, <2>2 DEF DrainAct
<1>9. ASSUME BootLaunch, NEW p \in Pipelines PROVE Stuck(runs', p)
  <2>1. runs' \in RecoverQueued(runs)
    BY <1>9 DEF BootLaunch
  <2> QED BY <1>0, <2>1, RecoverGrows
<1>10. up' = "up" => up = "up" \/ BootLaunch
  BY DEF DrainAct, LauncherSettles, TapDrains
<1>11. Attended'
  <2> SUFFICES ASSUME up' = "up", NEW p \in Pipelines PROVE Stuck(runs', p) \/ Comes(p)'
    BY DEF Attended
  <2>1. CASE BootLaunch
    BY <1>9, <2>1
  <2>2. CASE ~BootLaunch
    <3>1. up = "up" /\ (Stuck(runs, p) \/ Comes(p))
      BY <1>10, <2>2 DEF StrandInv, Attended
    <3> QED BY <1>7, <1>8, <2>2, <3>1
  <2> QED BY <2>1, <2>2
<1> QED BY <1>4, <1>5, <1>6, <1>11 DEF StrandInv

LEMMA NewStrand ==
  ASSUME RowInv, StrandInv, NewAct
  PROVE  StrandInv'
<1> DEFINE n == Len(runs) + 1
<1>0. RestOK /\ now \in Nat /\ runs \in Table(now)
  BY RowRest, RowTypes
<1>1. Inserted /\ bound' = bound /\ taps' = taps /\ up' = up /\ vacated' = vacated
  BY NewKind
<1>2. PICK x : /\ Fits(x, now) /\ Adds(runs, runs', x)
               /\ \/ \E t \in Triggers : Launched(t) /\ x = NewRow(t, bound[t], "pending", now)
                  \/ \E t \in Triggers : Enqueued(t) /\ x = NewRow(t, bound[t], "queued", 0)
                  \/ \E p \in Pipelines : Edited(p) /\ x = NewRow(NoTrigger, p, "pending", now)
  BY <1>1, InsertedRow
<1>3. Added(runs, runs', x, now, n)
  BY <1>0, <1>2, Appended
<1> HIDE DEF n
<1>4. /\ runs' \in Table(now) /\ n \notin DOMAIN runs /\ DOMAIN runs' = DOMAIN runs \cup {n}
      /\ runs'[n] = x /\ \A j \in DOMAIN runs : runs'[j] = runs[j]
  BY <1>3 DEF Added
<1>5. PipesKept
  BY <1>4 DEF PipesKept
<1>6. drives \subseteq drives' /\ \A j : <<j, "alarm">> \in drives' => <<j, "alarm">> \in drives
  BY <1>1 DEF Inserted, DriveAdmitted
<1>7. OnBinding(runs')
  <2>1. x.trig \in Triggers => x.pipe = Binding[x.trig]
    BY <1>2, RowFields, LauncherAssumption DEF StrandInv
  <2> QED BY <1>4, <2>1 DEF StrandInv, OnBinding
<1>8. AlarmInv'
  <2> SUFFICES ASSUME NEW j \in DOMAIN runs', <<j, "alarm">> \in drives' \/ j \in vacated'
               PROVE  runs'[j].st \notin {"queued", "pending"}
    BY DEF AlarmInv
  <2>1. (<<j, "alarm">> \in drives \/ j \in vacated) /\ j \in DOMAIN runs
    BY <1>0, <1>1, <1>6 DEF RestOK
  <2> QED BY <1>4, <2>1 DEF StrandInv, AlarmInv
<1>9. ASSUME NEW p \in Pipelines, Stuck(runs, p) PROVE Stuck(runs', p)
  <2>1. CASE x.st = "pending"
    <3>1. Fills(runs, runs')
      BY <1>4, <2>1 DEF Fills
    <3> QED BY <1>0, <1>4, <1>9, <3>1, FillsStuck
  <2>2. ASSUME NEW t \in Triggers, Enqueued(t), x = NewRow(t, bound[t], "queued", 0) PROVE Stuck(runs', p)
    <3>1. x.trig = t /\ x.pipe = Binding[t] /\ x.st = "queued"
      BY <2>2, RowFields DEF StrandInv
    <3>2. /\ ActiveForPipeline(runs', p) = ActiveForPipeline(runs, p)
          /\ ActiveForTrigger(runs', t) = ActiveForTrigger(runs, t)
      BY <1>0, <1>2, <3>1, AppendedCounts DEF Occupies
    <3>3. CASE ~PipelineHasRoom(runs, p)
      BY <3>2, <3>3 DEF Stuck, PipelineHasRoom
    <3>4. CASE PipelineHasRoom(runs, p)
      <4>1. ASSUME x.pipe = p PROVE QueuedOn(runs, t, p) # {} \/ t \notin Candidates(runs', p)
        <5>1. bound[t] = p
          BY <3>1, <4>1 DEF StrandInv
        <5>2. CASE ActiveForTrigger(runs, t) >= AdmissionCapacity(t)
          <6>1. ActiveForTrigger(runs, t) \in Nat /\ AdmissionCapacity(t) \in Nat
            BY <1>0, ActiveNat, LauncherAssumption DEF AdmissionCapacity
          <6> QED BY <3>2, <5>2, <6>1 DEF Candidates
        <5>3. CASE QueuedForTrigger(runs, t) # {}
          <6>1. PICK j \in QueuedForTrigger(runs, t) : TRUE
            BY <5>3
          <6>2. j \in DOMAIN runs /\ runs[j].trig = t /\ runs[j].pipe = p
            BY <3>1, <4>1, <6>1 DEF QueuedForTrigger, StrandInv, OnBinding
          <6>3. j \in QueuedOn(runs, t, p)
            BY <6>1, <6>2 DEF QueuedOn
          <6> QED BY <6>3
        <5> QED BY <2>2, <3>4, <5>1, <5>2, <5>3 DEF Enqueued, Overflows
      <4>2. Fits(x, now) /\ Adds(runs, runs', x)
        BY <1>2
      <4> QED BY <1>0, <1>9, <3>1, <4>1, <4>2, QueuedElsewhere
    <3> QED BY <3>3, <3>4
  <2> QED BY <1>2, <2>1, <2>2, RowFields
<1>10. Attended'
  <2> SUFFICES ASSUME up' = "up", NEW p \in Pipelines PROVE Stuck(runs', p) \/ Comes(p)'
    BY DEF Attended
  <2>1. Stuck(runs, p) \/ Comes(p)
    BY <1>1 DEF StrandInv, Attended
  <2>2. \A v \in vacated : v \in vacated' /\ runs'[v] = runs[v]
    BY <1>0, <1>1, <1>4 DEF RestOK
  <2> QED BY <1>1, <1>5, <1>6, <1>9, <2>1, <2>2, ComesStays
<1> QED BY <1>1, <1>7, <1>8, <1>10 DEF StrandInv

\* No queued row that both gates would let in is left without a drain to come,
\* or the end of a run that parked in an alarm's drive, through fires, cancels,
\* held retries, parks, ends, crashes and boots (#629); the triggers keep their
\* bindings.
THEOREM NoneStranded ==
  ASSUME MaxRebinds = 0
  PROVE  Spec => []QueueNotStranded
<1>1. Init => StrandInv
  <2> SUFFICES ASSUME Init PROVE StrandInv
    OBVIOUS
  <2>1. bound = Binding /\ runs = <<>> /\ drives = {} /\ vacated = {}
    BY DEF Init
  <2>2. \A p \in Pipelines : Stuck(runs, p)
    BY <2>1 DEF Stuck, Candidates, QueuedOn, QueuedForTrigger
  <2> QED BY <2>1, <2>2 DEF StrandInv, OnBinding, AlarmInv, Attended
<1>2. RowInv /\ StrandInv /\ [Next]_vars => StrandInv'
  <2> SUFFICES ASSUME RowInv, StrandInv, [Next]_vars PROVE StrandInv'
    OBVIOUS
  <2>1. CASE Aside
    BY <2>1, AsideStrand
  <2>2. CASE DrainAct
    BY <2>2, DrainStrand
  <2>3. CASE NewAct
    BY <2>3, NewStrand
  <2>4. ASSUME NEW i \in DOMAIN runs, MovedRow(i) PROVE StrandInv'
    BY <2>4, MovedStrand
  <2> QED BY <2>1, <2>2, <2>3, <2>4, NextKinds
<1>3. RowInv /\ StrandInv => QueueNotStranded
  <2> SUFFICES ASSUME RowInv, StrandInv, up = "up", NEW i \in DOMAIN runs, Admissible(i)
               PROVE  Comes(runs[i].pipe)
    BY DEF QueueNotStranded, Comes
  <2>1. runs[i].pipe \in Pipelines
    BY RowTypes, TableFacts
  <2> QED BY <2>1 DEF StrandInv, Attended, Stuck, Admissible
<1> QED BY <1>1, <1>2, <1>3, RowInvariant, PTL DEF Spec

=============================================================================
