------------------------- MODULE AlertPolicyProofs -------------------------
(***************************************************************************)
(* Proofs about AlertPolicy, for any candidates, players, cooldown, lag    *)
(* and bounds: a pass of the policy is well defined, the scorer's batches  *)
(* make up one pass over scoring times, what the replay plans bounds what  *)
(* the scorer sends, alerts fall with the threshold, and the search over   *)
(* the thresholds misses none that is closer to its target.                *)
(*                                                                         *)
(* The counting arguments are one: every candidate of a pass has an alert  *)
(* of its player less than a cooldown before it, and alerts of a player    *)
(* are a cooldown apart, so two alerts of one pass never meet at the same  *)
(* alert of another.                                                       *)
(***************************************************************************)
EXTENDS AlertPolicy, FiniteSetTheorems, WellFoundedInduction, TLAPS

-----------------------------------------------------------------------------
(* Finite sets of candidates in the policy's order.                        *)

\* A set of naturals that is not empty has a least element.
LEMMA LeastNatural ==
    ASSUME NEW S, S \subseteq Nat, S # {}
    PROVE  \E m \in S : \A x \in S : m <= x
<1>1. IsWellFoundedOn(OpToRel(<, Nat), Nat)
  BY NatLessThanWellFounded
<1>2. PICK m \in S : \A x \in S : <<x, m>> \notin OpToRel(<, Nat)
  BY <1>1, WFMin
<1>3. \A x \in S : ~(x < m)
  BY <1>2 DEF OpToRel
<1>. QED
  BY <1>3

\* A finite part S of the table D, with integer times and scores.
Tabled(D, S) ==
    /\ S \subseteq Nat /\ IsFiniteSet(S)
    /\ \A c \in S : D[c].ts \in Int /\ D[c].score \in Int

LEMMA TabledPart ==
    ASSUME NEW D, NEW S, Tabled(D, S), NEW T \in SUBSET S
    PROVE  Tabled(D, T)
BY FS_Subset DEF Tabled

LEMMA BeforeIsOrder ==
    ASSUME NEW D, NEW S, Tabled(D, S), NEW c \in S, NEW d \in S
    PROVE  /\ ~Before(D, c, c)
           /\ ~(Before(D, c, d) /\ Before(D, d, c))
           /\ c # d => Before(D, c, d) \/ Before(D, d, c)
           /\ Before(D, c, d) => D[c].ts <= D[d].ts
           /\ \A e \in S : Before(D, c, d) /\ Before(D, d, e) => Before(D, c, e)
<1>1. \A x \in S : x \in Int /\ D[x].ts \in Int /\ D[x].score \in Int
  BY DEF Tabled
<1>. QED
  BY <1>1 DEF Before

\* What is counted in the proofs of the two lemmas below.
LEMMA StrictlyFewer ==
    ASSUME NEW S, NEW T, IsFiniteSet(T), S \subseteq T, NEW x \in T, x \notin S
    PROVE  Cardinality(S) < Cardinality(T) /\ Cardinality(S) \in Nat /\ Cardinality(T) \in Nat
<1>1. IsFiniteSet(S) /\ Cardinality(S) <= Cardinality(T)
  BY FS_Subset
<1>2. Cardinality(S) \in Nat /\ Cardinality(T) \in Nat
  BY <1>1, FS_CardinalityType
<1>3. Cardinality(S) # Cardinality(T)
  BY FS_Subset
<1>. QED
  BY <1>1, <1>2, <1>3

\* Candidates have a first one: that with the fewest before it.
LEMMA FirstCandidate ==
    ASSUME NEW D, NEW S, Tabled(D, S), S # {}
    PROVE  \E m \in S : \A x \in S : ~Before(D, x, m)
<1>. DEFINE Ahead(c) == {d \in S : Before(D, d, c)}
            Counts == {Cardinality(Ahead(c)) : c \in S}
<1>1. \A c \in S : IsFiniteSet(Ahead(c)) /\ Cardinality(Ahead(c)) \in Nat
  <2>. SUFFICES ASSUME NEW c \in S
                PROVE  IsFiniteSet(Ahead(c)) /\ Cardinality(Ahead(c)) \in Nat
    OBVIOUS
  <2>1. IsFiniteSet(Ahead(c))
    BY FS_Subset DEF Tabled
  <2>. QED
    BY <2>1, FS_CardinalityType
<1>2. PICK k \in Counts : \A j \in Counts : k <= j
  <2>1. Counts \subseteq Nat /\ Counts # {}
    BY <1>1
  <2>. HIDE DEF Counts
  <2>. QED
    BY <2>1, LeastNatural
<1>3. PICK m \in S : k = Cardinality(Ahead(m))
  OBVIOUS
<1>4. ASSUME NEW x \in S, Before(D, x, m) PROVE FALSE
  <2>1. Ahead(x) \subseteq Ahead(m) /\ x \in Ahead(m) /\ x \notin Ahead(x)
    BY <1>4, BeforeIsOrder
  <2>2. Cardinality(Ahead(x)) < Cardinality(Ahead(m))
    BY <2>1, <1>1, StrictlyFewer
  <2>3. Cardinality(Ahead(m)) <= Cardinality(Ahead(x))
    BY <1>2, <1>3
  <2>4. Cardinality(Ahead(m)) \in Nat /\ Cardinality(Ahead(x)) \in Nat
    BY <1>1
  <2>. QED
    BY <2>2, <2>3, <2>4
<1>. QED
  BY <1>4

\* And a last one: that with the fewest after it.
LEMMA LastCandidate ==
    ASSUME NEW D, NEW S, Tabled(D, S), S # {}
    PROVE  \E m \in S : \A x \in S : ~Before(D, m, x)
<1>. DEFINE Beyond(c) == {d \in S : Before(D, c, d)}
            Counts == {Cardinality(Beyond(c)) : c \in S}
<1>1. \A c \in S : IsFiniteSet(Beyond(c)) /\ Cardinality(Beyond(c)) \in Nat
  <2>. SUFFICES ASSUME NEW c \in S
                PROVE  IsFiniteSet(Beyond(c)) /\ Cardinality(Beyond(c)) \in Nat
    OBVIOUS
  <2>1. IsFiniteSet(Beyond(c))
    BY FS_Subset DEF Tabled
  <2>. QED
    BY <2>1, FS_CardinalityType
<1>2. PICK k \in Counts : \A j \in Counts : k <= j
  <2>1. Counts \subseteq Nat /\ Counts # {}
    BY <1>1
  <2>. HIDE DEF Counts
  <2>. QED
    BY <2>1, LeastNatural
<1>3. PICK m \in S : k = Cardinality(Beyond(m))
  OBVIOUS
<1>4. ASSUME NEW x \in S, Before(D, m, x) PROVE FALSE
  <2>1. Beyond(x) \subseteq Beyond(m) /\ x \in Beyond(m) /\ x \notin Beyond(x)
    BY <1>4, BeforeIsOrder
  <2>2. Cardinality(Beyond(x)) < Cardinality(Beyond(m))
    BY <2>1, <1>1, StrictlyFewer
  <2>3. Cardinality(Beyond(m)) <= Cardinality(Beyond(x))
    BY <1>2, <1>3
  <2>4. Cardinality(Beyond(m)) \in Nat /\ Cardinality(Beyond(x)) \in Nat
    BY <1>1
  <2>. QED
    BY <2>2, <2>3, <2>4
<1>. QED
  BY <1>4

-----------------------------------------------------------------------------
(* A pass of the policy.                                                   *)

\* R is what a pass over the candidates S raises when the alerts P were there before.
Pass(D, S, P, cd, R) ==
    /\ R \subseteq S
    /\ \A c \in S : c \in R <=> ~Suppressed(D, c, {r \in R : Before(D, r, c)} \cup P, cd)

\* A pass raises something definite, whatever the scores and times ...
LEMMA PassExists ==
    ASSUME NEW D, NEW P, NEW cd, NEW S, Tabled(D, S)
    PROVE  \E R : Pass(D, S, P, cd, R)
<1>. DEFINE Fails(T) == \A R : ~Pass(D, T, P, cd, R)
            Counts == {Cardinality(T) : T \in {T \in SUBSET S : Fails(T)}}
<1>. SUFFICES ASSUME Fails(S) PROVE FALSE
  OBVIOUS
<1>1. PICK k \in Counts : \A j \in Counts : k <= j
  <2>1. Counts \subseteq Nat
    BY FS_Subset, FS_CardinalityType DEF Tabled
  <2>2. Counts # {}
    OBVIOUS
  <2>. HIDE DEF Counts
  <2>. QED
    BY <2>1, <2>2, LeastNatural
<1>2. PICK T \in SUBSET S : Fails(T) /\ k = Cardinality(T)
  OBVIOUS
<1>3. Tabled(D, T)
  BY TabledPart
<1>4. T # {}
  <2>1. Pass(D, {}, P, cd, {})
    BY DEF Pass
  <2>. QED
    BY <2>1, <1>2
<1>5. PICK l \in T : \A x \in T : ~Before(D, l, x)
  BY <1>3, <1>4, LastCandidate
<1>. DEFINE Rest == T \ {l}
<1>6. ~Fails(Rest)
  <2>1. /\ Cardinality(Rest) < Cardinality(T)
        /\ Cardinality(Rest) \in Nat /\ Cardinality(T) \in Nat
    BY <1>3, StrictlyFewer DEF Tabled
  <2>2. ~(k <= Cardinality(Rest))
    BY <1>2, <2>1
  <2>3. Cardinality(Rest) \notin Counts
    BY <1>1, <2>2
  <2>. HIDE DEF Fails
  <2>. QED
    BY <2>3
<1>7. PICK R : Pass(D, Rest, P, cd, R)
  BY <1>6
<1>. DEFINE Now == IF Suppressed(D, l, {r \in R : Before(D, r, l)} \cup P, cd)
                   THEN R ELSE R \cup {l}
<1>8. ~Before(D, l, l) /\ l \notin R
  BY <1>5, <1>7 DEF Pass
<1>9. Now \subseteq T
  BY <1>7 DEF Pass
<1>10. \A c \in T : {r \in Now : Before(D, r, c)} = {r \in R : Before(D, r, c)}
  BY <1>5
<1>11. ASSUME NEW c \in T
       PROVE  c \in Now <=> ~Suppressed(D, c, {r \in Now : Before(D, r, c)} \cup P, cd)
  <2>1. CASE c = l
    BY <2>1, <1>8, <1>10
  <2>2. CASE c # l
    <3>1. c \in Now <=> c \in R
      BY <2>2
    <3>. HIDE DEF Now
    <3>. QED
      BY <2>2, <3>1, <1>7, <1>10 DEF Pass
  <2>. QED
    BY <2>1, <2>2
<1>12. Pass(D, T, P, cd, Now)
  BY <1>9, <1>11 DEF Pass
<1>. QED
  BY <1>2, <1>12

\* ... and one thing only: the first decision two of them differ in has the same past.
LEMMA PassUnique ==
    ASSUME NEW D, NEW P, NEW cd, NEW S, Tabled(D, S),
           NEW R, NEW Q, Pass(D, S, P, cd, R), Pass(D, S, P, cd, Q)
    PROVE  R = Q
<1>. DEFINE X == {c \in S : ~(c \in R <=> c \in Q)}
<1>. SUFFICES ASSUME X # {} PROVE FALSE
  BY DEF Pass
<1>1. Tabled(D, X)
  BY TabledPart
<1>2. PICK m \in X : \A x \in X : ~Before(D, x, m)
  <2>. HIDE DEF X
  <2>. QED
    BY <1>1, FirstCandidate
<1>3. {r \in R : Before(D, r, m)} = {r \in Q : Before(D, r, m)}
  BY <1>2 DEF Pass
<1>. QED
  BY <1>3 DEF Pass

\* Two alerts of a pass for one player are a cooldown apart.
LEMMA PassSpacing ==
    ASSUME NEW D, NEW P, NEW cd \in Int, NEW S, Tabled(D, S), NEW R, Pass(D, S, P, cd, R),
           NEW r \in R, NEW s \in R, r # s, Owner[r] = Owner[s]
    PROVE  D[s].ts - D[r].ts >= cd \/ D[r].ts - D[s].ts >= cd
<1>1. r \in S /\ s \in S
  BY DEF Pass
<1>2. D[r].ts \in Int /\ D[s].ts \in Int
  BY <1>1 DEF Tabled
<1>3. Before(D, r, s) => ~(D[s].ts - D[r].ts < cd)
  BY <1>1 DEF Pass, Suppressed
<1>4. Before(D, s, r) => ~(D[r].ts - D[s].ts < cd)
  BY <1>1 DEF Pass, Suppressed
<1>. QED
  BY <1>1, <1>2, <1>3, <1>4, BeforeIsOrder

\* Every candidate of a pass has an alert of its player, itself perhaps, less than a
\* cooldown before it.
LEMMA PassCovers ==
    ASSUME NEW D, NEW cd \in Int, cd > 0, NEW S, Tabled(D, S), NEW R, Pass(D, S, {}, cd, R),
           NEW c \in S
    PROVE  \E r \in R : /\ Owner[r] = Owner[c]
                        /\ D[r].ts <= D[c].ts
                        /\ D[c].ts - D[r].ts < cd
<1>1. D[c].ts \in Int
  BY DEF Tabled
<1>2. CASE c \in R
  BY <1>1, <1>2
<1>3. CASE c \notin R
  <2>1. PICK r \in R : Before(D, r, c) /\ Owner[r] = Owner[c] /\ D[c].ts - D[r].ts < cd
    BY <1>3 DEF Pass, Suppressed
  <2>2. r \in S
    BY DEF Pass
  <2>. QED
    BY <2>1, <2>2, BeforeIsOrder
<1>. QED
  BY <1>2, <1>3
-----------------------------------------------------------------------------
(* The two passes of the module, and counting.                             *)

LEMMA SimulatedPass ==
    ASSUME NEW D, NEW th, NEW cd, Tabled(D, Above(D, th))
    PROVE  Pass(D, Above(D, th), {}, cd, Simulated(D, th, cd))
<1>. DEFINE S == Above(D, th)
            Agrees(R) == \A c \in S : c \in R <=> ~Suppressed(D, c, {r \in R : Before(D, r, c)}, cd)
<1>1. Simulated(D, th, cd) = CHOOSE R \in SUBSET S : Agrees(R)
  BY DEF Simulated, RaisedBefore, Replayed
<1>2. \A R : Pass(D, S, {}, cd, R) <=> R \in SUBSET S /\ Agrees(R)
  <2>. SUFFICES ASSUME NEW R PROVE Pass(D, S, {}, cd, R) <=> R \in SUBSET S /\ Agrees(R)
    OBVIOUS
  <2>1. \A c : {r \in R : Before(D, r, c)} \cup {} = {r \in R : Before(D, r, c)}
    OBVIOUS
  <2>. QED
    BY <2>1 DEF Pass
<1>3. \E R \in SUBSET S : Agrees(R)
  BY <1>2, PassExists
<1>. HIDE DEF Agrees, S
<1>4. Simulated(D, th, cd) \in SUBSET S /\ Agrees(Simulated(D, th, cd))
  BY <1>1, <1>3
<1>. QED
  BY <1>2, <1>4 DEF S

LEMMA RaisedPass ==
    ASSUME NEW D, NEW S, Tabled(D, S)
    PROVE  Pass(D, S, sent, Cooldown, Raised(D, S))
<1>. DEFINE Agrees(R) ==
        \A c \in S : c \in R <=>
            ~Suppressed(D, c, {r \in R : Before(D, r, c)} \cup sent, Cooldown)
<1>1. Raised(D, S) = CHOOSE R \in SUBSET S : Agrees(R)
  BY DEF Raised, RaisedBefore, PriorAlerts
<1>2. \A R : Pass(D, S, sent, Cooldown, R) <=> R \in SUBSET S /\ Agrees(R)
  BY DEF Pass
<1>3. \E R \in SUBSET S : Agrees(R)
  BY <1>2, PassExists
<1>. HIDE DEF Agrees
<1>4. Raised(D, S) \in SUBSET S /\ Agrees(Raised(D, S))
  BY <1>1, <1>3
<1>. QED
  BY <1>2, <1>4

\* A set that maps one to one into another has no more elements.
LEMMA NoMoreThan ==
    ASSUME NEW A, NEW B, IsFiniteSet(A), IsFiniteSet(B),
           NEW f \in [A -> B], \A x, y \in A : f[x] = f[y] => x = y
    PROVE  Cardinality(A) <= Cardinality(B)
<1>1. Cardinality(A) \in Nat /\ Cardinality(B) \in Nat
  BY FS_CardinalityType
<1>2. ~(Cardinality(B) < Cardinality(A))
  BY FS_PigeonHole
<1>. QED
  BY <1>1, <1>2

\* A lower threshold never gives fewer alerts, on any table.
LEMMA FewerAbove ==
    ASSUME NEW D, NEW lo \in Int, NEW hi \in Int, lo <= hi, Tabled(D, DOMAIN D),
           NEW cd \in Int, cd > 0
    PROVE  Cardinality(Simulated(D, hi, cd)) <= Cardinality(Simulated(D, lo, cd))
<1>. DEFINE Hi == Simulated(D, hi, cd)
            Lo == Simulated(D, lo, cd)
            Near(c, r) == Owner[r] = Owner[c] /\ D[r].ts <= D[c].ts /\ D[c].ts - D[r].ts < cd
            f == [c \in Hi |-> CHOOSE r \in Lo : Near(c, r)]
<1>1. /\ Above(D, hi) \subseteq Above(D, lo)
      /\ Tabled(D, Above(D, hi)) /\ Tabled(D, Above(D, lo))
  <2>1. Above(D, hi) \subseteq Above(D, lo)
    BY DEF Above, Tabled
  <2>2. Above(D, hi) \subseteq DOMAIN D /\ Above(D, lo) \subseteq DOMAIN D
    BY DEF Above
  <2>. QED
    BY <2>1, <2>2, TabledPart
<1>2. Pass(D, Above(D, hi), {}, cd, Hi) /\ Pass(D, Above(D, lo), {}, cd, Lo)
  BY <1>1, SimulatedPass
<1>3. Hi \subseteq Above(D, hi) /\ Lo \subseteq Above(D, lo)
  BY <1>2 DEF Pass
<1>4. IsFiniteSet(Hi) /\ IsFiniteSet(Lo)
  BY <1>1, <1>3, FS_Subset DEF Tabled
<1>. HIDE DEF Hi, Lo
<1>5. \A c \in Hi : \E r \in Lo : Near(c, r)
  BY <1>1, <1>2, <1>3, PassCovers
<1>6. \A c \in Hi : f[c] \in Lo /\ Near(c, f[c])
  BY <1>5
<1>7. ASSUME NEW x \in Hi, NEW y \in Hi, f[x] = f[y] PROVE x = y
  <2>1. Near(x, f[x]) /\ Near(y, f[x]) /\ f[x] \in Lo
    BY <1>6, <1>7
  <2>2. D[x].ts \in Int /\ D[y].ts \in Int /\ D[f[x]].ts \in Int
    <3>. HIDE DEF f, Near
    <3>1. x \in Above(D, hi) /\ y \in Above(D, hi) /\ f[x] \in Above(D, lo)
      BY <1>3, <2>1
    <3>. QED
      BY <1>1, <3>1 DEF Tabled
  <2>3. ~(D[x].ts - D[y].ts >= cd) /\ ~(D[y].ts - D[x].ts >= cd)
    <3>1. /\ D[f[x]].ts <= D[x].ts /\ D[x].ts - D[f[x]].ts < cd
          /\ D[f[x]].ts <= D[y].ts /\ D[y].ts - D[f[x]].ts < cd
      BY <2>1
    <3>. HIDE DEF f
    <3>. QED
      BY <2>2, <3>1
  <2>. QED
    BY <1>1, <1>2, <2>1, <2>3, PassSpacing
<1>8. f \in [Hi -> Lo]
  BY <1>6
<1>. HIDE DEF f
<1>9. Cardinality(Hi) <= Cardinality(Lo)
  BY <1>4, <1>7, <1>8, NoMoreThan
<1>. QED
  BY <1>9 DEF Hi, Lo

-----------------------------------------------------------------------------
(* The threshold search.                                                   *)

\* The points of a search, in the form of its definition ...
Points(D, target, n, g) ==
    g = [i \in 0 .. n |-> IF i = 0 THEN SearchStart(D) ELSE Bisect(D, target, g[i - 1])]

\* ... of which there are some for any number of rounds.
LEMMA PointsExist ==
    ASSUME NEW D, NEW target, NEW n \in Nat
    PROVE  \E g : Points(D, target, n, g)
<1>. DEFINE Bad == {m \in Nat : \A g : ~Points(D, target, m, g)}
<1>. SUFFICES ASSUME Bad # {} PROVE FALSE
  OBVIOUS
<1>1. PICK m \in Bad : \A k \in Bad : m <= k
  <2>1. Bad \subseteq Nat
    OBVIOUS
  <2>. HIDE DEF Bad
  <2>. QED
    BY <2>1, LeastNatural
<1>2. m # 0
  <2>1. Points(D, target, 0, [i \in 0 .. 0 |-> SearchStart(D)])
    BY DEF Points
  <2>. QED
    BY <2>1
<1>3. m \in Nat /\ m - 1 \in Nat /\ m - 1 \notin Bad
  BY <1>1, <1>2
<1>4. PICK g : Points(D, target, m - 1, g)
  BY <1>3
<1>. DEFINE h == [i \in 0 .. m |-> IF i < m THEN g[i] ELSE Bisect(D, target, g[m - 1])]
<1>5. ASSUME NEW i \in 0 .. m
      PROVE  h[i] = IF i = 0 THEN SearchStart(D) ELSE Bisect(D, target, h[i - 1])
  <2>1. CASE i = m
    BY <1>2, <1>3, <2>1
  <2>2. CASE i < m
    <3>1. i \in 0 .. m - 1 /\ h[i] = g[i]
      BY <1>3, <2>2
    <3>2. g[i] = IF i = 0 THEN SearchStart(D) ELSE Bisect(D, target, g[i - 1])
      BY <1>4, <3>1 DEF Points
    <3>3. i # 0 => h[i - 1] = g[i - 1]
      BY <1>3, <2>2
    <3>. HIDE DEF h
    <3>. QED
      BY <3>1, <3>2, <3>3
  <2>. QED
    BY <1>3, <2>1, <2>2
<1>6. h = [i \in 0 .. m |-> h[i]]
  OBVIOUS
<1>. HIDE DEF h
<1>7. Points(D, target, m, h)
  BY <1>5, <1>6 DEF Points
<1>. QED
  BY <1>1, <1>7

LEMMA SearchPoints ==
    ASSUME NEW D, NEW target
    PROVE  /\ Search(D, target)[0] = SearchStart(D)
           /\ \A i \in 1 .. Rounds :
                 Search(D, target)[i] = Bisect(D, target, Search(D, target)[i - 1])
<1>. DEFINE F(g) ==
        g = [i \in 0 .. Rounds |-> IF i = 0 THEN SearchStart(D) ELSE Bisect(D, target, g[i - 1])]
<1>1. Search(D, target) = CHOOSE g : F(g)
  BY DEF Search
<1>2. Rounds \in Nat
  BY ScaleAssumption
<1>3. \E g : F(g)
  <2>1. PICK g : Points(D, target, Rounds, g)
    BY <1>2, PointsExist
  <2>2. F(g)
    BY <2>1 DEF Points
  <2>. QED
    BY <2>2
<1>. HIDE DEF F
<1>4. F(Search(D, target))
  BY <1>1, <1>3
<1>5. \A i \in 0 .. Rounds :
         Search(D, target)[i] = IF i = 0 THEN SearchStart(D)
                                ELSE Bisect(D, target, Search(D, target)[i - 1])
  BY <1>4 DEF F
<1>6. 0 \in 0 .. Rounds /\ \A i \in 1 .. Rounds : i \in 0 .. Rounds /\ i # 0
  BY <1>2
<1>. QED
  BY <1>5, <1>6

\* The lowest and the highest score of a table that is not empty.
LEMMA ScoreRange ==
    ASSUME NEW D, Tabled(D, DOMAIN D), DOMAIN D # {}
    PROVE  \E l, h \in DOMAIN D :
             /\ SearchStart(D).lo = D[l].score - 2 /\ SearchStart(D).hi = D[h].score + 2
             /\ \A c \in DOMAIN D : D[l].score <= D[c].score /\ D[c].score <= D[h].score
<1>. DEFINE T == DOMAIN D
            S == {D[c].score : c \in T}
            E == [c \in T |-> [ts |-> D[c].score, score |-> 0]]
<1>1. Tabled(E, T) /\ \A c \in T : D[c].score \in Int /\ E[c].ts = D[c].score
  BY DEF Tabled
<1>2. PICK l \in T : \A c \in T : ~Before(E, c, l)
  <2>. HIDE DEF E
  <2>. QED
    BY <1>1, FirstCandidate
<1>3. PICK h \in T : \A c \in T : ~Before(E, h, c)
  <2>. HIDE DEF E
  <2>. QED
    BY <1>1, LastCandidate
<1>4. \A c \in T : ~(E[c].ts < E[l].ts) /\ ~(E[h].ts < E[c].ts)
  BY <1>2, <1>3 DEF Before
<1>. HIDE DEF E
<1>5. \A c \in T : D[l].score <= D[c].score /\ D[c].score <= D[h].score
  BY <1>1, <1>4
<1>6. ASSUME NEW x \in S, \A y \in S : x <= y PROVE x = D[l].score
  <2>1. PICK c \in T : x = D[c].score
    BY <1>6
  <2>. QED
    BY <1>1, <1>5, <1>6, <2>1
<1>7. ASSUME NEW x \in S, \A y \in S : y <= x PROVE x = D[h].score
  <2>1. PICK c \in T : x = D[c].score
    BY <1>7
  <2>. QED
    BY <1>1, <1>5, <1>7, <2>1
<1>8. /\ D[l].score \in S /\ \A y \in S : D[l].score <= y
      /\ D[h].score \in S /\ \A y \in S : y <= D[h].score
  BY <1>5
<1>9. SearchStart(D).lo = Lowest(S) - 2 /\ SearchStart(D).hi = Highest(S) + 2
  BY DEF SearchStart
<1>. HIDE DEF S
<1>10. Lowest(S) = D[l].score
  BY <1>6, <1>8 DEF Lowest
<1>11. Highest(S) = D[h].score
  BY <1>7, <1>8 DEF Highest
<1>. QED
  BY <1>5, <1>9, <1>10, <1>11

\* Nothing found so far is closer to the target than n alerts.
Closest(target, best, n) ==
    best # {} /\ \A b \in best : Distance(b.alerts, target) <= Distance(n, target)

\* Between two ends that have been tried, or lie outside the scores, the one with too
\* many alerts and the other with no more than wanted.
SearchInv(D, target, width, s) ==
    /\ s.lo \in Int /\ s.hi \in Int /\ s.lo <= s.hi /\ s.hi - s.lo <= width
    /\ \A b \in s.best : b.alerts \in Nat
    /\ \A b, c \in s.best : b = c
    /\ \/ s.lo = SearchStart(D).lo
       \/ target < Alerts(D, s.lo) /\ Closest(target, s.best, Alerts(D, s.lo))
    /\ \/ s.hi = SearchStart(D).hi
       \/ Alerts(D, s.hi) <= target /\ Closest(target, s.best, Alerts(D, s.hi))

LEMMA BisectStep ==
    ASSUME NEW D, NEW target \in Int, \A th \in Int : Alerts(D, th) \in Nat,
           NEW width \in Nat, NEW half \in Nat, width <= 2 * half,
           NEW s, SearchInv(D, target, width, s)
    PROVE  SearchInv(D, target, half, Bisect(D, target, s))
<1>. DEFINE mid == (s.lo + s.hi) \div 2
            n == Alerts(D, mid)
            t == Bisect(D, target, s)
            here == [threshold |-> mid, alerts |-> n]
            better == \A b \in s.best : Better(target, n, b.alerts)
<1>1. /\ mid \in Int /\ s.lo <= mid /\ mid <= s.hi
      /\ mid - s.lo <= half /\ s.hi - mid <= half
  BY DEF SearchInv
<1>2. n \in Nat
  BY <1>1
<1>3. /\ t.lo = IF n > target THEN mid ELSE s.lo
      /\ t.hi = IF n > target THEN s.hi ELSE mid
      /\ t.best = IF better THEN {here} ELSE s.best
  BY DEF Bisect
<1>4. here.alerts = n
  OBVIOUS
<1>. HIDE DEF mid, n, t, here
<1>5. \A x, y \in Int : Distance(x, y) \in Nat
  BY DEF Distance
<1>6. (\A b \in t.best : b.alerts \in Nat) /\ (\A b, c \in t.best : b = c)
  BY <1>2, <1>3, <1>4 DEF SearchInv
<1>7. Closest(target, t.best, n)
  <2>1. CASE better
    BY <1>2, <1>3, <1>4, <1>5, <2>1 DEF Closest
  <2>2. CASE ~better
    <3>1. PICK b \in s.best : ~(Distance(n, target) < Distance(b.alerts, target))
      BY <2>2 DEF Better
    <3>2. t.best = {b} /\ b.alerts \in Nat
      BY <1>3, <2>2 DEF SearchInv
    <3>3. Distance(n, target) \in Nat /\ Distance(b.alerts, target) \in Nat
      BY <1>2, <3>2 DEF Distance
    <3>4. Distance(b.alerts, target) <= Distance(n, target)
      BY <3>1, <3>3
    <3>. QED
      BY <3>2, <3>4 DEF Closest
  <2>. QED
    BY <2>1, <2>2
<1>8. ASSUME NEW m \in Nat, Closest(target, s.best, m) PROVE Closest(target, t.best, m)
  <2>1. CASE better
    <3>1. PICK b \in s.best : Distance(b.alerts, target) <= Distance(m, target)
      BY <1>8 DEF Closest
    <3>2. Distance(n, target) < Distance(b.alerts, target) /\ b.alerts \in Nat
      BY <2>1 DEF Better, SearchInv
    <3>3. /\ Distance(n, target) \in Nat /\ Distance(m, target) \in Nat
          /\ Distance(b.alerts, target) \in Nat
      BY <1>2, <3>2 DEF Distance
    <3>4. Distance(n, target) <= Distance(m, target)
      BY <3>1, <3>2, <3>3
    <3>. QED
      BY <1>3, <1>4, <2>1, <3>4 DEF Closest
  <2>2. CASE ~better
    BY <1>3, <1>8, <2>2
  <2>. QED
    BY <2>1, <2>2
<1>9. CASE n > target
  <2>1. t.lo = mid /\ t.hi = s.hi
    BY <1>3, <1>9
  <2>2. target < Alerts(D, t.lo) /\ Closest(target, t.best, Alerts(D, t.lo))
    BY <1>2, <1>7, <1>9, <2>1 DEF n
  <2>3. \/ t.hi = SearchStart(D).hi
        \/ Alerts(D, t.hi) <= target /\ Closest(target, t.best, Alerts(D, t.hi))
    BY <1>8, <2>1 DEF SearchInv
  <2>. QED
    BY <1>1, <1>6, <2>1, <2>2, <2>3 DEF SearchInv, t
<1>10. CASE ~(n > target)
  <2>1. t.lo = s.lo /\ t.hi = mid
    BY <1>3, <1>10
  <2>2. Alerts(D, t.hi) <= target /\ Closest(target, t.best, Alerts(D, t.hi))
    BY <1>2, <1>7, <1>10, <2>1 DEF n
  <2>3. \/ t.lo = SearchStart(D).lo
        \/ target < Alerts(D, t.lo) /\ Closest(target, t.best, Alerts(D, t.lo))
    BY <1>8, <2>1 DEF SearchInv
  <2>. QED
    BY <1>1, <1>6, <2>1, <2>2, <2>3 DEF SearchInv, t
<1>. QED
  BY <1>9, <1>10

\* At the end no threshold is left between the two, and outside the scores the number
\* of alerts is that of an end.
LEMMA SearchEnd ==
    ASSUME NEW D, NEW target \in Int, \A th \in Int : Alerts(D, th) \in Nat,
           \A lo, hi \in Int : lo <= hi => Alerts(D, hi) <= Alerts(D, lo),
           NEW l \in Int, NEW h \in Int, l + 4 <= h,
           SearchStart(D).lo = l, SearchStart(D).hi = h,
           \A th \in Int : th <= l + 1 => Alerts(D, th) = Alerts(D, l),
           \A th \in Int : h - 1 <= th => Alerts(D, th) = Alerts(D, h),
           NEW s, SearchInv(D, target, 1, s), NEW th \in Int
    PROVE  Closest(target, s.best, Alerts(D, th))
<1>. DEFINE N(x) == Alerts(D, x)
<1>1. s.lo \in Int /\ s.hi \in Int /\ s.lo <= s.hi /\ s.hi - s.lo <= 1
  BY DEF SearchInv
<1>2. \A x \in Int : N(x) \in Nat
  OBVIOUS
<1>3. \A x, y \in Int : x <= y => N(y) <= N(x)
  OBVIOUS
<1>4. /\ \A x \in Int : x <= l + 1 => N(x) = N(l)
      /\ \A x \in Int : h - 1 <= x => N(x) = N(h)
  OBVIOUS
<1>5. \/ s.lo = l
      \/ target < N(s.lo) /\ Closest(target, s.best, N(s.lo))
  BY DEF SearchInv
<1>6. \/ s.hi = h
      \/ N(s.hi) <= target /\ Closest(target, s.best, N(s.hi))
  BY DEF SearchInv
<1>7. \A b \in s.best : b.alerts \in Nat
  BY DEF SearchInv
<1>. HIDE DEF N
<1>8. ASSUME NEW m \in Nat, NEW n \in Nat, Closest(target, s.best, m),
             Distance(m, target) <= Distance(n, target)
      PROVE  Closest(target, s.best, n)
  <2>1. \A b \in s.best : Distance(b.alerts, target) \in Nat
    BY <1>7 DEF Distance
  <2>2. Distance(m, target) \in Nat /\ Distance(n, target) \in Nat
    BY DEF Distance
  <2>. QED
    BY <1>8, <2>1, <2>2 DEF Closest
<1>9. CASE th <= s.lo /\ s.lo # l
  <2>1. N(s.lo) <= N(th) /\ N(th) \in Nat /\ N(s.lo) \in Nat
    BY <1>1, <1>2, <1>3, <1>9
  <2>2. Distance(N(s.lo), target) <= Distance(N(th), target)
    BY <1>5, <1>9, <2>1 DEF Distance
  <2>. QED
    BY <1>5, <1>8, <1>9, <2>1, <2>2 DEF N
<1>10. CASE th <= s.lo /\ s.lo = l
  <2>1. s.hi # h /\ s.hi <= l + 1 /\ th <= l + 1
    BY <1>1, <1>10
  <2>2. N(th) = N(s.hi)
    BY <1>1, <1>4, <2>1
  <2>. QED
    BY <1>6, <2>1, <2>2 DEF N
<1>11. CASE s.hi <= th /\ s.hi # h
  <2>1. N(th) <= N(s.hi) /\ N(th) \in Nat /\ N(s.hi) \in Nat
    BY <1>1, <1>2, <1>3, <1>11
  <2>2. Distance(N(s.hi), target) <= Distance(N(th), target)
    BY <1>6, <1>11, <2>1 DEF Distance
  <2>. QED
    BY <1>6, <1>8, <1>11, <2>1, <2>2 DEF N
<1>12. CASE s.hi <= th /\ s.hi = h
  <2>1. s.lo # l /\ h - 1 <= s.lo /\ h - 1 <= th
    BY <1>1, <1>12
  <2>2. N(th) = N(s.lo)
    BY <1>1, <1>4, <2>1
  <2>. QED
    BY <1>5, <2>1, <2>2 DEF N
<1>. QED
  BY <1>1, <1>9, <1>10, <1>11, <1>12

\* Enough bisections for the range of the scores: halving it Rounds times leaves one.
EnoughRounds ==
    \E w \in [0 .. Rounds -> Nat] :
        /\ \A m, n \in Scores : Scale * m - Scale * n + 4 <= w[0]
        /\ \A i \in 1 .. Rounds : w[i - 1] <= 2 * w[i]
        /\ w[Rounds] <= 1

\* Alerts are counted, and fall, on the whole table.
LEMMA AlertsCounted ==
    ASSUME NEW D, Tabled(D, DOMAIN D), NEW th
    PROVE  Alerts(D, th) \in Nat
<1>1. Above(D, th) \subseteq DOMAIN D
  BY DEF Above
<1>2. Tabled(D, Above(D, th))
  BY <1>1, TabledPart
<1>3. Simulated(D, th, Cooldown) \subseteq Above(D, th)
  BY <1>2, SimulatedPass DEF Pass
<1>4. IsFiniteSet(Simulated(D, th, Cooldown))
  BY <1>2, <1>3, FS_Subset DEF Tabled
<1>. QED
  BY <1>4, FS_CardinalityType DEF Alerts

\* A replay depends on the threshold only by the candidates it lets in.
LEMMA SameAbove ==
    ASSUME NEW D, Tabled(D, DOMAIN D), NEW x, NEW y, Above(D, x) = Above(D, y)
    PROVE  Alerts(D, x) = Alerts(D, y)
<1>1. Above(D, x) \subseteq DOMAIN D
  BY DEF Above
<1>2. Tabled(D, Above(D, x))
  BY <1>1, TabledPart
<1>3. /\ Pass(D, Above(D, x), {}, Cooldown, Simulated(D, x, Cooldown))
      /\ Pass(D, Above(D, x), {}, Cooldown, Simulated(D, y, Cooldown))
  BY <1>2, SimulatedPass
<1>4. Simulated(D, x, Cooldown) = Simulated(D, y, Cooldown)
  BY <1>2, <1>3, PassUnique
<1>. QED
  BY <1>4 DEF Alerts

\* The invariant holds from the first point to the last.
LEMMA SearchKeeps ==
    ASSUME NEW D, NEW target \in Int, \A th \in Int : Alerts(D, th) \in Nat,
           NEW w \in [0 .. Rounds -> Nat], \A i \in 1 .. Rounds : w[i - 1] <= 2 * w[i],
           SearchInv(D, target, w[0], SearchStart(D))
    PROVE  SearchInv(D, target, w[Rounds], Search(D, target)[Rounds])
<1>. DEFINE Good(i) == SearchInv(D, target, w[i], Search(D, target)[i])
            Bad == {i \in 0 .. Rounds : ~Good(i)}
<1>. SUFFICES ASSUME Bad # {} PROVE FALSE
  <2>1. Rounds \in 0 .. Rounds
    BY ScaleAssumption
  <2>. HIDE DEF Good
  <2>2. Bad = {} => Good(Rounds)
    BY <2>1
  <2>. QED
    BY <2>2 DEF Good
<1>1. PICK i \in Bad : \A j \in Bad : i <= j
  <2>1. Bad \subseteq Nat
    OBVIOUS
  <2>. HIDE DEF Bad
  <2>. QED
    BY <2>1, LeastNatural
<1>2. i # 0
  BY SearchPoints
<1>3. i \in 1 .. Rounds /\ i - 1 \in 0 .. Rounds /\ i - 1 \notin Bad
  BY <1>1, <1>2, ScaleAssumption
<1>4. Good(i - 1)
  BY <1>3
<1>5. w[i - 1] \in Nat /\ w[i] \in Nat /\ w[i - 1] <= 2 * w[i]
  BY <1>3
<1>6. Good(i)
  <2>1. Search(D, target)[i] = Bisect(D, target, Search(D, target)[i - 1])
    BY <1>3, SearchPoints
  <2>2. SearchInv(D, target, w[i], Bisect(D, target, Search(D, target)[i - 1]))
    BY <1>4, <1>5, BisectStep
  <2>. QED
    BY <2>1, <2>2
<1>. QED
  BY <1>6

\* With enough rounds nothing but the point found comes closer to the target.
LEMMA SearchFinds ==
    ASSUME NEW D, Tabled(D, DOMAIN D), DOMAIN D # {},
           \A c \in DOMAIN D : D[c].score \in {Scale * n : n \in Scores},
           EnoughRounds, NEW target \in Int, NEW th \in Int
    PROVE  Closest(target, Picked(D, target), Alerts(D, th))
<1>1. PICK w \in [0 .. Rounds -> Nat] :
            /\ \A m, n \in Scores : Scale * m - Scale * n + 4 <= w[0]
            /\ \A i \in 1 .. Rounds : w[i - 1] <= 2 * w[i]
            /\ w[Rounds] <= 1
  BY DEF EnoughRounds
<1>2. PICK lc, hc \in DOMAIN D :
            /\ SearchStart(D).lo = D[lc].score - 2 /\ SearchStart(D).hi = D[hc].score + 2
            /\ \A c \in DOMAIN D : D[lc].score <= D[c].score /\ D[c].score <= D[hc].score
  BY ScoreRange
<1>. DEFINE l == D[lc].score - 2
            h == D[hc].score + 2
<1>3. \A c \in DOMAIN D : D[c].score \in Int
  BY DEF Tabled
<1>4. l \in Int /\ h \in Int /\ l + 4 <= h /\ \A c \in DOMAIN D : l + 2 <= D[c].score /\ D[c].score <= h - 2
  BY <1>2, <1>3
<1>5. h - l <= w[0]
  <2>1. PICK m \in Scores : D[hc].score = Scale * m
    OBVIOUS
  <2>2. PICK n \in Scores : D[lc].score = Scale * n
    OBVIOUS
  <2>3. D[hc].score - D[lc].score + 4 <= w[0]
    BY <1>1, <2>1, <2>2
  <2>4. w[0] \in Nat
    BY ScaleAssumption
  <2>. QED
    BY <1>3, <2>3, <2>4
<1>6. /\ \A x \in Int : Alerts(D, x) \in Nat
      /\ \A x, y \in Int : x <= y => Alerts(D, y) <= Alerts(D, x)
  <2>1. Cooldown \in Int /\ Cooldown > 0
    BY PolicyAssumption
  <2>. QED
    BY <2>1, AlertsCounted, FewerAbove DEF Alerts
<1>7. SearchStart(D).lo = l /\ SearchStart(D).hi = h /\ SearchStart(D).best = {}
  BY <1>2 DEF SearchStart
<1>. HIDE DEF l, h
<1>8. ASSUME NEW x \in Int, x <= l + 1 PROVE Alerts(D, x) = Alerts(D, l)
  <2>1. Above(D, x) = Above(D, l)
    BY <1>3, <1>4, <1>8 DEF Above
  <2>. QED
    BY <2>1, SameAbove
<1>9. ASSUME NEW x \in Int, h - 1 <= x PROVE Alerts(D, x) = Alerts(D, h)
  <2>1. Above(D, x) = Above(D, h)
    BY <1>3, <1>4, <1>9 DEF Above
  <2>. QED
    BY <2>1, SameAbove
<1>10. SearchInv(D, target, w[0], SearchStart(D))
  BY <1>4, <1>5, <1>7 DEF SearchInv
<1>11. SearchInv(D, target, w[Rounds], Search(D, target)[Rounds])
  BY <1>1, <1>6, <1>10, SearchKeeps
<1>12. SearchInv(D, target, 1, Search(D, target)[Rounds])
  <2>1. w[Rounds] \in Nat
    BY ScaleAssumption
  <2>. QED
    BY <1>1, <1>11, <2>1 DEF SearchInv
<1>. QED
  BY <1>4, <1>6, <1>7, <1>8, <1>9, <1>12, SearchEnd DEF Picked

-----------------------------------------------------------------------------
(* The inductive invariant: however they are cut into batches, what has been *)
(* sent is one pass over all candidates in the order of their scoring.       *)

Constants ==
    /\ Candidates \subseteq Nat /\ IsFiniteSet(Candidates)
    /\ MaxLag \in Nat /\ Cooldown \in Nat /\ MaxLag < Cooldown
    /\ Scale \in Nat /\ Scores \subseteq Nat /\ MaxTime \in Nat

LEMMA ConstantsHold == Constants
BY CandidatesAssumption, PolicyAssumption, ScaleAssumption DEF Constants

TableInv ==
    /\ now \in Int /\ threshold \in Int
    /\ DOMAIN scored \subseteq Candidates
    /\ \A c \in DOMAIN scored :
        /\ scored[c].ts \in Int /\ scored[c].at \in Int /\ scored[c].score \in Int
        /\ scored[c].score \in {Scale * n : n \in Scores}
        /\ scored[c].ts <= scored[c].at /\ scored[c].at <= scored[c].ts + MaxLag
        /\ scored[c].at <= now

ServedInv == Pass(Served(scored), Above(scored, threshold), {}, Cooldown, sent)

IInv == TableInv /\ ServedInv

LEMMA AboveTabled ==
    ASSUME TableInv, NEW th
    PROVE  /\ Tabled(Served(scored), Above(scored, th))
           /\ Tabled(Split, Above(Split, th))
           /\ Above(Split, th) = Above(scored, th)
           /\ Tabled(Split, DOMAIN Split) /\ IsFiniteSet(DOMAIN scored)
<1>1. IsFiniteSet(DOMAIN scored) /\ DOMAIN scored \subseteq Nat
  BY ConstantsHold, FS_Subset DEF Constants, TableInv
<1>2. Above(scored, th) \subseteq DOMAIN scored /\ Above(Split, th) = Above(scored, th)
  BY DEF Above, Split
<1>3. IsFiniteSet(Above(scored, th))
  BY <1>1, <1>2, FS_Subset
<1>. QED
  BY <1>1, <1>2, <1>3 DEF Tabled, Served, Split, TableInv

LEMMA InitInv == Init => IInv
<1>. SUFFICES ASSUME Init PROVE IInv
  OBVIOUS
<1>1. DOMAIN scored = {} /\ now = -1 /\ sent = {}
  BY DEF Init, Empty
<1>2. threshold \in Int
  <2>1. PICK n \in Scores : threshold = Scale * n
    BY DEF Init
  <2>. QED
    BY <2>1, ConstantsHold DEF Constants
<1>3. TableInv
  BY <1>1, <1>2 DEF TableInv
<1>4. ServedInv
  BY <1>1 DEF ServedInv, Pass, Above
<1>. QED
  BY <1>3, <1>4 DEF IInv

\* A batch of candidates that were not scored before.
Batch(B, at) ==
    /\ DOMAIN B \subseteq Candidates \ DOMAIN scored
    /\ \A c \in DOMAIN B :
        /\ B[c].ts \in Int /\ B[c].at = at /\ B[c].score \in Int
        /\ B[c].score \in {Scale * n : n \in Scores}
        /\ B[c].ts <= at /\ at <= B[c].ts + MaxLag

LEMMA BatchesFit ==
    ASSUME NEW S \in SUBSET (Candidates \ DOMAIN scored), NEW at \in 0 .. MaxTime,
           NEW B \in Batches(S, at)
    PROVE  Batch(B, at)
<1>1. DOMAIN B = S
  BY DEF Batches
<1>2. ASSUME NEW c \in S
      PROVE  /\ B[c].ts \in Int /\ B[c].at = at /\ B[c].score \in Int
             /\ B[c].score \in {Scale * n : n \in Scores}
             /\ B[c].ts <= at /\ at <= B[c].ts + MaxLag
  <2>1. B[c] \in [ts : {t \in 0 .. at : at - MaxLag <= t}, at : {at},
                  score : {Scale * n : n \in Scores}]
    BY DEF Batches
  <2>2. B[c].ts \in 0 .. at /\ at - MaxLag <= B[c].ts /\ B[c].at = at
        /\ B[c].score \in {Scale * n : n \in Scores}
    BY <2>1
  <2>3. B[c].score \in Int
    BY <2>2, ConstantsHold DEF Constants
  <2>. QED
    BY <2>2, <2>3, ConstantsHold DEF Constants
<1>. QED
  BY <1>1, <1>2 DEF Batch

LEMMA TableStep ==
    ASSUME TableInv, NEW at \in 0 .. MaxTime, NEW B, Batch(B, at), ScoreBatch(B, at)
    PROVE  /\ TableInv'
           /\ threshold' = threshold /\ now < at
           /\ DOMAIN scored' = DOMAIN scored \cup DOMAIN B
           /\ \A c \in DOMAIN scored : scored'[c] = scored[c]
           /\ \A c \in DOMAIN B : scored'[c] = B[c]
<1>1. /\ threshold' = threshold /\ now < at /\ now' = at /\ at \in Int
      /\ DOMAIN scored' = DOMAIN scored \cup DOMAIN B
      /\ \A c \in DOMAIN scored' : scored'[c] = IF c \in DOMAIN B THEN B[c] ELSE scored[c]
  BY ConstantsHold DEF ScoreBatch, Constants
<1>2. \A c \in DOMAIN scored : c \notin DOMAIN B
  BY DEF Batch
<1>3. /\ \A c \in DOMAIN scored : scored'[c] = scored[c]
      /\ \A c \in DOMAIN B : scored'[c] = B[c]
  BY <1>1, <1>2
<1>4. ASSUME NEW c \in DOMAIN scored'
      PROVE  /\ scored'[c].ts \in Int /\ scored'[c].at \in Int /\ scored'[c].score \in Int
             /\ scored'[c].score \in {Scale * n : n \in Scores}
             /\ scored'[c].ts <= scored'[c].at /\ scored'[c].at <= scored'[c].ts + MaxLag
             /\ scored'[c].at <= now'
  <2>1. CASE c \in DOMAIN B
    BY <1>1, <1>3, <2>1 DEF Batch
  <2>2. CASE c \in DOMAIN scored
    BY <1>1, <1>3, <2>2, ConstantsHold DEF TableInv, Constants
  <2>. QED
    BY <1>1, <2>1, <2>2
<1>5. DOMAIN scored' \subseteq Candidates
  BY <1>1 DEF Batch, TableInv
<1>6. TableInv'
  BY <1>1, <1>4, <1>5 DEF TableInv
<1>. QED
  BY <1>1, <1>3, <1>6
\* A batch continues the pass: all that was sent before it comes before its candidates.
LEMMA ServedStep ==
    ASSUME TableInv, ServedInv, NEW at \in 0 .. MaxTime, NEW B, Batch(B, at),
           ScoreBatch(B, at)
    PROVE  ServedInv' /\ sent' \subseteq sent \cup AlertCandidates(B) /\ sent \subseteq sent'
<1>. DEFINE Old == Above(scored, threshold)
            New == AlertCandidates(B)
            Done == Served(scored)
            All == Served(scored')
            Now == Raised(All, New)
<1>1. /\ TableInv' /\ threshold' = threshold /\ now < at
      /\ DOMAIN scored' = DOMAIN scored \cup DOMAIN B
      /\ \A c \in DOMAIN scored : scored'[c] = scored[c]
      /\ \A c \in DOMAIN B : scored'[c] = B[c]
  BY TableStep
<1>2. Above(scored', threshold) = Old \cup New
  BY <1>1 DEF Above, AlertCandidates
<1>3. Old \subseteq DOMAIN scored /\ New \subseteq DOMAIN B
  BY DEF Above, AlertCandidates
<1>4. /\ \A c \in Old : All[c] = Done[c] /\ All[c].ts <= now /\ All[c].ts \in Int
      /\ \A c \in New : All[c].ts = at
      /\ at \in Int /\ now \in Int
  BY <1>1, <1>3, ConstantsHold DEF Served, TableInv, Batch, Constants
<1>5. Tabled(All, Old \cup New)
  <2>1. Old \cup New \subseteq DOMAIN scored' /\ DOMAIN scored' \subseteq Candidates
    BY <1>1, <1>3 DEF TableInv
  <2>2. IsFiniteSet(Old \cup New) /\ Old \cup New \subseteq Nat
    BY <2>1, ConstantsHold, FS_Subset DEF Constants
  <2>3. \A c \in DOMAIN scored' : All[c].ts \in Int /\ All[c].score \in Int
    BY <1>1 DEF TableInv, Served
  <2>. HIDE DEF Old, New, All
  <2>. QED
    BY <2>1, <2>2, <2>3 DEF Tabled
<1>6. sent' = sent \cup Now
  BY <1>1 DEF ScoreBatch
<1>7. Pass(All, New, sent, Cooldown, Now)
  BY <1>5, TabledPart, RaisedPass
<1>8. sent \subseteq Old /\ Now \subseteq New
  BY <1>7 DEF ServedInv, Pass
<1>9. /\ \A c \in Old, r \in New : ~Before(All, r, c) /\ Before(All, c, r)
      /\ \A c, r \in Old : Before(All, r, c) <=> Before(Done, r, c)
  BY <1>1, <1>4 DEF Before
<1>. HIDE DEF Old, New, Done, All, Now
<1>10. ASSUME NEW c \in Old
       PROVE  c \in sent \cup Now <=>
                 ~Suppressed(All, c, {r \in sent \cup Now : Before(All, r, c)} \cup {}, Cooldown)
  <2>1. {r \in sent \cup Now : Before(All, r, c)} \cup {} = {r \in sent : Before(Done, r, c)}
    BY <1>8, <1>9
  <2>2. c \in sent <=> ~Suppressed(Done, c, {r \in sent : Before(Done, r, c)}, Cooldown)
    <3>1. {r \in sent : Before(Done, r, c)} \cup {} = {r \in sent : Before(Done, r, c)}
      OBVIOUS
    <3>. QED
      BY <3>1 DEF ServedInv, Pass, Old, Done
  <2>3. Suppressed(All, c, {r \in sent : Before(Done, r, c)}, Cooldown)
          <=> Suppressed(Done, c, {r \in sent : Before(Done, r, c)}, Cooldown)
    BY <1>4, <1>8 DEF Suppressed
  <2>4. c \notin Now
    BY <1>3, <1>8 DEF Batch
  <2>. QED
    BY <2>1, <2>2, <2>3, <2>4
<1>11. ASSUME NEW c \in New
       PROVE  c \in sent \cup Now <=>
                 ~Suppressed(All, c, {r \in sent \cup Now : Before(All, r, c)} \cup {}, Cooldown)
  <2>1. {r \in sent \cup Now : Before(All, r, c)} \cup {}
          = {r \in Now : Before(All, r, c)} \cup sent
    BY <1>8, <1>9
  <2>2. c \in Now <=>
          ~Suppressed(All, c, {r \in Now : Before(All, r, c)} \cup sent, Cooldown)
    BY <1>7 DEF Pass
  <2>3. c \notin sent
    BY <1>3, <1>8 DEF Batch
  <2>. QED
    BY <2>1, <2>2, <2>3
<1>12. Pass(All, Old \cup New, {}, Cooldown, sent \cup Now)
  BY <1>8, <1>10, <1>11 DEF Pass
<1>13. Served(scored)' = All
  BY DEF All, Served
<1>14. ServedInv'
  BY <1>1, <1>2, <1>6, <1>12, <1>13 DEF ServedInv
<1>. QED
  BY <1>6, <1>8, <1>14 DEF New

LEMMA Inductive == Spec => []IInv
<1>1. IInv /\ [Next]_vars => IInv'
  <2>. SUFFICES ASSUME IInv, [Next]_vars PROVE IInv'
    OBVIOUS
  <2>1. CASE Next
    <3>1. PICK S \in SUBSET (Candidates \ DOMAIN scored), at \in 0 .. MaxTime :
                 \E B \in Batches(S, at) : ScoreBatch(B, at)
      BY <2>1 DEF Next
    <3>2. PICK B \in Batches(S, at) : ScoreBatch(B, at)
      BY <3>1
    <3>3. Batch(B, at)
      BY BatchesFit
    <3>. QED
      BY <3>2, <3>3, TableStep, ServedStep DEF IInv
  <2>2. CASE UNCHANGED vars
    BY <2>2 DEF vars, IInv, TableInv, ServedInv, Served
  <2>. QED
    BY <2>1, <2>2
<1>. QED
  BY <1>1, InitInv, PTL DEF Spec

-----------------------------------------------------------------------------
(* The theorems.                                                           *)

\* A lower threshold never gives fewer alerts.
THEOREM AlertsFall == Spec => []AlertsFallWithThreshold
<1>1. IInv => AlertsFallWithThreshold
  <2>. SUFFICES ASSUME IInv, NEW th \in Thresholds, threshold <= th
                PROVE  Alerts(Split, th) <= Alerts(Split, threshold)
    BY DEF AlertsFallWithThreshold
  <2>1. th \in Int
    <3>1. PICK n \in Scores, d \in {0, 1} : th = Scale * n + d
      BY DEF Thresholds
    <3>. QED
      BY <3>1, ConstantsHold DEF Constants
  <2>2. threshold \in Int /\ Tabled(Split, DOMAIN Split)
    BY AboveTabled DEF IInv, TableInv
  <2>3. Cooldown \in Int /\ Cooldown > 0
    BY ConstantsHold DEF Constants
  <2>. QED
    BY <2>1, <2>2, <2>3, FewerAbove DEF Alerts
<1>. QED
  BY <1>1, Inductive, PTL

\* However the candidates are cut into batches and whatever a batch reads back from
\* state.db, the scorer sends what one replay over the times of scoring would raise.
THEOREM BatchesMakeOnePass == Spec => [](sent = Simulated(Served(scored), threshold, Cooldown))
<1>1. IInv => sent = Simulated(Served(scored), threshold, Cooldown)
  <2>. SUFFICES ASSUME IInv PROVE sent = Simulated(Served(scored), threshold, Cooldown)
    OBVIOUS
  <2>. DEFINE S == Above(scored, threshold)
              D == Served(scored)
  <2>1. Tabled(D, S)
    BY AboveTabled DEF IInv
  <2>2. Above(D, threshold) = S
    BY DEF Above, Served
  <2>3. Pass(D, S, {}, Cooldown, sent)
    BY DEF IInv, ServedInv
  <2>. HIDE DEF S, D
  <2>4. Pass(D, S, {}, Cooldown, Simulated(D, threshold, Cooldown))
    BY <2>1, <2>2, SimulatedPass
  <2>5. sent = Simulated(D, threshold, Cooldown)
    BY <2>1, <2>3, <2>4, PassUnique
  <2>. QED
    BY <2>5 DEF D
<1>. QED
  BY <1>1, Inductive, PTL

\* Two alerts of a player are a cooldown apart.
SentApart ==
    \A r, s \in sent : r # s /\ Owner[r] = Owner[s]
        => scored[s].at - scored[r].at >= Cooldown \/ scored[r].at - scored[s].at >= Cooldown

\* Every candidate at the threshold was raised, or came less than a cooldown after an
\* alert of its player.
CandidatesAnswered ==
    \A c \in Above(scored, threshold) : \E r \in sent :
        /\ Owner[r] = Owner[c]
        /\ scored[r].at <= scored[c].at /\ scored[c].at - scored[r].at < Cooldown

\* In the scorer the cooldown suppresses as much as it should and no more, over any
\* sequence of batches.
THEOREM CooldownExact == Spec => [](SentApart /\ CandidatesAnswered)
<1>1. IInv => SentApart /\ CandidatesAnswered
  <2>. SUFFICES ASSUME IInv PROVE SentApart /\ CandidatesAnswered
    OBVIOUS
  <2>. DEFINE S == Above(scored, threshold)
              D == Served(scored)
  <2>1. Tabled(D, S) /\ S \subseteq DOMAIN scored
    BY AboveTabled DEF IInv, Above
  <2>2. Pass(D, S, {}, Cooldown, sent) /\ sent \subseteq S
    BY DEF IInv, ServedInv, Pass
  <2>3. \A c \in DOMAIN scored : D[c].ts = scored[c].at
    BY DEF Served
  <2>4. Cooldown \in Int /\ Cooldown > 0
    BY ConstantsHold DEF Constants
  <2>. HIDE DEF S, D
  <2>5. SentApart
    <3>. SUFFICES ASSUME NEW r \in sent, NEW s \in sent, r # s, Owner[r] = Owner[s]
                  PROVE  \/ scored[s].at - scored[r].at >= Cooldown
                         \/ scored[r].at - scored[s].at >= Cooldown
      BY DEF SentApart
    <3>1. D[s].ts - D[r].ts >= Cooldown \/ D[r].ts - D[s].ts >= Cooldown
      BY <2>1, <2>2, <2>4, PassSpacing
    <3>. QED
      BY <2>1, <2>2, <2>3, <3>1
  <2>6. CandidatesAnswered
    <3>. SUFFICES ASSUME NEW c \in S
                  PROVE  \E r \in sent :
                            /\ Owner[r] = Owner[c]
                            /\ scored[r].at <= scored[c].at
                            /\ scored[c].at - scored[r].at < Cooldown
      BY DEF CandidatesAnswered, S
    <3>1. PICK r \in sent : /\ Owner[r] = Owner[c] /\ D[r].ts <= D[c].ts
                            /\ D[c].ts - D[r].ts < Cooldown
      BY <2>1, <2>2, <2>4, PassCovers
    <3>2. D[r].ts = scored[r].at /\ D[c].ts = scored[c].at
      BY <2>1, <2>2, <2>3
    <3>. QED
      BY <3>1, <3>2
  <2>. QED
    BY <2>5, <2>6
<1>. QED
  BY <1>1, Inductive, PTL

\* The choice AllowedRaises of module Scorer, on this module's state: of the candidates C
\* of a batch scored at the time `at` those of R are raised.
AllowedRaise(C, R, at) ==
    LET Cooling(p) == \E r \in sent : Owner[r] = p /\ at - scored[r].at < Cooldown
    IN  /\ R \subseteq C
        /\ \A b \in R : ~Cooling(Owner[b])
        /\ \A b, c \in R : Owner[b] = Owner[c] => b = c
        /\ \A b \in C : Cooling(Owner[b]) \/ \E c \in R : Owner[c] = Owner[b]

\* Every batch raises an allowed choice of its candidates, decided on the alerts that
\* were sent before it.
RaisesAreAllowed ==
    [][AllowedRaise(Above(scored', threshold) \ DOMAIN scored, sent' \ sent, now')]_vars

\* Two rows scored in the same batch are not a cooldown apart.
LEMMA NoTimePasses ==
    ASSUME NEW t \in Int, NEW w \in Int, w > 0
    PROVE  ~(t - t >= w)
OBVIOUS

\* The batch raises new candidates only: none near an alert already sent, no two of one
\* player, and no player left without one unless it is in cooldown.
LEMMA RaisesStep ==
    ASSUME IInv, IInv', SentApart', CandidatesAnswered', Next
    PROVE  AllowedRaise(Above(scored', threshold) \ DOMAIN scored, sent' \ sent, now')
<1>. DEFINE C == Above(scored', threshold) \ DOMAIN scored
            R == sent' \ sent
            Cooling(p) == \E r \in sent : Owner[r] = p /\ now' - scored[r].at < Cooldown
<1>1. PICK S \in SUBSET (Candidates \ DOMAIN scored), at \in 0 .. MaxTime :
             \E B \in Batches(S, at) : ScoreBatch(B, at)
  BY DEF Next
<1>2. PICK B \in Batches(S, at) : ScoreBatch(B, at)
  BY <1>1
<1>3. Batch(B, at)
  BY BatchesFit
<1>4. /\ threshold' = threshold /\ now < now' /\ now' = at
      /\ DOMAIN scored' = DOMAIN scored \cup DOMAIN B
      /\ \A c \in DOMAIN scored : scored'[c] = scored[c]
      /\ \A c \in DOMAIN B : scored'[c] = B[c]
  BY <1>2, <1>3, TableStep DEF IInv, ScoreBatch
<1>5. /\ sent' \subseteq sent \cup AlertCandidates(B) /\ sent \subseteq sent'
  BY <1>2, <1>3, ServedStep DEF IInv
<1>6. sent \subseteq DOMAIN scored
  BY DEF IInv, ServedInv, Pass, Above
<1>7. /\ now \in Int /\ now' \in Int /\ Cooldown \in Int /\ Cooldown > 0
      /\ \A r \in sent : /\ scored[r].at \in Int /\ scored[r].at <= now
                         /\ scored'[r].at = scored[r].at
  BY <1>4, <1>6, ConstantsHold DEF IInv, TableInv, Constants
<1>8. /\ R \subseteq C
      /\ \A c \in C : scored'[c].at = now'
  BY <1>3, <1>4, <1>5 DEF Above, AlertCandidates, Batch
<1>9. ASSUME NEW b \in R PROVE ~Cooling(Owner[b])
  <2>. SUFFICES ASSUME NEW r \in sent, Owner[r] = Owner[b], now' - scored[r].at < Cooldown
                PROVE  FALSE
    OBVIOUS
  <2>1. r # b /\ r \in sent' /\ b \in sent'
    BY <1>5
  <2>2. \/ scored'[b].at - scored'[r].at >= Cooldown
        \/ scored'[r].at - scored'[b].at >= Cooldown
    BY <2>1 DEF SentApart
  <2>3. scored'[b].at = now' /\ scored'[r].at = scored[r].at
    BY <1>7, <1>8
  <2>. QED
    BY <1>4, <1>7, <2>2, <2>3
<1>10. ASSUME NEW b \in R, NEW c \in R, Owner[b] = Owner[c] PROVE b = c
  <2>. SUFFICES ASSUME b # c PROVE FALSE
    OBVIOUS
  <2>1. \/ scored'[c].at - scored'[b].at >= Cooldown
        \/ scored'[b].at - scored'[c].at >= Cooldown
    BY <1>10 DEF SentApart
  <2>2. scored'[b].at = now' /\ scored'[c].at = now'
    BY <1>8
  <2>3. now' - now' >= Cooldown
    BY <2>1, <2>2
  <2>4. ~(now' - now' >= Cooldown)
    BY <1>7, NoTimePasses
  <2>. QED
    BY <2>3, <2>4
<1>11. ASSUME NEW b \in C PROVE Cooling(Owner[b]) \/ \E c \in R : Owner[c] = Owner[b]
  <2>1. b \in Above(scored', threshold')
    BY <1>4 DEF Above
  <2>2. PICK r \in sent' : Owner[r] = Owner[b] /\ scored'[b].at - scored'[r].at < Cooldown
    BY <2>1 DEF CandidatesAnswered
  <2>3. CASE r \in sent
    BY <1>7, <1>8, <2>2, <2>3
  <2>4. CASE r \in R
    BY <2>2, <2>4
  <2>. QED
    BY <2>3, <2>4
<1>. HIDE DEF R, C
<1>. QED
  BY <1>8, <1>9, <1>10, <1>11 DEF AllowedRaise, R, C

\* A batch of the policy is a choice that module Scorer allows: one representative of
\* every player out of cooldown, and nobody else's.
THEOREM PolicyChooses == Spec => RaisesAreAllowed
<1>1. IInv /\ IInv' /\ (SentApart /\ CandidatesAnswered)' /\ [Next]_vars
        => [AllowedRaise(Above(scored', threshold) \ DOMAIN scored, sent' \ sent, now')]_vars
  BY RaisesStep
<1>. QED
  BY <1>1, Inductive, CooldownExact, PTL DEF Spec, RaisesAreAllowed

\* With one lag for all bets the times of the two passes differ by a constant, so they
\* raise the same alerts.
THEOREM ReplayAgrees == Spec => []ReplayAgreesAtOneLag
<1>1. IInv => ReplayAgreesAtOneLag
  <2>. SUFFICES ASSUME IInv,
                       \A c, d \in DOMAIN scored :
                           scored[c].at - scored[c].ts = scored[d].at - scored[d].ts
                PROVE  sent = Simulated(Split, threshold, Cooldown)
    BY DEF ReplayAgreesAtOneLag
  <2>. DEFINE S == Above(scored, threshold)
              D == Served(scored)
  <2>1. /\ Tabled(D, S) /\ Tabled(Split, S) /\ Above(Split, threshold) = S
        /\ S \subseteq DOMAIN scored
    BY AboveTabled DEF IInv, Above
  <2>2. Pass(Split, S, {}, Cooldown, Simulated(Split, threshold, Cooldown))
    BY <2>1, SimulatedPass
  <2>3. /\ \A c, d \in S : D[c].ts - D[d].ts = Split[c].ts - Split[d].ts
        /\ \A c, d \in S : D[c].ts < D[d].ts <=> Split[c].ts < Split[d].ts
        /\ \A c, d \in S : D[c].ts = D[d].ts <=> Split[c].ts = Split[d].ts
        /\ \A c \in S : D[c].score = Split[c].score
    <3>1. \A c \in S : /\ D[c].ts = scored[c].at /\ Split[c].ts = scored[c].ts
                        /\ D[c].score = Split[c].score
                        /\ scored[c].at \in Int /\ scored[c].ts \in Int
      BY <2>1 DEF Served, Split, IInv, TableInv
    <3>2. \A c, d \in S : scored[c].at - scored[c].ts = scored[d].at - scored[d].ts
      BY <2>1
    <3>. HIDE DEF S, D
    <3>. QED
      BY <3>1, <3>2
  <2>4. \A c, d \in S : Before(D, c, d) <=> Before(Split, c, d)
    BY <2>3 DEF Before
  <2>5. Pass(D, S, {}, Cooldown, sent)
    BY DEF IInv, ServedInv
  <2>. HIDE DEF S, D
  <2>6. sent \subseteq S
    BY <2>5 DEF Pass
  <2>7. \A c \in S : {r \in sent : Before(D, r, c)} = {r \in sent : Before(Split, r, c)}
    BY <2>4, <2>6
  <2>8. ASSUME NEW c \in S, NEW R \in SUBSET S
        PROVE  Suppressed(D, c, R \cup {}, Cooldown) <=> Suppressed(Split, c, R \cup {}, Cooldown)
    BY <2>3 DEF Suppressed
  <2>9. Pass(Split, S, {}, Cooldown, sent)
    <3>. SUFFICES ASSUME NEW c \in S
                  PROVE  c \in sent <=>
                     ~Suppressed(Split, c, {r \in sent : Before(Split, r, c)} \cup {}, Cooldown)
      BY <2>6 DEF Pass
    <3>. DEFINE R == {r \in sent : Before(D, r, c)}
    <3>1. c \in sent <=> ~Suppressed(D, c, R \cup {}, Cooldown)
      BY <2>5 DEF Pass
    <3>2. R \in SUBSET S /\ R = {r \in sent : Before(Split, r, c)}
      BY <2>6, <2>7
    <3>. HIDE DEF R
    <3>. QED
      BY <2>8, <3>1, <3>2
  <2>. QED
    BY <2>1, <2>2, <2>9, PassUnique
<1>. QED
  BY <1>1, Inductive, PTL

\* The alerts of one player, in two passes R and Q over the candidates S: each alert of
\* Q is near one of R, and two alerts of Q are never near the same, so R has as many.
LEMMA PlayerCount ==
    ASSUME NEW S, IsFiniteSet(S), NEW R \in SUBSET S, NEW Q \in SUBSET S, NEW p,
           NEW ts, NEW cd,
           \A q \in Q : \E r \in R : Owner[r] = Owner[q] /\ ts[r] <= ts[q] /\ ts[q] - ts[r] < cd,
           \A q, s \in Q : \A r \in R :
               /\ Owner[q] = Owner[s]
               /\ ts[r] <= ts[q] /\ ts[q] - ts[r] < cd
               /\ ts[r] <= ts[s] /\ ts[s] - ts[r] < cd
               => q = s
    PROVE  CountOf(Q, p) <= CountOf(R, p)
<1>. DEFINE A == {c \in Q : Owner[c] = p}
            B == {c \in R : Owner[c] = p}
            Near(q, r) == ts[r] <= ts[q] /\ ts[q] - ts[r] < cd
            f == [q \in A |-> CHOOSE r \in B : Near(q, r)]
<1>1. IsFiniteSet(A) /\ IsFiniteSet(B)
  BY FS_Subset
<1>2. \A q \in A : \E r \in B : Near(q, r)
  OBVIOUS
<1>3. \A q \in A : f[q] \in B /\ Near(q, f[q])
  BY <1>2
<1>4. \A q, s \in A : \A r \in B : Near(q, r) /\ Near(s, r) => q = s
  OBVIOUS
<1>. HIDE DEF A, B, Near
<1>5. f \in [A -> B]
  BY <1>3
<1>6. \A q, s \in A : f[q] = f[s] => q = s
  BY <1>3, <1>4
<1>. HIDE DEF f
<1>7. Cardinality(A) <= Cardinality(B)
  BY <1>1, <1>5, <1>6, NoMoreThan
<1>. QED
  BY <1>7 DEF A, B, CountOf

\* Player by player, the alerts of the scorer lie between those of the two replays.
THEOREM Bracketed == Spec => []ReplayBracketsServing
<1>1. IInv => ReplayBracketsServing
  <2>. DEFINE S == Above(scored, threshold)
              D == Served(scored)
              Fewer == Simulated(Split, threshold, Cooldown + MaxLag)
              More == Simulated(Split, threshold, Cooldown - MaxLag)
              at == [c \in S |-> scored[c].at]
              ts == [c \in S |-> scored[c].ts]
  <2>. SUFFICES ASSUME IInv, NEW p
                PROVE  CountOf(Fewer, p) <= CountOf(sent, p) /\ CountOf(sent, p) <= CountOf(More, p)
    BY DEF ReplayBracketsServing
  <2>1. /\ Cooldown \in Int /\ MaxLag \in Int /\ 0 <= MaxLag
        /\ Cooldown > 0 /\ Cooldown - MaxLag > 0 /\ Cooldown + MaxLag > 0
        /\ Cooldown + MaxLag \in Int /\ Cooldown - MaxLag \in Int
    BY ConstantsHold DEF Constants
  <2>2. /\ Tabled(D, S) /\ Tabled(Split, S) /\ Above(Split, threshold) = S
        /\ S \subseteq DOMAIN scored /\ IsFiniteSet(S)
    BY AboveTabled DEF IInv, Above, Tabled
  <2>3. /\ Pass(D, S, {}, Cooldown, sent)
        /\ Pass(Split, S, {}, Cooldown + MaxLag, Fewer)
        /\ Pass(Split, S, {}, Cooldown - MaxLag, More)
    BY <2>2, SimulatedPass DEF IInv, ServedInv
  <2>4. \A c \in S : /\ D[c].ts = at[c] /\ Split[c].ts = ts[c]
                     /\ at[c] \in Int /\ ts[c] \in Int
                     /\ ts[c] <= at[c] /\ at[c] <= ts[c] + MaxLag
    BY <2>2 DEF Served, Split, IInv, TableInv
  <2>. HIDE DEF S, D, Fewer, More, at, ts
  <2>5. sent \in SUBSET S /\ Fewer \in SUBSET S /\ More \in SUBSET S
    BY <2>3 DEF Pass
  <2>6. CountOf(Fewer, p) <= CountOf(sent, p)
    <3>1. ASSUME NEW q \in Fewer
          PROVE  \E r \in sent : /\ Owner[r] = Owner[q] /\ at[r] <= at[q]
                                 /\ at[q] - at[r] < Cooldown
      BY <2>1, <2>2, <2>3, <2>4, <2>5, PassCovers
    <3>2. ASSUME NEW q \in Fewer, NEW s \in Fewer, NEW r \in sent, Owner[q] = Owner[s],
                 at[r] <= at[q], at[q] - at[r] < Cooldown,
                 at[r] <= at[s], at[s] - at[r] < Cooldown
          PROVE  q = s
      <4>1. q # s => \/ Split[s].ts - Split[q].ts >= Cooldown + MaxLag
                     \/ Split[q].ts - Split[s].ts >= Cooldown + MaxLag
        BY <2>1, <2>2, <2>3, <3>2, PassSpacing
      <4>2. q \in S /\ s \in S /\ r \in S
        BY <2>5
      <4>. QED
        BY <2>1, <2>4, <3>2, <4>1, <4>2
    <3>. QED
      BY <2>2, <2>5, <3>1, <3>2, PlayerCount
  <2>7. CountOf(sent, p) <= CountOf(More, p)
    <3>1. ASSUME NEW q \in sent
          PROVE  \E r \in More : /\ Owner[r] = Owner[q] /\ ts[r] <= ts[q]
                                 /\ ts[q] - ts[r] < Cooldown - MaxLag
      BY <2>1, <2>2, <2>3, <2>4, <2>5, PassCovers
    <3>2. ASSUME NEW q \in sent, NEW s \in sent, NEW r \in More, Owner[q] = Owner[s],
                 ts[r] <= ts[q], ts[q] - ts[r] < Cooldown - MaxLag,
                 ts[r] <= ts[s], ts[s] - ts[r] < Cooldown - MaxLag
          PROVE  q = s
      <4>1. q # s => D[s].ts - D[q].ts >= Cooldown \/ D[q].ts - D[s].ts >= Cooldown
        BY <2>1, <2>2, <2>3, <3>2, PassSpacing
      <4>2. q \in S /\ s \in S /\ r \in S
        BY <2>5
      <4>. QED
        BY <2>1, <2>4, <3>2, <4>1, <4>2
    <3>. QED
      BY <2>2, <2>5, <3>1, <3>2, PlayerCount
  <2>. QED
    BY <2>6, <2>7
<1>. QED
  BY <1>1, Inductive, PTL

\* With enough bisections for the range of the scores, no threshold brings the number
\* of alerts closer to the target than the one the search picks.
THEOREM SearchCloses == ASSUME EnoughRounds PROVE Spec => []SearchIsClosest
<1>1. IInv => SearchIsClosest
  <2>. SUFFICES ASSUME IInv, scored # Empty,
                       NEW target \in 1 .. Cardinality(DOMAIN scored),
                       NEW point \in Picked(Split, target), NEW th \in Thresholds
                PROVE  Distance(point.alerts, target) <= Distance(Alerts(Split, th), target)
    BY DEF SearchIsClosest
  <2>1. th \in Int
    <3>1. PICK n \in Scores, d \in {0, 1} : th = Scale * n + d
      BY DEF Thresholds
    <3>. QED
      BY <3>1, ConstantsHold DEF Constants
  <2>2. Tabled(Split, DOMAIN Split) /\ IsFiniteSet(DOMAIN scored)
    BY AboveTabled DEF IInv
  <2>3. /\ DOMAIN Split = DOMAIN scored
        /\ \A c \in DOMAIN Split : Split[c].score \in {Scale * n : n \in Scores}
    BY DEF Split, IInv, TableInv
  <2>4. DOMAIN scored # {} /\ target \in Int
    <3>1. DOMAIN scored = {} => Cardinality(DOMAIN scored) = 0
      BY FS_EmptySet
    <3>2. target \in Int /\ 1 <= target /\ target <= Cardinality(DOMAIN scored)
      <4>1. Cardinality(DOMAIN scored) \in Nat
        BY <2>2, FS_CardinalityType
      <4>. QED
        BY <4>1
    <3>3. Cardinality(DOMAIN scored) # 0
      BY <3>2
    <3>. QED
      BY <3>1, <3>2, <3>3
  <2>5. Closest(target, Picked(Split, target), Alerts(Split, th))
    BY <2>1, <2>2, <2>3, <2>4, SearchFinds
  <2>. QED
    BY <2>5 DEF Closest
<1>. QED
  BY <1>1, Inductive, PTL
=============================================================================
