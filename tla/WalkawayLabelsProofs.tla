------------------------- MODULE WalkawayLabelsProofs -------------------------
(***************************************************************************)
(* Theorems about WalkawayLabels: what a label built with its whole        *)
(* look-ahead says, how labels built month by month differ, and how the    *)
(* validator's verdict meets them, for any number of bets and players and  *)
(* any gap, horizon, month and extension.                                  *)
(***************************************************************************)
EXTENDS WalkawayLabels, FiniteSetTheorems, WellFoundedInduction, TLAPS

-----------------------------------------------------------------------------
(* Numbers and finite sets.                                                *)

\* A set of naturals that is not empty has a least element.
LEMMA NatMin ==
    ASSUME NEW S, S \subseteq Nat, S # {}
    PROVE  \E m \in S : \A x \in S : m <= x
<1>1. IsWellFoundedOn(OpToRel(<, Nat), Nat)
  BY NatLessThanWellFounded
<1>2. PICK m \in S : \A x \in S : <<x, m>> \notin OpToRel(<, Nat)
  BY <1>1, WFMin
<1>3. \A x \in S : ~(x < m)
  BY <1>2 DEF OpToRel
<1>4. \A x \in S : m <= x
  BY <1>3
<1> QED BY <1>4

\* A finite set of naturals that is not empty has a greatest element: the one with
\* the fewest elements above it.
LEMMA NatMax ==
    ASSUME NEW S, S \subseteq Nat, IsFiniteSet(S), S # {}
    PROVE  \E m \in S : \A x \in S : x <= m
<1> DEFINE Above(m) == {x \in S : m < x}
           Counts == {Cardinality(Above(m)) : m \in S}
<1>1. \A m \in S : IsFiniteSet(Above(m)) /\ Cardinality(Above(m)) \in Nat
  <2> TAKE m \in S
  <2>1. Above(m) \subseteq S
    OBVIOUS
  <2>2. IsFiniteSet(Above(m))
    BY <2>1, FS_Subset
  <2> QED BY <2>2, FS_CardinalityType
<1>2. Counts \subseteq Nat /\ Counts # {}
  BY <1>1
<1>3. PICK k \in Counts : \A j \in Counts : k <= j
  <2> HIDE DEF Counts
  <2> QED BY <1>2, NatMin
<1>4. PICK m \in S : k = Cardinality(Above(m))
  OBVIOUS
<1>5. ASSUME NEW x \in S, m < x PROVE FALSE
  <2>1. Above(x) \subseteq Above(m) /\ x \in Above(m) /\ x \notin Above(x)
    <3>1. x \in Nat /\ m \in Nat /\ \A y \in S : y \in Nat
      OBVIOUS
    <3>2. \A y \in S : x < y => m < y
      BY <3>1, <1>5
    <3>3. ~(x < x)
      BY <3>1
    <3> QED BY <3>2, <3>3, <1>5
  <2>2. Cardinality(Above(x)) <= Cardinality(Above(m)) /\ Above(x) # Above(m)
    BY <2>1, <1>1, FS_Subset
  <2>3. Cardinality(Above(x)) # Cardinality(Above(m))
    <3> HIDE DEF Above
    <3> QED BY <2>1, <2>2, <1>1, FS_Subset
  <2>4. k <= Cardinality(Above(x))
    BY <1>3
  <2> HIDE DEF Above
  <2> QED BY <2>2, <2>3, <2>4, <1>4, <1>1
<1>6. \A x \in S : ~(m < x)
  BY <1>5
<1> QED BY <1>6, <1>4

\* What lies between two multiples that follow each other has one quotient.
LEMMA DivBounds ==
    ASSUME NEW t \in Nat, NEW n \in Nat \ {0}
    PROVE  t \div n \in Nat /\ (t \div n) * n <= t /\ t < ((t \div n) + 1) * n
  OBVIOUS

LEMMA DivSame ==
    ASSUME NEW t \in Nat, NEW u \in Nat, NEW n \in Nat \ {0},
           t <= u, u < ((t \div n) + 1) * n
    PROVE  u \div n = t \div n
<1>1. /\ t \div n \in Nat /\ (t \div n) * n <= t
      /\ u \div n \in Nat /\ (u \div n) * n <= u /\ u < ((u \div n) + 1) * n
  BY DivBounds
<1>2. ASSUME NEW a \in Nat, NEW b \in Nat, a < b PROVE (a + 1) * n <= b * n
  BY <1>2
<1> QED BY <1>1, <1>2
-----------------------------------------------------------------------------
(* The inductive invariant: where the bets lie, and what the newest labels  *)
(* were computed from.                                                     *)

\* What was exported lies up to the end of the export, the rest from there on.
Ordered ==
    /\ end <= clock
    /\ \A b \in DOMAIN bets : bets[b].ts <= clock
    /\ \A b \in DOMAIN labels : bets[b].ts <= end
    /\ \A b \in DOMAIN bets \ DOMAIN labels : end <= bets[b].ts

\* The labels are still those of the frame they were computed from.
Computed ==
    /\ labels = Whole(DOMAIN labels, ExtendedEnd(end))
    /\ shards = ByMonth(DOMAIN labels, ExtendedEnd(end))

Inv == TypeOK /\ Ordered /\ Computed

LEMMA InitInv == Init => Inv
<1> SUFFICES ASSUME Init PROVE Inv
  OBVIOUS
<1>1. DOMAIN Empty = {}
  BY DEF Empty
<1>2. TypeOK
  BY <1>1 DEF Init, TypeOK, IsTable, Empty
<1>3. Ordered
  BY <1>1 DEF Init, Ordered
<1>4. Computed
  BY <1>1 DEF Init, Computed, Whole, ByMonth, Empty
<1> QED BY <1>2, <1>3, <1>4 DEF Inv

LEMMA TickInv == Inv /\ Tick => Inv'
<1> SUFFICES ASSUME Inv, Tick PROVE Inv'
  OBVIOUS
<1> USE DEF Inv, Tick
<1>1. TypeOK'
  BY DEF TypeOK, IsTable
<1>2. Ordered'
  BY DEF Ordered, TypeOK, IsTable
<1>3. Computed'
  BY DEF Computed, Whole, ByMonth, ExtendedEnd, Label, Shard, GapStart, Terminal, Determinable,
         Later, Month
<1> QED BY <1>1, <1>2, <1>3

LEMMA SettleInv ==
    ASSUME Inv, NEW b \in Bets, NEW p \in Players, Settle(b, p) PROVE Inv'
<1> DEFINE F == DOMAIN labels
<1>1. /\ b \notin DOMAIN bets /\ DOMAIN bets' = DOMAIN bets \cup {b}
      /\ bets'[b] = [player |-> p, ts |-> clock]
      /\ \A c \in DOMAIN bets : bets'[c] = bets[c]
      /\ UNCHANGED <<clock, end, labels, shards>>
  BY DEF Settle
<1>2. TypeOK'
  BY <1>1 DEF Inv, TypeOK, IsTable, Settle
<1>3. Ordered'
  BY <1>1 DEF Inv, Ordered, TypeOK
<1>4. F \subseteq DOMAIN bets
  BY DEF Inv, TypeOK
<1>5. \A G \in SUBSET F, g \in F : Later(G, g)' = Later(G, g) /\ Month(g)' = Month(g)
  BY <1>1, <1>4 DEF Later, Month
<1>6. \A G \in SUBSET F, g \in F :
         GapStart(G, g, ExtendedEnd(end))' = GapStart(G, g, ExtendedEnd(end))
  BY <1>1, <1>4, <1>5 DEF GapStart, Terminal, Determinable, ExtendedEnd, Later
<1>7. \A G \in SUBSET F, g \in F :
         Label(G, g, ExtendedEnd(end))' = Label(G, g, ExtendedEnd(end))
  BY <1>1, <1>4, <1>6 DEF Label
<1>8. \A g \in F : Shard(F, g)' = Shard(F, g) /\ Shard(F, g) \in SUBSET F
  BY <1>1, <1>5 DEF Shard
<1>9. Computed'
  BY <1>1, <1>7, <1>8 DEF Inv, Computed, Whole, ByMonth
<1> QED BY <1>2, <1>3, <1>9 DEF Inv

LEMMA ExportInv == ASSUME Inv, NEW e \in 0 .. clock, Export(e) PROVE Inv'
<1>1. /\ DOMAIN labels' = DOMAIN bets /\ DOMAIN shards' = DOMAIN bets
      /\ end' = e /\ e \in Nat /\ e <= clock
      /\ \A b \in DOMAIN bets : bets[b].ts <= e
      /\ UNCHANGED <<clock, bets>>
  BY DEF Export, Whole, ByMonth, WindowEnd, Inv, TypeOK
<1>2. TypeOK'
  <2>1. \A F, b, n : Label(F, b, n) \in BOOLEAN
    BY DEF Label
  <2>2. labels' \in [DOMAIN bets -> BOOLEAN] /\ shards' \in [DOMAIN bets -> BOOLEAN]
    BY <2>1 DEF Export, Whole, ByMonth
  <2> QED BY <1>1, <2>2 DEF Inv, TypeOK, IsTable
<1>3. Ordered'
  BY <1>1 DEF Inv, Ordered
<1>4. Computed'
  BY <1>1 DEF Export, Computed, Whole, ByMonth, ExtendedEnd, Label, Shard, GapStart, Terminal,
              Determinable, Later, Month
<1> QED BY <1>2, <1>3, <1>4 DEF Inv

LEMMA StutterInv == Inv /\ UNCHANGED vars => Inv'
  BY DEF Inv, vars, TypeOK, IsTable, Ordered, Computed, Whole, ByMonth, ExtendedEnd, Label, Shard,
         GapStart, Terminal, Determinable, Later, Month

\* The invariant holds in every state.
LEMMA Invariance == Spec => []Inv
<1>1. Inv /\ [Next]_vars => Inv'
  BY TickInv, SettleInv, ExportInv, StutterInv DEF Next
<1> QED BY InitInv, <1>1, PTL DEF Spec

\* The tables of bets and labels keep their types.
THEOREM TypeCorrect == Spec => []TypeOK
<1>1. Inv => TypeOK
  BY DEF Inv
<1> QED BY <1>1, Invariance, PTL
-----------------------------------------------------------------------------
(* Labels and what happened.                                               *)

\* What the invariant says of one label.
LEMMA LabelOf ==
    ASSUME Inv, NEW b \in DOMAIN labels
    PROVE  /\ b \in DOMAIN bets /\ b \in Nat
           /\ bets[b].ts \in Nat /\ bets[b].ts <= end /\ end \in Nat
           /\ labels[b] <=> Label(DOMAIN labels, b, ExtendedEnd(end))
           /\ shards[b] <=> Label(Shard(DOMAIN labels, b), b, ExtendedEnd(end))
  BY LabelsAssumption DEF Inv, TypeOK, IsTable, Ordered, Computed, Whole, ByMonth

\* A label of 1 rests on a gap that no later bet has closed: what lies after the end
\* of the export is a gap away from it.
LEMMA LabelHappened ==
    ASSUME Inv, NEW b \in DOMAIN labels, Settled(b), labels[b]
    PROVE  WalkedAway(b)
<1> DEFINE F == DOMAIN labels
           T == Payouts(bets[b].player)
<1>1. PICK g \in F : /\ bets[g].player = bets[b].player
                     /\ GapStart(F, g, ExtendedEnd(end))
                     /\ bets[b].ts <= bets[g].ts /\ bets[g].ts <= bets[b].ts + Horizon
  BY LabelOf DEF Label
<1>2. /\ bets[g].ts \in Nat /\ g \in DOMAIN bets /\ bets[b].ts \in Nat /\ end \in Nat
      /\ Gap \in Nat /\ Horizon \in Nat /\ Horizon + Gap = Lookahead
  BY LabelOf, RulesAssumption, LabelsAssumption
<1>3. bets[g].ts + Gap <= end
  BY <1>1, <1>2 DEF Settled
<1>4. ASSUME NEW c \in DOMAIN bets, bets[c].player = bets[b].player
      PROVE  bets[c].ts <= bets[g].ts \/ bets[g].ts + Gap <= bets[c].ts
  <2>1. bets[c].ts \in Nat
    BY DEF Inv, TypeOK, IsTable
  <2>2. CASE c \in F
    <3>1. bets[g].ts < bets[c].ts => c \in Later(F, g)
      BY <1>1, <1>4, <2>2 DEF Later
    <3> QED BY <3>1, <2>1, <1>1, <1>2 DEF GapStart
  <2>3. CASE c \notin F
    <3>1. end <= bets[c].ts
      BY <2>3 DEF Inv, Ordered
    <3> QED BY <3>1, <1>2, <1>3, <2>1
  <2> QED BY <2>2, <2>3
<1>5. bets[g].ts \in T /\ \A x \in T : x <= bets[g].ts \/ bets[g].ts + Gap <= x
  BY <1>1, <1>2, <1>4 DEF Payouts
<1> QED BY <1>1, <1>5 DEF WalkedAway

\* A stop that happened is labelled: the last of the bets at its start is a gap start.
LEMMA HappenedLabel ==
    ASSUME Inv, NEW b \in DOMAIN labels, Settled(b), WalkedAway(b)
    PROVE  labels[b]
<1> DEFINE F == DOMAIN labels
           T == Payouts(bets[b].player)
<1>1. PICK s \in T : /\ bets[b].ts <= s /\ s <= bets[b].ts + Horizon
                     /\ \A x \in T : x <= s \/ s + Gap <= x
  BY DEF WalkedAway
<1>2. /\ T \subseteq Nat /\ F \subseteq DOMAIN bets /\ F \subseteq Nat /\ IsFiniteSet(F)
  <2>1. F \subseteq Bets /\ \A c \in DOMAIN bets : bets[c].ts \in Nat
    BY DEF Inv, TypeOK, IsTable
  <2> QED BY <2>1, LabelsAssumption, FS_Subset DEF Payouts, Inv, TypeOK
<1>3. /\ bets[b].ts \in Nat /\ end \in Nat /\ s \in Nat
      /\ Gap \in Nat \ {0} /\ Horizon \in Nat /\ Horizon + Gap = Lookahead
  BY LabelOf, RulesAssumption, LabelsAssumption, <1>2
<1>4. s + Gap <= end
  BY <1>1, <1>3 DEF Settled
<1> DEFINE C == {c \in F : bets[c].player = bets[b].player /\ bets[c].ts = s}
<1>5. C # {}
  <2>1. PICK c \in DOMAIN bets : bets[c].player = bets[b].player /\ bets[c].ts = s
    BY DEF Payouts
  <2>2. c \in F
    BY <2>1, <1>3, <1>4 DEF Inv, Ordered
  <2> QED BY <2>1, <2>2
<1>6. PICK g \in C : \A c \in C : c <= g
  <2>1. C \subseteq F
    OBVIOUS
  <2>2. C \subseteq Nat /\ IsFiniteSet(C)
    BY <1>2, <2>1, FS_Subset
  <2> HIDE DEF C
  <2> QED BY <1>5, <2>2, NatMax
<1>7. GapStart(F, g, ExtendedEnd(end))
  <2>1. ASSUME NEW c \in Later(F, g) PROVE bets[g].ts + Gap <= bets[c].ts
    <3>1. /\ c \in F /\ bets[c].player = bets[b].player
          /\ s < bets[c].ts \/ (s = bets[c].ts /\ g < c)
      BY <2>1 DEF Later
    <3>2. bets[c].ts \in T /\ bets[c].ts \in Nat /\ c \in Nat /\ g \in Nat
      BY <3>1, <1>2 DEF Payouts
    <3>3. s # bets[c].ts
      BY <3>1, <3>2, <1>6
    <3> QED BY <3>1, <3>2, <3>3, <1>1, <1>3
  <2>2. Determinable(g, ExtendedEnd(end))
    BY <1>3, <1>4, LabelsAssumption DEF Determinable, ExtendedEnd
  <2> QED BY <2>1, <2>2 DEF GapStart
<1>8. Label(F, b, ExtendedEnd(end))
  BY <1>1, <1>7 DEF Label
<1> QED BY <1>8, LabelOf

\* A label whose whole look-ahead is in the export says what happened, whatever is
\* settled after it, in every state the labels can reach.
THEOREM LabelsSettle == Spec => []SettledLabelIsTrue
<1>1. Inv => SettledLabelIsTrue
  BY LabelHappened, HappenedLabel DEF SettledLabelIsTrue
<1> QED BY <1>1, Invariance, PTL

-----------------------------------------------------------------------------
(* Month by month.                                                         *)

\* A bet of the month's player that is less than the look-ahead after b starts a gap
\* in the shard exactly when it does in the whole export.
LEMMA ShardGap ==
    ASSUME Inv, NEW b \in DOMAIN labels, NEW g \in DOMAIN labels,
           bets[b].ts + Lookahead < (Month(b) + 1) * MonthLen,
           bets[b].ts <= bets[g].ts, bets[g].ts <= bets[b].ts + Horizon
    PROVE  /\ g \in Shard(DOMAIN labels, b)
           /\ GapStart(Shard(DOMAIN labels, b), g, ExtendedEnd(end))
                  <=> GapStart(DOMAIN labels, g, ExtendedEnd(end))
<1> DEFINE F == DOMAIN labels
           G == Shard(F, b)
           last == (Month(b) + 1) * MonthLen
<1>1. /\ bets[b].ts \in Nat /\ bets[g].ts \in Nat /\ end \in Nat
      /\ Gap \in Nat /\ Horizon \in Nat /\ Horizon + Gap = Lookahead
      /\ MonthLen \in Nat \ {0} /\ Extension \in Nat
      /\ Month(b) \in Nat /\ last \in Nat
  <2>1. bets[b].ts \in Nat /\ bets[g].ts \in Nat /\ end \in Nat
    BY LabelOf
  <2> QED BY <2>1, RulesAssumption, LabelsAssumption, DivBounds DEF Month
<1>2. \A c \in F : bets[c].ts \in Nat /\ bets[c].ts <= end
  BY LabelOf
<1>3. ASSUME NEW c \in F, bets[b].ts <= bets[c].ts, bets[c].ts < last PROVE c \in G
  BY <1>1, <1>2, <1>3, DivSame DEF Shard, Month
<1>4. bets[g].ts + Gap < last
  <2>1. bets[b].ts + Lookahead < last
    OBVIOUS
  <2> HIDE DEF last
  <2> QED BY <1>1, <2>1
<1>5. g \in G
  <2> HIDE DEF last, G
  <2> QED BY <1>1, <1>3, <1>4
<1>6. G \subseteq F /\ Later(G, g) \subseteq Later(F, g)
  BY DEF Shard, Later
<1>7. ASSUME NEW c \in Later(F, g) PROVE c \in Later(G, g) \/ bets[g].ts + Gap <= bets[c].ts
  <2>1. c \in F /\ bets[g].ts <= bets[c].ts
    BY <1>1, <1>2 DEF Later
  <2>2. CASE bets[c].ts < last
    <3>1. c \in G
      <4> HIDE DEF last, G
      <4> QED BY <1>1, <1>2, <1>3, <2>1, <2>2
    <3> QED BY <3>1 DEF Later
  <2>3. CASE ~(bets[c].ts < last)
    <3> HIDE DEF last
    <3> QED BY <1>1, <1>2, <1>4, <2>1, <2>3
  <2> QED BY <2>2, <2>3
<1>8. Determinable(g, ExtendedEnd(end)) <=> bets[g].ts + Gap <= end + Extension
  BY DEF Determinable, ExtendedEnd
<1>9. ASSUME GapStart(F, g, ExtendedEnd(end)) PROVE GapStart(G, g, ExtendedEnd(end))
  <2>1. \A c \in Later(F, g) : bets[g].ts + Gap <= bets[c].ts /\ c \in F
    BY <1>9 DEF GapStart, Later
  <2>2. CASE Later(F, g) = {}
    BY <2>2, <1>9, <1>6 DEF GapStart, Terminal
  <2>3. ASSUME NEW c \in Later(F, g) PROVE GapStart(G, g, ExtendedEnd(end))
    <3>1. bets[g].ts + Gap <= end + Extension
      BY <2>1, <2>3, <1>1, <1>2
    <3> HIDE DEF G
    <3> QED BY <3>1, <2>1, <1>6, <1>8 DEF GapStart
  <2> QED BY <2>2, <2>3
<1>10. ASSUME GapStart(G, g, ExtendedEnd(end)) PROVE GapStart(F, g, ExtendedEnd(end))
  <2> HIDE DEF G
  <2> QED BY <1>6, <1>7, <1>10 DEF GapStart, Terminal
<1> QED BY <1>5, <1>9, <1>10

\* Labels built month by month are those of the whole export, except for bets whose
\* look-ahead leaves the month.
THEOREM MonthsAgree == Spec => []ShardsAgreeInside
<1>1. ASSUME Inv, NEW b \in DOMAIN labels,
             bets[b].ts + Lookahead < (Month(b) + 1) * MonthLen
      PROVE  shards[b] <=> labels[b]
  <2> DEFINE F == DOMAIN labels
             G == Shard(F, b)
  <2>1. G \subseteq F
    BY DEF Shard
  <2>2. Label(G, b, ExtendedEnd(end)) <=> Label(F, b, ExtendedEnd(end))
    <3> HIDE DEF G
    <3>1. \A g \in F :
             bets[b].ts <= bets[g].ts /\ bets[g].ts <= bets[b].ts + Horizon
               => /\ g \in G
                  /\ GapStart(G, g, ExtendedEnd(end)) <=> GapStart(F, g, ExtendedEnd(end))
      BY <1>1, ShardGap DEF G
    <3> QED BY <2>1, <3>1 DEF Label
  <2> QED BY <2>2, <1>1, LabelOf
<1>2. Inv => ShardsAgreeInside
  BY <1>1 DEF ShardsAgreeInside
<1> QED BY <1>2, Invariance, PTL

-----------------------------------------------------------------------------
(* The validator's verdict on the same bet.                                *)

\* With the wait over and finality on, a bet that has data is a MATCH exactly when
\* nothing came late.
LEMMA LastWord ==
    ASSUME NEW T, NEW ts, T # {}
    PROVE  Verdict(T, ts, TRUE, TRUE) = "MATCH" <=> LateBets(T, ts) = {}
  BY DEF Verdict

\* When nothing came late the player stopped for a gap: the last payout within the
\* horizon begins it.
LEMMA NothingLate ==
    ASSUME Inv, NEW b \in DOMAIN labels, LateBets(Payouts(bets[b].player), bets[b].ts) = {}
    PROVE  WalkedAway(b)
<1> DEFINE T == Payouts(bets[b].player)
           early == {x \in T : x <= bets[b].ts + Horizon}
<1>1. /\ T \subseteq Nat /\ bets[b].ts \in T /\ bets[b].ts \in Nat
      /\ Gap \in Nat /\ Horizon \in Nat /\ Horizon + Gap = Lookahead
  <2>1. \A c \in DOMAIN bets : bets[c].ts \in Nat
    BY DEF Inv, TypeOK, IsTable
  <2> QED BY <2>1, LabelOf, RulesAssumption, LabelsAssumption DEF Payouts
<1>2. PICK s \in early : \A x \in early : x <= s
  <2>1. early \subseteq Nat /\ bets[b].ts \in early
    <3>1. bets[b].ts <= bets[b].ts + Horizon
      BY <1>1
    <3> HIDE DEF T
    <3> QED BY <1>1, <3>1
  <2>2. IsFiniteSet(early)
    <3>1. bets[b].ts + Horizon \in Nat /\ \A x \in early : x <= bets[b].ts + Horizon
      BY <1>1
    <3> HIDE DEF early
    <3> QED BY <3>1, <2>1, FS_BoundedSetOfNaturals
  <2> HIDE DEF early
  <2> QED BY <2>1, <2>2, NatMax
<1> HIDE DEF T
<1>3. bets[b].ts <= s /\ s <= bets[b].ts + Horizon /\ s \in T
  BY <1>1, <1>2
<1>4. ASSUME NEW x \in T PROVE x <= s \/ s + Gap <= x
  <2>1. x \notin LateBets(T, bets[b].ts)
    BY DEF T
  <2>2. x \in Nat /\ s \in Nat
    BY <1>1, <1>3
  <2>3. CASE x <= bets[b].ts + Horizon
    BY <2>3, <1>2
  <2>4. CASE ~(x <= bets[b].ts + Horizon)
    <3>1. bets[b].ts + Horizon < x /\ ~(x <= bets[b].ts + Lookahead)
      BY <2>1, <2>2, <2>4, <1>1 DEF LateBets
    <3> QED BY <3>1, <2>2, <1>1, <1>3
  <2> QED BY <2>3, <2>4
<1> QED BY <1>3, <1>4 DEF WalkedAway, T

\* A MATCH has label 1, and a bet of label 1 is a MISS exactly when the player came
\* back late: the two rules disagree on nothing else.
THEOREM VerdictsMeetLabels == Spec => []VerdictMeetsLabel
<1>1. ASSUME Inv, NEW b \in DOMAIN labels, Settled(b)
      PROVE  Verdict(Payouts(bets[b].player), bets[b].ts, TRUE, TRUE) = "MATCH"
               <=> labels[b] /\ LateBets(Payouts(bets[b].player), bets[b].ts) = {}
  <2> DEFINE T == Payouts(bets[b].player)
  <2>1. T # {}
    BY <1>1, LabelOf DEF Payouts
  <2>2. Verdict(T, bets[b].ts, TRUE, TRUE) = "MATCH" <=> LateBets(T, bets[b].ts) = {}
    <3> HIDE DEF T
    <3> QED BY <2>1, LastWord
  <2>3. LateBets(T, bets[b].ts) = {} => labels[b]
    BY <1>1, NothingLate, HappenedLabel
  <2> HIDE DEF T
  <2> QED BY <2>2, <2>3 DEF T
<1>2. Inv => VerdictMeetsLabel
  BY <1>1 DEF VerdictMeetsLabel
<1> QED BY <1>2, Invariance, PTL
===============================================================================
