--------------------------- MODULE WalkawayLabels ---------------------------
(***************************************************************************)
(* The labels the model is trained on, trainer_hightier/                   *)
(* walkaway_compute_labels.py and utils/walkaway_labels.py: for each bet   *)
(* of an export, whether its player walks away within the horizon.  Bets   *)
(* are settled in the order of their payout; an export may be made at any  *)
(* time and ends where its last bet lies, so what the players did next is  *)
(* not in it.  Labels are built over the whole export or, with             *)
(* --use-sharded-labels-cache, month by month.                             *)
(***************************************************************************)
EXTENDS WalkawayRules, FiniteSets

CONSTANTS
    Bets,         \* bet ids, naturals
    Players,      \* canonical ids
    Extension,    \* extended_end lies so far after window_end
    MonthLen,     \* length of a month
    MaxTime       \* bound of the model

ASSUME LabelsAssumption ==
    /\ Bets \subseteq Nat /\ IsFiniteSet(Bets)
    /\ Extension \in Nat /\ MonthLen \in Nat \ {0} /\ MaxTime \in Nat
    /\ Horizon + Gap = Lookahead

VARIABLES
    clock,
    bets,       \* settled bets: bet id -> player, payout ts
    end,        \* the last payout of the newest export
    labels,     \* its labels: bet id -> label
    shards      \* its labels built month by month: bet id -> label

vars == <<clock, bets, end, labels, shards>>

Empty == [b \in {} |-> 0]

-----------------------------------------------------------------------------
(* compute_labels on a frame F of bets.                                    *)

\* Mutant: the next bet may be another player's.
LaterMutantAnyPlayer(F, b) ==
    {c \in F : bets[b].ts < bets[c].ts \/ (bets[b].ts = bets[c].ts /\ b < c)}
\* The bets of b's player after b in the order of payout and bet id.
Later(F, b) ==
    {c \in F : /\ bets[c].player = bets[b].player
               /\ \/ bets[b].ts < bets[c].ts
                  \/ bets[b].ts = bets[c].ts /\ b < c}

Terminal(F, b) == Later(F, b) = {}
Determinable(b, extendedEnd) == bets[b].ts + Gap <= extendedEnd

\* _gap_start: the next bet is a gap away, or none and the data reaches that far.
GapStart(F, b, extendedEnd) ==
    /\ \A c \in Later(F, b) : bets[b].ts + Gap <= bets[c].ts
    /\ Terminal(F, b) => Determinable(b, extendedEnd)

\* The first gap of the player from b on starts within the horizon.
Label(F, b, extendedEnd) ==
    \E g \in F : /\ bets[g].player = bets[b].player
                 /\ GapStart(F, g, extendedEnd)
                 /\ bets[b].ts <= bets[g].ts /\ bets[g].ts <= bets[b].ts + Horizon

Month(b) == bets[b].ts \div MonthLen

\* Mutant: the shards are cut in another time zone than the months.
ShardMutantZone(F, b) == {c \in F : (bets[c].ts + 2) \div MonthLen = Month(b)}
\* The bets of b's month, _materialize_labels_shard.
Shard(F, b) == {c \in F : Month(c) = Month(b)}

\* The labels of the bets of F in one go, and month by month.
Whole(F, extendedEnd) == [b \in F |-> Label(F, b, extendedEnd)]
ByMonth(F, extendedEnd) == [b \in F |-> Label(Shard(F, b), b, extendedEnd)]

-----------------------------------------------------------------------------
Init == /\ clock = 0 /\ bets = Empty
        /\ end = 0 /\ labels = Empty /\ shards = Empty

Tick ==
    /\ clock < MaxTime
    /\ clock' = clock + 1
    /\ UNCHANGED <<bets, end, labels, shards>>

Settle(b, p) ==
    /\ b \notin DOMAIN bets
    /\ bets' = [c \in DOMAIN bets \cup {b} |->
                  IF c = b THEN [player |-> p, ts |-> clock] ELSE bets[c]]
    /\ UNCHANGED <<clock, end, labels, shards>>

\* window_end, and extended_end for the whole export and for every shard.
WindowEnd(e) == e \in {bets[b].ts : b \in DOMAIN bets} /\ \A b \in DOMAIN bets : bets[b].ts <= e
ExtendedEnd(e) == e + Extension

\* An export of all that is settled, and its labels both ways.
Export(e) ==
    /\ WindowEnd(e)
    /\ end' = e
    /\ labels' = Whole(DOMAIN bets, ExtendedEnd(e))
    /\ shards' = ByMonth(DOMAIN bets, ExtendedEnd(e))
    /\ UNCHANGED <<clock, bets>>

Next == \/ Tick
        \/ \E b \in Bets, p \in Players : Settle(b, p)
        \/ \E e \in 0 .. clock : Export(e)

Spec == Init /\ [][Next]_vars

-----------------------------------------------------------------------------
(* Properties.                                                             *)

IsTable(f, R) == DOMAIN f \subseteq Bets /\ f \in [DOMAIN f -> R]

\* Type correctness of the settled bets and of the newest export's labels.
TypeOK ==
    /\ clock \in Nat /\ end \in Nat
    /\ IsTable(bets, [player : Players, ts : Nat])
    /\ IsTable(labels, BOOLEAN)
    /\ DOMAIN labels \subseteq DOMAIN bets
    /\ IsTable(shards, BOOLEAN) /\ DOMAIN shards = DOMAIN labels

Payouts(p) == {bets[b].ts : b \in {c \in DOMAIN bets : bets[c].player = p}}

\* What happened: within the horizon the player stopped for a gap.
WalkedAway(b) ==
    LET T == Payouts(bets[b].player) IN
    \E s \in T : /\ bets[b].ts <= s /\ s <= bets[b].ts + Horizon
                 /\ \A x \in T : x <= s \/ s + Gap <= x

\* The bet lies far enough from the end of the export.
Settled(b) == bets[b].ts + Lookahead <= end

\* A label that was built with the whole look-ahead in the export stays true for
\* ever: nothing that is settled after the export can make it wrong.
SettledLabelIsTrue ==
    \A b \in DOMAIN labels : Settled(b) => (labels[b] <=> WalkedAway(b))

\* Month by month gives the same labels as long as the look-ahead ends within the
\* month: only the last bets of a month may differ.
ShardsAgreeInside ==
    \A b \in DOMAIN labels :
        bets[b].ts + Lookahead < (Month(b) + 1) * MonthLen
            => (shards[b] <=> labels[b])

\* The validator's last word on a bet and the label the next model is trained with:
\* a MATCH has label 1, and a bet with label 1 is a MISS just when the player came
\* back late within the look-ahead.
VerdictMeetsLabel ==
    \A b \in DOMAIN labels :
        LET T == Payouts(bets[b].player) IN
        Settled(b) =>
            (Verdict(T, bets[b].ts, TRUE, TRUE) = "MATCH"
                <=> labels[b] /\ LateBets(T, bets[b].ts) = {})
=============================================================================
