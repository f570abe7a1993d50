---------------------------- MODULE WalkawayRules ----------------------------
(***************************************************************************)
(* The rules by which the validator judges, after the event, whether a     *)
(* player walked away after a bet.                                         *)
(***************************************************************************)
EXTENDS Integers

CONSTANTS
    Gap, Horizon,      \* WALKAWAY_GAP_MIN, ALERT_HORIZON_MIN
    Lookahead          \* LABEL_LOOKAHEAD_MIN

ASSUME RulesAssumption ==
    /\ Gap \in Nat \ {0} /\ Horizon \in Nat /\ Lookahead \in Nat
    /\ Horizon <= Lookahead

\* The payouts of T that contradict a walk-away after a bet at ts.
LateBets(T, ts) == {x \in T : ts + Horizon < x /\ x <= ts + Lookahead}

\* find_gap_within_window with gap_base_at_bet_ts: the bet itself begins a gap.
HasGap(T, ts) ==
    \E s \in T \cup {ts} :
        /\ ts <= s /\ s <= ts + Horizon
        /\ s + Gap <= ts + Lookahead
        /\ \A x \in T : x <= s \/ x >= s + Gap

\* Mutant: a gap is believed, whatever comes late.
VerdictMutantGapOnly(T, ts, waitOver, finalize) ==
    IF T = {} THEN "no bet data"
    ELSE IF HasGap(T, ts) THEN "MATCH"
    ELSE IF LateBets(T, ts) # {} THEN "MISS"
    ELSE IF ~finalize THEN "PENDING"
    ELSE IF ~waitOver THEN "wait" ELSE "MATCH"
\* validate_alert_row for a bet at ts that has been waited for, by the payouts T of
\* its player; `waitOver` when the extended wait has ended too.
Verdict(T, ts, waitOver, finalize) ==
    IF T = {} THEN "no bet data"
    ELSE IF ~HasGap(T, ts) /\ LateBets(T, ts) # {} THEN "MISS"
    ELSE IF ~HasGap(T, ts) /\ ~finalize THEN "PENDING"
    ELSE IF ~waitOver THEN "wait"
    ELSE IF LateBets(T, ts) # {} THEN "MISS" ELSE "MATCH"
=============================================================================
