----------------------------- MODULE AlertPolicy -----------------------------
(***************************************************************************)
(* The player alert policy, trainer_hightier/evaluation/                   *)
(* player_alert_policy.py, as it is used twice: by the scorer, on one      *)
(* batch after another and on the times at which it scores them, and       *)
(* offline, replayed over all candidates of a split on their payout times, *)
(* where the threshold for a wanted number of alerts is searched           *)
(* (alert_band_objective.py).                                              *)
(*                                                                         *)
(* A candidate is a player-game with its score and the payout time of its  *)
(* representative bet; a score of n is written Scale * n, so that there    *)
(* are thresholds between two scores.                                      *)
(***************************************************************************)
EXTENDS Integers, FiniteSets

CONSTANTS
    Candidates,       \* naturals: the tie break
    Owner,            \* candidate -> player
    Cooldown,         \* player_alert_policy.cooldown_min
    MaxLag,           \* how long after its payout a bet may be scored
    Rounds,           \* bisections of the threshold search
    MaxTime, Scores, Scale   \* bounds of the model

ASSUME CandidatesAssumption == Candidates \subseteq Nat /\ IsFiniteSet(Candidates)
ASSUME PolicyAssumption == MaxLag \in Nat /\ Cooldown \in Nat /\ MaxLag < Cooldown
ASSUME ScaleAssumption ==
    /\ Rounds \in Nat \ {0} /\ MaxTime \in Nat
    /\ Scores \subseteq Nat /\ Scale \in Nat \ {0, 1}

VARIABLES
    threshold,  \* the bundle's
    now,        \* when the scorer's last cycle was
    scored,     \* the scored candidates -> payout ts, when they were scored, score
    sent        \* state.db alerts: the candidates that were raised

vars == <<threshold, now, scored, sent>>

Empty == [c \in {} |-> 0]

Lowest(S) == CHOOSE x \in S : \A y \in S : x <= y
Highest(S) == CHOOSE x \in S : \A y \in S : y <= x

-----------------------------------------------------------------------------
(* The policy on a table D of candidates with alert times and scores.      *)

\* The candidates at or above the threshold th.
Above(D, th) == {c \in DOMAIN D : D[c].score >= th}

\* The order of both sorts within a player: time, the higher score, the candidate's id.
Before(D, c, d) ==
    \/ D[c].ts < D[d].ts
    \/ D[c].ts = D[d].ts /\ \/ D[c].score > D[d].score
                            \/ D[c].score = D[d].score /\ c < d

\* A pass takes its candidates in that order and judges each by what it has raised so
\* far; below it is the one set R of candidates that agrees with all these decisions.
RaisedBefore(D, R, c) == {r \in R : Before(D, r, c)}

\* Less than the cooldown cd after the last alert of its player in R.
Suppressed(D, c, R, cd) ==
    \E r \in R : Owner[r] = Owner[c] /\ D[c].ts - D[r].ts < cd

-----------------------------------------------------------------------------
(* The scorer.                                                             *)

\* The alerts table's `ts` is the time of scoring.
Served(D) == [c \in DOMAIN D |-> [ts |-> D[c].at, score |-> D[c].score]]

\* Mutant: the alerts of earlier batches are not looked up.
PriorAlertsMutantBatchOnly(raised) == raised
\* Mutant: the alerts of the batch are not looked up.
PriorAlertsMutantDbOnly(raised) == sent
\* The alerts a candidate is judged by when its batch has raised `raised`: those and
\* the latest of its player in state.db.
PriorAlerts(raised) == raised \cup sent

\* apply_serving_player_alert_suppression on the candidates S of a batch.
Raised(D, S) ==
    CHOOSE R \in SUBSET S :
        \A c \in S :
            c \in R <=> ~Suppressed(D, c, PriorAlerts(RaisedBefore(D, R, c)), Cooldown)

\* The rows of a batch that score_once takes for alerts, before suppression.
AlertCandidates(B) == Above(B, threshold)

Init == /\ threshold \in {Scale * n : n \in Scores}
        /\ now = -1 /\ scored = Empty /\ sent = {}

\* A cycle at the time `at` on the candidates of the table B, a batch.
ScoreBatch(B, at) ==
    LET all == [c \in DOMAIN scored \cup DOMAIN B |-> IF c \in DOMAIN B THEN B[c] ELSE scored[c]]
    IN  /\ now < at
        /\ now' = at
        /\ scored' = all
        /\ sent' = sent \cup Raised(Served(all), AlertCandidates(B))
        /\ UNCHANGED threshold

Batches(S, at) ==
    [S -> [ts : {t \in 0 .. at : at - MaxLag <= t}, at : {at}, score : {Scale * n : n \in Scores}]]

Next == \E S \in SUBSET (Candidates \ DOMAIN scored), at \in 0 .. MaxTime :
            S # {} /\ \E B \in Batches(S, at) : ScoreBatch(B, at)

Spec == Init /\ [][Next]_vars

-----------------------------------------------------------------------------
(* The replay.                                                             *)

\* The candidates of a split have their payout times for alert times.
Split == [c \in DOMAIN scored |-> [ts |-> scored[c].ts, score |-> scored[c].score]]

\* Mutant: a suppressed candidate prolongs the cooldown.
ReplayedMutantProlongs(D, th, cd, raised, c) ==
    ~Suppressed(D, c, {d \in Above(D, th) : Before(D, d, c)}, cd)
\* Whether a replay at the threshold th with the cooldown cd raises a candidate.
Replayed(D, th, cd, raised, c) == ~Suppressed(D, c, raised, cd)

\* simulate_player_cooldown_alerts: the alerts of a replay.
Simulated(D, th, cd) ==
    LET S == Above(D, th)
    IN  CHOOSE R \in SUBSET S :
            \A c \in S : c \in R <=> Replayed(D, th, cd, RaisedBefore(D, R, c), c)

\* operational_simulated_metrics_block: the number of alerts.
Alerts(D, th) == Cardinality(Simulated(D, th, Cooldown))

-----------------------------------------------------------------------------
(* threshold_for_target_operational_alerts.                                *)

Distance(m, n) == IF m < n THEN n - m ELSE m - n

\* Mutant: the first threshold within the target is taken.
BetterMutantWithin(target, alerts, best) == alerts <= target /\ best > target
\* So many alerts are closer to the target than the best so far.
Better(target, alerts, best) == Distance(alerts, target) < Distance(best, target)

\* One bisection; the best threshold so far and its alerts, as a set of one.
Bisect(D, target, s) ==
    LET mid == (s.lo + s.hi) \div 2
        n   == Alerts(D, mid)
    IN  [lo   |-> IF n > target THEN mid ELSE s.lo,
         hi   |-> IF n > target THEN s.hi ELSE mid,
         best |-> IF \A b \in s.best : Better(target, n, b.alerts)
                  THEN {[threshold |-> mid, alerts |-> n]} ELSE s.best]

\* The search begins with the range of the scores; the margin around it, 1e-9, is 2.
SearchStart(D) ==
    LET S == {D[c].score : c \in DOMAIN D}
    IN  [lo |-> Lowest(S) - 2, hi |-> Highest(S) + 2, best |-> {}]

\* Its points, one after each round.
Search(D, target) ==
    LET point[i \in 0 .. Rounds] ==
            IF i = 0 THEN SearchStart(D) ELSE Bisect(D, target, point[i - 1])
    IN  point

\* The best threshold after all rounds, with its alerts.
Picked(D, target) == Search(D, target)[Rounds].best

Thresholds == {Scale * n + d : n \in Scores, d \in {0, 1}}

-----------------------------------------------------------------------------
(* Properties.                                                             *)

CountOf(S, p) == Cardinality({c \in S : Owner[c] = p})

\* Player by player, the alerts of the scorer lie between those of a replay with the
\* cooldown longer and shorter by the scoring lag, in whatever batches and order the
\* bets came: what is planned offline on payout times is kept on scoring times.
ReplayBracketsServing ==
    LET fewer == Simulated(Split, threshold, Cooldown + MaxLag)
        more  == Simulated(Split, threshold, Cooldown - MaxLag)
    IN  \A c \in Candidates :
            /\ CountOf(fewer, Owner[c]) <= CountOf(sent, Owner[c])
            /\ CountOf(sent, Owner[c]) <= CountOf(more, Owner[c])

\* With the same lag for all bets the scorer raises the very alerts of the replay,
\* however they are cut into batches.
ReplayAgreesAtOneLag ==
    (\A c, d \in DOMAIN scored : scored[c].at - scored[c].ts = scored[d].at - scored[d].ts)
        => sent = Simulated(Split, threshold, Cooldown)

\* A lower threshold never gives fewer alerts, though it lets in candidates that
\* suppress others: the assumption behind the bisection.
AlertsFallWithThreshold ==
    \A th \in Thresholds : threshold <= th => Alerts(Split, th) <= Alerts(Split, threshold)

\* The search finds a threshold whose number of alerts no other threshold brings
\* closer to the target, also when candidates share a score.
SearchIsClosest ==
    LET counts == {Alerts(Split, th) : th \in Thresholds} IN
    scored # Empty =>
        \A target \in 1 .. Cardinality(DOMAIN scored) :
            \A point \in Picked(Split, target), n \in counts :
                Distance(point.alerts, target) <= Distance(n, target)
=============================================================================
