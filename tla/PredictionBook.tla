--------------------------- MODULE PredictionBook ---------------------------
(***************************************************************************)
(* What the validator promises about predictions: a prediction gets a      *)
(* verdict, which may be revised while the prediction is open; it is       *)
(* closed on a MATCH or a MISS, and the verdict of a closed prediction     *)
(* does not change.  Verdicts and marks expire: a closed prediction may    *)
(* lose its verdict and keeps none when it is open again.                  *)
(***************************************************************************)
CONSTANT Bets

VARIABLES verdict,   \* the predictions that have a verdict -> the verdict
          closed     \* the predictions that will not be looked at again

Verdicts == {"MATCH", "MISS", "PENDING"}

Init == verdict = [b \in {} |-> "PENDING"] /\ closed = {}

\* A closed prediction keeps its verdict, or its lack of one.
Revise ==
    /\ \E D \in SUBSET Bets : verdict' \in [D -> Verdicts]
    /\ DOMAIN verdict \subseteq DOMAIN verdict'
    /\ \A b \in closed \cap DOMAIN verdict' :
           b \in DOMAIN verdict /\ verdict'[b] = verdict[b]
    /\ UNCHANGED closed

Close ==
    /\ closed \subseteq closed'
    /\ \A b \in closed' \ closed : b \in DOMAIN verdict /\ verdict[b] # "PENDING"
    /\ UNCHANGED verdict

Expire ==
    /\ DOMAIN verdict' \subseteq DOMAIN verdict
    /\ verdict' = [b \in DOMAIN verdict' |-> verdict[b]]
    /\ closed' \subseteq closed
    /\ \A b \in closed \ closed' : b \notin DOMAIN verdict'

Spec == Init /\ [][Revise \/ Close \/ Expire]_<<verdict, closed>>
=============================================================================
