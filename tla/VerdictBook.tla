---------------------------- MODULE VerdictBook ----------------------------
(***************************************************************************)
(* What the validator promises about alerts: an alert gets a verdict,      *)
(* which may be revised while the alert is open; the alert is closed on a  *)
(* MATCH or a MISS, and what an alert was closed on never changes.         *)
(***************************************************************************)
CONSTANT Bets

VARIABLES verdict,   \* the alerts that have a verdict -> the verdict
          closed     \* the alerts that will not be looked at again

Verdicts == {"MATCH", "MISS", "PENDING"}

Init == verdict = [b \in {} |-> "PENDING"] /\ closed = {}

Revise ==
    /\ \E D \in SUBSET Bets : verdict' \in [D -> Verdicts]
    /\ DOMAIN verdict \subseteq DOMAIN verdict'
    /\ \A b \in closed : verdict'[b] = verdict[b]
    /\ UNCHANGED closed

Close ==
    /\ closed \subseteq closed'
    /\ \A b \in closed' : b \in DOMAIN verdict /\ verdict[b] # "PENDING"
    /\ UNCHANGED verdict

Spec == Init /\ [][Revise \/ Close]_<<verdict, closed>>
=============================================================================
