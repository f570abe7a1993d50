--------------------------- MODULE MCAlertPolicy ---------------------------
(* Small instances of the alert policy: four candidates, one of them of a     *)
(* second player, with scores and times that may coincide.                    *)
EXTENDS AlertPolicy

MCCandidates == {1, 2, 3, 4}
MCOwner == [c \in MCCandidates |-> IF c = 4 THEN "q" ELSE "p"]
MCScores == {1, 2}
=============================================================================
