------------------------- MODULE MCPredictionPhase -------------------------
(* Small instances of the prediction phase.  A time unit stands for a quarter *)
(* of an hour; the gap, the horizon, the extended wait are 1, the look-ahead  *)
(* is 2, the finality 3, and the buffer of two minutes is nothing.  The       *)
(* retention, in days, is 1, so that verdicts and marks expire while the      *)
(* phase still works on other predictions.                                    *)
EXTENDS PredictionPhase

MCBets == {1, 2}
MCPlayers == {"p", "q"}
MCLags == {0}
MCOwner == [b \in MCBets |-> IF b = 1 THEN {"p"} ELSE MCPlayers]
MCFirst == {1}
=============================================================================
