----------------------------- MODULE MCScorer ------------------------------
(* Small instances of the scorer: player p1 plays games g1 and g2, p2 plays g1. *)
EXTENDS Scorer

MCPlayers == {"p1", "p2"}
MCGames == {"g1", "g2"}

\* Two bets of one player in two games.
MCTwoBets == {1, 2}
MCTwoOwner == [b \in MCTwoBets |-> "p1"]
MCTwoGame == [b \in MCTwoBets |-> IF b = 1 THEN "g1" ELSE "g2"]

\* A third bet, of another player, in the first player's game.
MCThreeBets == {1, 2, 3}
MCThreeOwner == [b \in MCThreeBets |-> IF b = 3 THEN "p2" ELSE "p1"]
MCThreeGame == [b \in MCThreeBets |-> IF b = 2 THEN "g2" ELSE "g1"]

MCAllowP1 == {"p1"}
MCNobody == {}
MCNoLag == {0}
=============================================================================
