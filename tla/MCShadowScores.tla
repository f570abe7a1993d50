--------------------------- MODULE MCShadowScores ---------------------------
(* Small instances of the ready queue and the shadow scorer: a main and a     *)
(* side bet of one player-game, whose player may have no Feast entity.        *)
EXTENDS ShadowScores

MCTwoBets == {1, 2}
MCOneGame == {"g1"}
MCOneGameOf == [b \in MCTwoBets |-> "g1"]
MCLags == {0, 1}
=============================================================================
