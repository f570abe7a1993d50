---------------------------- MODULE MCReadyQueue ----------------------------
(* Small instances of the ready queue: a main and a side bet of one           *)
(* player-game.                                                               *)
EXTENDS ReadyQueue

MCTwoBets == {1, 2}
MCOneGame == {"g1"}
MCOneGameOf == [b \in MCTwoBets |-> "g1"]

MCNoLag == {0}
=============================================================================
