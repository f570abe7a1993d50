---------------------------- MODULE MCValidator ----------------------------
(* Small instances of the validator.  A time unit stands for a quarter of an  *)
(* hour: the horizon is 1, the gap 2, the look-ahead 3, the extended wait 1   *)
(* and the finality 4; the buffer of two minutes is nothing.                  *)
EXTENDS Validator

MCTwoBets == {1, 2}
MCThreeBets == {1, 2, 3}
MCOnePlayer == {"p"}
MCTwoPlayers == {"p", "q"}
MCNoLag == {0}
MCLags == {0, 2}
=============================================================================
