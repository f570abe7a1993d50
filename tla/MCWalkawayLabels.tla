-------------------------- MODULE MCWalkawayLabels --------------------------
(* Small instances of the labels.  A time unit stands for a quarter of an     *)
(* hour: the horizon is 1, the gap 2, the look-ahead 3; a month is 5 units.   *)
EXTENDS WalkawayLabels

MCBets == {1, 2, 3, 4}
MCPlayers == {"p", "q"}
=============================================================================
