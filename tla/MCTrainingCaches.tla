-------------------------- MODULE MCTrainingCaches --------------------------
(* Small instances of the cached training steps: the cleaning in two buckets, *)
(* one or two policies.                                                       *)
EXTENDS TrainingCaches

MCOnePolicy == {"q99"}
MCTwoPolicies == {"q99", "q50"}
=============================================================================
