--------------------------- MODULE MCFeastRefresh ---------------------------
(* Two deploy processes around the turn of a month of two days.              *)
EXTENDS FeastRefresh

MCLayers == {"mid", "slow"}
MCModes == {"plain", "forced", "skip"}
=============================================================================
