------------------------- MODULE MCThermalSliders -------------------------
(* The sliders with the ranges of the code: every reachable position.       *)
EXTENDS ThermalSliders
=============================================================================
