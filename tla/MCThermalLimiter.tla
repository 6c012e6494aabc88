------------------------- MODULE MCThermalLimiter -------------------------
(* One app to select, in front or not; two messages of each other kind in    *)
(* the queue; one failed write; the default thresholds, and one reading for  *)
(* each thermal state, one of them in hundredths of a degree, and one that   *)
(* is out of range.                                                          *)
EXTENDS ThermalLimiter

ReadingsDef == {300, 400, 444, 4500, 9000}
=============================================================================
