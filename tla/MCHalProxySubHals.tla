------------------------- MODULE MCHalProxySubHals -------------------------
(* Three sub-HALs: a roll-back needs two that accept before one refuses; the *)
(* repository's own is in the middle, so that sub-HALs on both sides of it    *)
(* can have the direct channel and be cut off by a failed initialize.  The    *)
(* first has two dynamic sensors, one with a handle whose first byte is that  *)
(* of the repository's own sensor.                                            *)
EXTENDS HalProxySubHals

Sensor(h, d) == [handle |-> h, direct |-> d]
Lists == {{}, {Sensor(1, FALSE)}, {Sensor(1, TRUE)}, {Sensor(Base + 1, TRUE)}}
=============================================================================
