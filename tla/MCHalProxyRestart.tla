------------------------- MODULE MCHalProxyRestart -------------------------
(* The framework connects, the sensor is enabled up to twice, and the        *)
(* framework connects again; queues of one, so that the second event waits   *)
(* for the writer.                                                           *)
EXTENDS HalProxyRestart
=============================================================================
