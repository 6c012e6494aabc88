------------------------- MODULE MCOneShotSensor -------------------------
(* Three activations, so that one can follow a late event and another one   *)
(* overlap with it; room for three bytes in the pipe, so that some are    *)
(* left over when the thread polls again.                                  *)
EXTENDS OneShotSensor
=============================================================================
