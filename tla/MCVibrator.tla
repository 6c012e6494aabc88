----------------------------- MODULE MCVibrator -----------------------------
(* Two microseconds to the millisecond and three bits: three milliseconds fit, *)
(* five do not and are slept as one.  Three vibrations: one that is replaced   *)
(* while its thread sleeps on, and one that comes between amplitude and effect.*)
EXTENDS Vibrator
=============================================================================
