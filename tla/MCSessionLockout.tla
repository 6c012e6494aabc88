------------------------- MODULE MCSessionLockout -------------------------
(* Two sessions, thresholds of two and three attempts, one attempt more,    *)
(* and a lockout of one tick: every mode, and every order of a timer, a    *)
(* reset, a new session and an attempt.                                     *)
EXTENDS SessionLockout
=============================================================================
