-------------------------- MODULE MCUdfpsHandler --------------------------
(* Six touch reports are enough for a touch, a lift and a second touch,    *)
(* each while the worker is at any of its locations, and two more of each; *)
(* three ticks separate "before", "at" and "after" the deadline.           *)
EXTENDS UdfpsHandler
=============================================================================
