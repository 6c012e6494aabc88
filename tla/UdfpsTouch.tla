---------------------------- MODULE UdfpsTouch ----------------------------
(***************************************************************************)
(* What the under-display fingerprint helper promises its session, without *)
(* threads, locks or request numbers: the life of one touch as the sensor  *)
(* firmware is told about it (goodixExtCmd 1 = finger down, 0 = finger     *)
(* up).  UdfpsHandler.tla is the code and implements this specification;   *)
(* SessionScreen.tla uses the promise instead of the handler.              *)
(***************************************************************************)

VARIABLES
    touch,    \* where the touch is: see Touches
    told      \* what the sensor was last told: TRUE = finger down

touchVars == <<touch, told>>

\* "up"        no finger reported
\* "waiting"   a finger is down, the panel is not yet known to be lit
\* "down"      a finger is down and the sensor knows it
\* "abandoned" a finger is down but the illumination never came
Touches == {"up", "waiting", "down", "abandoned"}

TouchInit == touch = "up" /\ told = FALSE

\* A report of a finger is accepted only when none is being handled.
Press(waitForIllumination) ==
    /\ touch = "up"
    /\ touch' = IF waitForIllumination THEN "waiting" ELSE "down"
    /\ told' = ~waitForIllumination

\* A finger-up is always accepted, and always tells the sensor.
Release == touch' = "up" /\ told' = FALSE

\* The panel lit up while the finger was still there.
Lit == touch = "waiting" /\ touch' = "down" /\ told' = TRUE

\* The illumination was waited for in vain.
Abandon == touch = "waiting" /\ touch' = "abandoned" /\ told' = FALSE

Resolve == Lit \/ Abandon

TouchNext ==
    \/ \E w \in BOOLEAN : Press(w)
    \/ Release
    \/ Resolve

TouchSafety == TouchInit /\ [][TouchNext]_touchVars

=============================================================================
