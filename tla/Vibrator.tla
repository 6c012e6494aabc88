------------------------------ MODULE Vibrator ------------------------------
(***************************************************************************)
(* Vibrator.cpp: on, off, perform and setAmplitude over the vendor's       *)
(* aac_vibra library.  The library keeps one amplitude for everything that *)
(* it plays; sLastMode remembers whether it may have to be set back before *)
(* an effect.  A completion callback comes from a detached thread that     *)
(* sleeps as long as the library says that the vibration takes, and that   *)
(* nothing stops.  The service has one binder thread.                      *)
(***************************************************************************)
EXTENDS Naturals

CONSTANTS
    Durations,      \* what the library may answer, in milliseconds
    Thousand,       \* microseconds in a millisecond, scaled
    Width,          \* of useconds_t in bits, scaled
    MaxVibrations   \* bound on the number of vibrations started

ASSUME VibratorAssumption ==
    /\ Durations \subseteq Nat /\ Thousand \in Nat \ {0}
    /\ Width \in Nat /\ MaxVibrations \in Nat
    /\ 2 ^ Width \in Nat \ {0}   \* follows; the provers do not know powers

Ids == 1 .. MaxVibrations

VARIABLES
    sLastMode,
    full,           \* the library's amplitude is 0xFF (external)
    muffled,        \* it is not, and an on() came since, or it could not be set back
    started,        \* number of vibrations started
    motor,          \* what plays: its number and length, microseconds left, whether it
                    \* is an effect, and full and muffled when it began
    owed,           \* vibrations whose client waits for onComplete
    sleeper         \* microseconds left of each completion thread, plus one; 0: none

vibratorVars == <<sLastMode, full, muffled, started, motor, owed, sleeper>>

Modes == {"MODE_NONE", "MODE_TIMEOUT", "MODE_PREBAKED", "MODE_STREAM"}

VibratorType ==
    /\ sLastMode \in Modes /\ full \in BOOLEAN /\ muffled \in BOOLEAN
    /\ started \in 0 .. MaxVibrations
    /\ motor \in [id: 0 .. MaxVibrations, ms: Durations \cup {0}, left: Nat, effect: BOOLEAN,
                  full: BOOLEAN, muffled: BOOLEAN]
    /\ owed \subseteq Ids
    /\ sleeper \in [Ids -> 0 .. 2 ^ Width]

Silence == [id |-> 0, ms |-> 0, left |-> 0, effect |-> FALSE, full |-> TRUE, muffled |-> FALSE]

\* The constructor starts the library, whose amplitude a service that died may
\* have left.
VibratorInit ==
    /\ sLastMode = "MODE_NONE" /\ full \in BOOLEAN /\ muffled = ~full
    /\ started = 0 /\ motor = Silence
    /\ owed = {} /\ sleeper = [v \in Ids |-> 0]

-----------------------------------------------------------------------------

\* usleep(ret * 1000): the product is an int32_t, and an unsigned one to usleep.
Sleep(ms) == (ms * Thousand) % (2 ^ Width)

\* The library starts to play for ms milliseconds; with a callback, a thread
\* is started to sleep as long.
Play(ms, effect, callback) ==
    /\ started < MaxVibrations
    /\ started' = started + 1
    /\ motor' = [id |-> started', ms |-> ms, left |-> ms * Thousand, effect |-> effect,
                 full |-> full', muffled |-> muffled']
    /\ owed' = IF callback THEN owed \cup {started'} ELSE owed
    /\ sleeper' = IF callback THEN [sleeper EXCEPT ![started'] = Sleep(ms) + 1] ELSE sleeper

\* An error of the library leaves all as it is.
on(ms, callback) ==
    /\ sLastMode' = "MODE_TIMEOUT"
    /\ muffled' = (muffled \/ ~full)
    /\ full' = full
    /\ Play(ms, FALSE, callback)

\* Mutant: an effect is played at whatever amplitude there is.
Restore_never(ok) == full

\* The amplitude after perform has set it back, if it has to and if the
\* library does so, which is not looked at.
Restore(ok) == full \/ (sLastMode = "MODE_STREAM" /\ ok)

\* An unsupported effect or strength is refused; an error of the library when
\* it comes to play leaves the amplitude set back and sLastMode as it was.
perform(ms, callback, ok) ==
    /\ full' = Restore(ok)
    /\ muffled' = (~full' /\ (muffled \/ ~ok))
    /\ \/ sLastMode' = "MODE_PREBAKED" /\ Play(ms, TRUE, callback)
       \/ UNCHANGED <<sLastMode, started, motor, owed, sleeper>>

setAmplitude(max) ==
    /\ full' = max
    /\ muffled' = FALSE
    /\ sLastMode' = "MODE_STREAM"
    /\ UNCHANGED <<started, motor, owed, sleeper>>

\* Mutant: who waits is forgotten.
off_forgets ==
    /\ motor # Silence
    /\ motor' = Silence
    /\ sleeper' = [v \in Ids |-> 0]
    /\ UNCHANGED <<sLastMode, full, muffled, started, owed>>

\* The completion threads sleep on.
off ==
    /\ motor # Silence
    /\ motor' = Silence
    /\ UNCHANGED <<sLastMode, full, muffled, started, owed, sleeper>>

-----------------------------------------------------------------------------

\* A microsecond passes.
Microsecond ==
    /\ motor.left > 0 \/ \E v \in Ids : sleeper[v] > 1
    /\ motor' = IF motor.left > 0 THEN [motor EXCEPT !.left = @ - 1] ELSE motor
    /\ sleeper' = [v \in Ids |-> IF sleeper[v] > 1 THEN sleeper[v] - 1 ELSE sleeper[v]]
    /\ UNCHANGED <<sLastMode, full, muffled, started, owed>>

\* The thread calls onComplete.
onComplete(v) ==
    /\ sleeper[v] = 1
    /\ sleeper' = [sleeper EXCEPT ![v] = 0]
    /\ owed' = owed \ {v}
    /\ UNCHANGED <<sLastMode, full, muffled, started, motor>>

VibratorNext ==
    \/ \E ms \in Durations, callback \in BOOLEAN :
         on(ms, callback) \/ \E ok \in BOOLEAN : perform(ms, callback, ok)
    \/ \E max \in BOOLEAN : setAmplitude(max)
    \/ off
    \/ Microsecond \/ \E v \in Ids : onComplete(v)

\* Time goes on and sleeping threads run.
VibratorFairness ==
    WF_vibratorVars(Microsecond) /\ \A v \in Ids : WF_vibratorVars(onComplete(v))

VibratorSpec == VibratorInit /\ [][VibratorNext]_vibratorVars /\ VibratorFairness

-----------------------------------------------------------------------------
(* Properties *)

\* An effect is played at full amplitude, whatever a client set for its own
\* vibration before (133-134, 176-187).  The exceptions: an on() since then,
\* which overwrites MODE_STREAM (85), a library that does not set it back, and
\* an amplitude left by a service that died.
EffectAtFull == motor.effect /\ ~motor.full => motor.muffled

\* Nobody is told that a vibration is complete while it still plays, unless it
\* takes so long that its microseconds do not fit (80, 158).
NotEarly ==
    \A v \in Ids : sleeper[v] = 1 /\ motor.id = v /\ motor.left > 0
      => motor.ms * Thousand >= 2 ^ Width

\* Both, and every variable keeps its type.
VibratorInv == VibratorType /\ EffectAtFull /\ NotEarly

\* Every client that asked for a completion gets it, also when its vibration
\* was stopped or replaced (55-68, 78-83, 156-161).
AllCompleted == \A v \in Ids : v \in owed ~> v \notin owed

=============================================================================
