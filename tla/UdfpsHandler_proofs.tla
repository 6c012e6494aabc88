------------------------ MODULE UdfpsHandler_proofs ------------------------
(***************************************************************************)
(* Proofs about the two HALs whose threads sleep against a clock.          *)
(*                                                                         *)
(* UdfpsHandler, for every bound MaxRequestId and every deadline           *)
(* WaitTicks.  SafetyInv is inductive with TypeOK: an announced touch is   *)
(* in progress and is no longer pending, so the worker, which announces    *)
(* only what is pending, never announces a lifted finger.  FullWait needs  *)
(* more: the worker's deadline and the age of the touch it polls for have  *)
(* to be related (DeadlineInv).                                            *)
(*                                                                         *)
(* Vibrator, for all durations and every width of useconds_t.  That an     *)
(* effect plays at full amplitude rests on what the mode of the last call  *)
(* says about an amplitude that is not full (ModeInv); that no completion  *)
(* is early, on a thread that sleeps as long as its vibration plays        *)
(* (SleeperInv).                                                           *)
(***************************************************************************)
EXTENDS UdfpsHandler, Vibrator, TLAPS

\* The fields of UdfpsHandler always have their types, whatever the
\* interleaving of run(), onUiReady, onFingerUp and the destructor.
THEOREM TypeCorrect == Spec => []TypeOK
<1>1. Init => TypeOK
  <2> SUFFICES ASSUME Init PROVE TypeOK
    OBVIOUS
  <2>1. /\ mStopped \in BOOLEAN /\ mFingerDown \in BOOLEAN /\ mPending \in BOOLEAN
        /\ woken \in BOOLEAN /\ told \in BOOLEAN
    BY Zenon DEF Init
  <2>2. /\ mRequestId \in 0 .. MaxRequestId /\ requestId \in 0 .. MaxRequestId
        /\ left \in 0 .. WaitTicks /\ age \in 0 .. WaitTicks
    BY UdfpsAssumption, SMT DEF Init
  <2>3. pc \in Locations /\ life \in {"alive", "joining", "gone"}
    BY DEF Init, Locations
  <2> QED
    BY <2>1, <2>2, <2>3, Zenon DEF TypeOK
<1>2. TypeOK /\ [Next]_vars => TypeOK'
  <2> SUFFICES ASSUME TypeOK, [Next]_vars PROVE TypeOK'
    OBVIOUS
  <2> USE UdfpsAssumption DEF TypeOK, Locations
  <2>1. ASSUME NEW w \in BOOLEAN, onUiReady(w) PROVE TypeOK'
    <3>1. woken' \in BOOLEAN
      BY <2>1, Zenon DEF onUiReady, NotifyAll
    <3>2. mPending' \in BOOLEAN /\ told' \in BOOLEAN /\ mFingerDown' \in BOOLEAN
      BY <2>1, Zenon DEF onUiReady
    <3>3. mRequestId' \in 0 .. MaxRequestId /\ age' \in 0 .. WaitTicks
      BY <2>1 DEF onUiReady
    <3>4. UNCHANGED <<mStopped, pc, requestId, left, life>>
      BY <2>1 DEF onUiReady
    <3> QED
      BY <3>1, <3>2, <3>3, <3>4
  <2>2. CASE onFingerUp
    <3>1. woken' \in BOOLEAN
      BY <2>2, Zenon DEF onFingerUp, NotifyAll
    <3>2. mPending' \in BOOLEAN /\ told' \in BOOLEAN /\ mFingerDown' \in BOOLEAN
      BY <2>2, Zenon DEF onFingerUp
    <3>3. mRequestId' \in 0 .. MaxRequestId
      BY <2>2 DEF onFingerUp
    <3>4. UNCHANGED <<mStopped, pc, requestId, left, age, life>>
      BY <2>2 DEF onFingerUp, clocks
    <3> QED
      BY <3>1, <3>2, <3>3, <3>4
  <2>3. CASE Destroy
    <3>1. woken' \in BOOLEAN
      BY <2>3, Zenon DEF Destroy, NotifyAll
    <3> QED
      BY <2>3, <3>1 DEF Destroy, clocks
  <2>4. CASE Join
    BY <2>4 DEF Join, fields, worker, clocks
  <2>5. CASE Lock
    BY <2>5 DEF Lock, fields, clocks
  <2>6. CASE Outer
    BY <2>6 DEF Outer, fields
  <2>7. CASE Superseded
    BY <2>7 DEF Superseded, fields, clocks
  <2>8. CASE ReadFails
    BY <2>8 DEF ReadFails, clocks
  <2>9. CASE Illuminated
    BY <2>9 DEF Illuminated, clocks
  <2>10. CASE TimedOut
    BY <2>10 DEF TimedOut, clocks
  <2>11. CASE PollAgain
    BY <2>11 DEF PollAgain, fields, clocks
  <2>12. CASE SpuriousWakeup
    BY <2>12 DEF SpuriousWakeup, fields, clocks
  <2>13. CASE Tick
    BY <2>13 DEF Tick, fields, worker
  <2>14. CASE UNCHANGED vars
    BY <2>14 DEF vars, fields, worker, clocks
  <2> QED
    BY <2>1, <2>2, <2>3, <2>4, <2>5, <2>6, <2>7, <2>8, <2>9, <2>10, <2>11,
       <2>12, <2>13, <2>14 DEF Next, Worker, Finished
<1> QED
  BY <1>1, <1>2, PTL DEF Spec

\* One step of any thread keeps SafetyInv.
LEMMA SafetyStep == TypeOK /\ SafetyInv /\ [Next]_vars => SafetyInv'
<1> SUFFICES ASSUME TypeOK, SafetyInv, [Next]_vars PROVE SafetyInv'
  OBVIOUS
<1> USE DEF TypeOK, SafetyInv, ToldDownOnlyDuringTouch, PendingNotAnnounced
<1>1. ASSUME NEW w \in BOOLEAN, onUiReady(w) PROVE SafetyInv'
  BY <1>1 DEF onUiReady
<1>2. CASE onFingerUp
  BY <1>2 DEF onFingerUp
<1>3. CASE Destroy \/ Join \/ Tick
  BY <1>3 DEF Destroy, Join, Tick, fields
<1>4. CASE Lock \/ Outer \/ Superseded \/ PollAgain \/ SpuriousWakeup
  BY <1>4 DEF Lock, Outer, Superseded, PollAgain, SpuriousWakeup, fields
<1>5. CASE ReadFails \/ TimedOut
  BY <1>5 DEF ReadFails, TimedOut
<1>6. CASE Illuminated
  \* The request is pending, hence its finger is still down.
  BY <1>6 DEF Illuminated, Current
<1>7. CASE UNCHANGED vars
  BY <1>7 DEF vars, fields
<1> QED
  BY <1>1, <1>2, <1>3, <1>4, <1>5, <1>6, <1>7 DEF Next, Worker, Finished

\* The sensor is told "finger down" only for the touch in progress, and a
\* touch is announced at most once.
THEOREM SafetyHolds == Spec => []SafetyInv
<1>1. Init => SafetyInv
  BY DEF Init, SafetyInv, ToldDownOnlyDuringTouch, PendingNotAnnounced
<1> QED
  BY <1>1, SafetyStep, TypeCorrect, PTL DEF Spec

-----------------------------------------------------------------------------
\* While the worker polls for the touch in progress, that touch is at least
\* as old as the part of the deadline that has passed; the worker's copy of
\* the request number never runs ahead of the counter.
DeadlineInv ==
    /\ requestId <= mRequestId
    /\ pc \in {"poll", "sleep"} /\ requestId = mRequestId
          => WaitTicks - left <= age

\* One step of any thread keeps DeadlineInv: a new touch gets a new number,
\* so the worker's old deadline no longer speaks about it.
LEMMA DeadlineStep == TypeOK /\ DeadlineInv /\ [Next]_vars => DeadlineInv'
<1> SUFFICES ASSUME TypeOK, DeadlineInv, [Next]_vars PROVE DeadlineInv'
  OBVIOUS
<1> USE UdfpsAssumption DEF TypeOK, DeadlineInv
<1>1. ASSUME NEW w \in BOOLEAN, onUiReady(w) PROVE DeadlineInv'
  BY <1>1 DEF onUiReady
<1>2. CASE onFingerUp
  BY <1>2 DEF onFingerUp, clocks
<1>3. CASE Destroy
  BY <1>3 DEF Destroy, clocks
<1>4. CASE Join
  BY <1>4 DEF Join, fields, worker, clocks
<1>5. CASE Lock \/ Superseded \/ PollAgain \/ SpuriousWakeup
  BY <1>5 DEF Lock, Superseded, PollAgain, SpuriousWakeup, fields, clocks
<1>6. CASE Outer
  BY <1>6 DEF Outer, fields
<1>7. CASE ReadFails \/ TimedOut \/ Illuminated
  BY <1>7 DEF ReadFails, TimedOut, Illuminated, clocks
<1>8. CASE Tick
  BY <1>8 DEF Tick, fields, worker
<1>9. CASE UNCHANGED vars
  BY <1>9 DEF vars, fields, worker, clocks
<1> QED
  BY <1>1, <1>2, <1>3, <1>4, <1>5, <1>6, <1>7, <1>8, <1>9 DEF Next, Worker, Finished

\* A touch is given up only after its own full wait: the request number
\* keeps the worker from applying an older touch's deadline.
THEOREM FullWaitHolds == Spec => FullWait
<1>1. Init => DeadlineInv
  BY UdfpsAssumption DEF Init, DeadlineInv
<1>2. TypeOK /\ DeadlineInv => (TimedOut => age = WaitTicks)
  BY UdfpsAssumption DEF TypeOK, DeadlineInv, TimedOut, Current
<1>3. TypeOK /\ DeadlineInv => [TimedOut => age = WaitTicks]_vars
  BY <1>2
<1> QED
  BY <1>1, <1>3, DeadlineStep, TypeCorrect, PTL DEF Spec, FullWait

-----------------------------------------------------------------------------
\* The code implements the abstract touch: the session may reason with
\* UdfpsTouch and forget the worker, the mutex and the request numbers.
THEOREM RefinesTouch == Spec => ImplementsTouch
<1>1. Init => Touch!TouchInit
  BY Zenon DEF Init, Touch!TouchInit, touchBar
<1>2. TypeOK /\ SafetyInv /\ [Next]_vars => [Touch!TouchNext]_(Touch!touchVars)
  <2> SUFFICES ASSUME TypeOK, SafetyInv, [Next]_vars
               PROVE  Touch!TouchNext \/ UNCHANGED Touch!touchVars
    OBVIOUS
  <2> USE DEF TypeOK, SafetyInv, ToldDownOnlyDuringTouch, PendingNotAnnounced,
              Touch!touchVars
  <2>1. ASSUME NEW w \in BOOLEAN, onUiReady(w) PROVE Touch!Press(w)
    <3>1. touchBar = "up"
      BY <2>1 DEF onUiReady, touchBar
    <3>2. CASE w = TRUE
      <4>1. mFingerDown' = TRUE /\ mPending' = TRUE /\ told' = FALSE
        BY <2>1, <3>2 DEF onUiReady
      <4> QED
        BY <3>1, <3>2, <4>1, Zenon DEF touchBar, Touch!Press
    <3>3. CASE w = FALSE
      <4>1. mFingerDown' = TRUE /\ mPending' = FALSE /\ told' = TRUE
        BY <2>1, <3>3 DEF onUiReady
      <4>2. touchBar' = "down"
        BY <4>1 DEF touchBar
      <4> QED
        BY <3>1, <3>3, <4>1, <4>2, Zenon DEF Touch!Press
    <3> QED
      BY <3>2, <3>3
  <2>2. CASE onFingerUp
    BY <2>2 DEF onFingerUp, touchBar, Touch!Release, Touch!TouchNext
  <2>3. CASE Destroy \/ Join \/ Tick
    BY <2>3 DEF Destroy, Join, Tick, fields, touchBar
  <2>4. CASE Lock \/ Outer \/ Superseded \/ PollAgain \/ SpuriousWakeup
    BY <2>4 DEF Lock, Outer, Superseded, PollAgain, SpuriousWakeup, fields, touchBar
  <2>5. CASE ReadFails \/ TimedOut
    <3>1. Touch!Abandon
      BY <2>5 DEF ReadFails, TimedOut, Current, touchBar, Touch!Abandon
    <3> QED
      BY <3>1 DEF Touch!Resolve, Touch!TouchNext
  <2>6. CASE Illuminated
    <3>1. Touch!Lit
      BY <2>6 DEF Illuminated, Current, touchBar, Touch!Lit
    <3> QED
      BY <3>1 DEF Touch!Resolve, Touch!TouchNext
  <2>7. CASE UNCHANGED vars
    BY <2>7 DEF vars, fields, touchBar
  <2> QED
    BY <2>1, <2>2, <2>3, <2>4, <2>5, <2>6, <2>7
       DEF Next, Worker, Finished, Touch!TouchNext
<1> QED
  BY <1>1, <1>2, TypeCorrect, SafetyHolds, PTL
     DEF Spec, ImplementsTouch, Touch!TouchSafety

-----------------------------------------------------------------------------
(* The vibrator *)

\* An amplitude that is not full was set by the last call, or is known not to
\* be set back by the next effect.
ModeInv == ~full => sLastMode = "MODE_STREAM" \/ muffled

\* A thread belongs to a vibration that was started, and that of the one that
\* plays sleeps at least as long as it plays, if its microseconds fit.
SleeperInv ==
    /\ \A v \in Ids : v > started => sleeper[v] = 0
    /\ \A v \in Ids : sleeper[v] > 0 /\ motor.id = v /\ motor.ms * Thousand < 2 ^ Width
         => motor.left <= sleeper[v] - 1

\* Every client that waits has a thread that will call it.
OwedHaveThreads == \A v \in owed : sleeper[v] > 0

\* The inductive invariant.
PlayInv == VibratorType /\ EffectAtFull /\ ModeInv /\ SleeperInv /\ OwedHaveThreads

\* The microseconds of a vibration and of its thread: the same if they fit.
LEMMA SleepBounds ==
    ASSUME NEW ms \in Durations
    PROVE  /\ ms * Thousand \in Nat /\ Sleep(ms) \in Nat /\ Sleep(ms) + 1 <= 2 ^ Width
           /\ ms * Thousand < 2 ^ Width => Sleep(ms) = ms * Thousand
<1> DEFINE us == ms * Thousand
           w == 2 ^ Width
<1>1. us \in Nat
    BY VibratorAssumption
<1>2. w \in Nat \ {0}
    BY VibratorAssumption
<1> HIDE DEF us, w
<1>3. us % w \in Nat /\ us % w < w /\ (us < w => us % w = us)
    BY <1>1, <1>2
<1>4. Sleep(ms) = us % w
    BY DEF Sleep, us, w
<1>5. Sleep(ms) \in Nat /\ Sleep(ms) + 1 <= w /\ (us < w => Sleep(ms) = us)
    BY <1>2, <1>3, <1>4
<1> QED BY <1>1, <1>5 DEF us, w

\* A vibration that starts keeps the invariant, if an effect starts at full
\* amplitude or muffled.
LEMMA PlayKeeps ==
    ASSUME PlayInv, NEW ms \in Durations, NEW effect \in BOOLEAN, NEW callback \in BOOLEAN,
           Play(ms, effect, callback), sLastMode' \in Modes, full' \in BOOLEAN,
           muffled' \in BOOLEAN, ~full' => sLastMode' = "MODE_STREAM" \/ muffled',
           effect /\ ~full' => muffled'
    PROVE  PlayInv'
<1> DEFINE us == ms * Thousand
           w == 2 ^ Width
           s == Sleep(ms)
           new == started + 1
<1>1. us \in Nat /\ s \in Nat /\ s + 1 <= w /\ (us < w => s = us) /\ w \in Nat
    BY SleepBounds, VibratorAssumption
<1>2. /\ new \in Ids /\ started' = new /\ started \in Nat
      /\ motor' = [id |-> new, ms |-> ms, left |-> us, effect |-> effect, full |-> full',
                   muffled |-> muffled']
      /\ owed' = IF callback THEN owed \cup {new} ELSE owed
      /\ sleeper' = IF callback THEN [sleeper EXCEPT ![new] = s + 1] ELSE sleeper
    BY VibratorAssumption DEF Play, PlayInv, VibratorType, Ids
<1>3. /\ sleeper \in [Ids -> 0 .. w] /\ owed \subseteq Ids
      /\ \A v \in Ids : v > started => sleeper[v] = 0
      /\ \A v \in owed : sleeper[v] > 0
    BY DEF PlayInv, VibratorType, SleeperInv, OwedHaveThreads
<1>4. motor'.ms * Thousand = us /\ motor'.left = us /\ motor'.id = new
    BY <1>2
<1> HIDE DEF us, s, w, new
<1>5. VibratorType'
  <2>1. sleeper' \in [Ids -> 0 .. w] /\ owed' \subseteq Ids
      BY <1>1, <1>2, <1>3
  <2>2. motor' \in [id: 0 .. MaxVibrations, ms: Durations \cup {0}, left: Nat, effect: BOOLEAN,
                    full: BOOLEAN, muffled: BOOLEAN]
    <3>1. new \in 0 .. MaxVibrations
        BY <1>2 DEF Ids
    <3> QED BY <1>1, <1>2, <3>1
  <2>3. started' \in 0 .. MaxVibrations
      BY <1>2 DEF Ids
  <2> QED BY <2>1, <2>2, <2>3 DEF VibratorType, w
<1>6. EffectAtFull' /\ ModeInv'
    BY <1>2 DEF EffectAtFull, ModeInv
<1>7. SleeperInv'
  <2>1. ASSUME NEW v \in Ids, v > started' PROVE sleeper'[v] = 0
      BY <1>2, <1>3, <2>1 DEF Ids, new
  <2>2. ASSUME NEW v \in Ids, sleeper'[v] > 0, motor'.id = v, motor'.ms * Thousand < w
        PROVE  motor'.left <= sleeper'[v] - 1
    <3>1. v = new /\ us < w /\ sleeper[new] = 0
        BY <1>2, <1>3, <1>4, <2>2 DEF new
    <3>2. sleeper'[new] = s + 1
        BY <1>2, <1>3, <2>2, <3>1
    <3> QED BY <1>1, <1>4, <3>1, <3>2
  <2> QED BY <2>1, <2>2 DEF SleeperInv, w
<1>8. OwedHaveThreads'
    BY <1>1, <1>2, <1>3 DEF OwedHaveThreads
<1> QED BY <1>5, <1>6, <1>7, <1>8 DEF PlayInv

\* The calls of clients keep the invariant.
LEMMA CallKeeps ==
    ASSUME PlayInv,
           \/ \E ms \in Durations, callback \in BOOLEAN :
                on(ms, callback) \/ \E ok \in BOOLEAN : perform(ms, callback, ok)
           \/ \E max \in BOOLEAN : setAmplitude(max)
           \/ off
    PROVE  PlayInv'
<1>0. full \in BOOLEAN /\ muffled \in BOOLEAN /\ ModeInv
    BY DEF PlayInv, VibratorType
<1>1. ASSUME NEW ms \in Durations, NEW callback \in BOOLEAN, on(ms, callback) PROVE PlayInv'
  <2>1. /\ sLastMode' \in Modes /\ full' \in BOOLEAN /\ muffled' \in BOOLEAN
        /\ ~full' => muffled'
      BY <1>0, <1>1, Zenon DEF on, Modes
  <2>2. Play(ms, FALSE, callback) /\ FALSE \in BOOLEAN
      BY <1>1 DEF on
  <2> QED BY <2>1, <2>2, PlayKeeps
<1>2. ASSUME NEW ms \in Durations, NEW callback \in BOOLEAN, NEW ok \in BOOLEAN,
             perform(ms, callback, ok)
      PROVE  PlayInv'
  <2>1. full' \in BOOLEAN /\ muffled' \in BOOLEAN /\ (~full' => muffled')
      BY <1>0, <1>2, Zenon DEF perform, Restore, ModeInv
  <2>2. CASE sLastMode' = "MODE_PREBAKED" /\ Play(ms, TRUE, callback)
    <3>1. sLastMode' \in Modes /\ TRUE \in BOOLEAN
        BY <2>2 DEF Modes
    <3> QED BY <2>1, <2>2, <3>1, PlayKeeps
  <2>3. CASE UNCHANGED <<sLastMode, started, motor, owed, sleeper>>
      BY <2>1, <2>3 DEF PlayInv, VibratorType, EffectAtFull, ModeInv, SleeperInv,
                        OwedHaveThreads
  <2> QED BY <1>2, <2>2, <2>3 DEF perform
<1>3. ASSUME NEW max \in BOOLEAN, setAmplitude(max) PROVE PlayInv'
    BY <1>3 DEF setAmplitude, PlayInv, VibratorType, EffectAtFull, ModeInv, SleeperInv,
                OwedHaveThreads, Modes
<1>4. CASE off
  <2>1. motor' \in [id: 0 .. MaxVibrations, ms: Durations \cup {0}, left: Nat, effect: BOOLEAN,
                    full: BOOLEAN, muffled: BOOLEAN]
        /\ motor'.id = 0 /\ ~motor'.effect
      BY <1>4, VibratorAssumption DEF off, Silence
  <2>2. \A v \in Ids : motor'.id # v
      BY <2>1, VibratorAssumption DEF Ids
  <2> QED BY <1>4, <2>1, <2>2 DEF off, PlayInv, VibratorType, EffectAtFull, ModeInv,
                                  SleeperInv, OwedHaveThreads
<1> QED BY <1>1, <1>2, <1>3, <1>4

\* So does the passing of time: the thread's time passes with the motor's.
LEMMA MicrosecondKeeps ==
    ASSUME PlayInv, Microsecond
    PROVE  PlayInv'
<1> DEFINE w == 2 ^ Width
           fits == motor.ms * Thousand < w
<1>1. /\ motor.left \in Nat /\ w \in Nat /\ sleeper \in [Ids -> 0 .. w]
      /\ motor \in [id: 0 .. MaxVibrations, ms: Durations \cup {0}, left: Nat,
                    effect: BOOLEAN, full: BOOLEAN, muffled: BOOLEAN]
    BY VibratorAssumption DEF PlayInv, VibratorType
<1>2. /\ \A v \in Ids : v > started => sleeper[v] = 0
      /\ \A v \in Ids : sleeper[v] > 0 /\ motor.id = v /\ fits => motor.left <= sleeper[v] - 1
      /\ \A v \in owed : sleeper[v] > 0
      /\ owed \subseteq Ids
    BY DEF PlayInv, SleeperInv, OwedHaveThreads, VibratorType
<1>3. motor' = IF motor.left > 0 THEN [motor EXCEPT !.left = motor.left - 1] ELSE motor
    BY DEF Microsecond
<1>4. /\ motor'.id = motor.id /\ motor'.ms = motor.ms
      /\ motor'.left = IF motor.left > 0 THEN motor.left - 1 ELSE motor.left
      /\ motor'.effect = motor.effect /\ motor'.full = motor.full
      /\ motor'.muffled = motor.muffled
    BY <1>1, <1>3
<1>5. /\ \A v \in Ids : sleeper'[v] = IF sleeper[v] > 1 THEN sleeper[v] - 1 ELSE sleeper[v]
      /\ sleeper' = [v \in Ids |-> IF sleeper[v] > 1 THEN sleeper[v] - 1 ELSE sleeper[v]]
      /\ UNCHANGED <<sLastMode, full, muffled, started, owed>>
    BY DEF Microsecond
<1>6. motor' \in [id: 0 .. MaxVibrations, ms: Durations \cup {0}, left: Nat,
                  effect: BOOLEAN, full: BOOLEAN, muffled: BOOLEAN]
    BY <1>1, <1>3
<1>7. (motor'.ms * Thousand < w) = fits
    BY <1>4
<1> HIDE DEF w, fits
<1>8. sleeper' \in [Ids -> 0 .. w]
    BY <1>1, <1>5
<1>9. VibratorType'
    BY <1>5, <1>6, <1>8 DEF PlayInv, VibratorType, w
<1>10. ASSUME NEW v \in Ids, sleeper'[v] > 0, motor'.id = v, fits
       PROVE  motor'.left <= sleeper'[v] - 1
  <2>1. sleeper[v] \in Nat /\ sleeper[v] > 0 /\ motor.id = v
      BY <1>1, <1>4, <1>5, <1>10
  <2> QED BY <1>1, <1>2, <1>4, <1>5, <1>10, <2>1
<1>11. SleeperInv'
  <2>1. \A v \in Ids : v > started' => sleeper'[v] = 0
      BY <1>2, <1>5
  <2> QED BY <1>7, <1>10, <2>1 DEF SleeperInv, w
<1>12. OwedHaveThreads'
    BY <1>1, <1>2, <1>5 DEF OwedHaveThreads
<1>13. EffectAtFull' /\ ModeInv'
    BY <1>4, <1>5 DEF PlayInv, EffectAtFull, ModeInv
<1> QED BY <1>9, <1>11, <1>12, <1>13 DEF PlayInv

\* So does a thread that calls onComplete.
LEMMA CompleteKeeps ==
    ASSUME PlayInv, NEW v \in Ids, onComplete(v)
    PROVE  PlayInv'
<1>1. sleeper' \in [Ids -> 0 .. 2 ^ Width]
    BY VibratorAssumption DEF onComplete, PlayInv, VibratorType
<1> QED BY <1>1 DEF onComplete, PlayInv, VibratorType, EffectAtFull, ModeInv, SleeperInv,
                    OwedHaveThreads

\* Initially nothing plays and nobody waits; every step keeps the invariant.
LEMMA PlayInvHolds == VibratorSpec => []PlayInv
<1>1. VibratorInit => PlayInv
  <2> SUFFICES ASSUME VibratorInit PROVE PlayInv
      OBVIOUS
  <2>1. muffled \in BOOLEAN /\ full \in BOOLEAN /\ ModeInv
      BY Zenon DEF VibratorInit, ModeInv
  <2>2. /\ motor \in [id: 0 .. MaxVibrations, ms: Durations \cup {0}, left: Nat,
                      effect: BOOLEAN, full: BOOLEAN, muffled: BOOLEAN]
        /\ motor.id = 0 /\ ~motor.effect
      BY VibratorAssumption DEF VibratorInit, Silence
  <2>3. /\ sleeper \in [Ids -> 0 .. 2 ^ Width] /\ \A v \in Ids : sleeper[v] = 0 /\ v # 0
        /\ started \in 0 .. MaxVibrations /\ owed = {} /\ sLastMode \in Modes
      BY VibratorAssumption DEF VibratorInit, Ids, Modes
  <2> QED BY <2>1, <2>2, <2>3 DEF PlayInv, VibratorType, EffectAtFull, SleeperInv,
                                  OwedHaveThreads
<1>2. PlayInv /\ [VibratorNext]_vibratorVars => PlayInv'
  <2> SUFFICES ASSUME PlayInv, [VibratorNext]_vibratorVars PROVE PlayInv'
      OBVIOUS
  <2>1. CASE UNCHANGED vibratorVars
      BY <2>1 DEF vibratorVars, PlayInv, VibratorType, EffectAtFull, ModeInv, SleeperInv,
                  OwedHaveThreads
  <2> QED BY <2>1, CallKeeps, MicrosecondKeeps, CompleteKeeps DEF VibratorNext
<1> QED BY <1>1, <1>2, PTL DEF VibratorSpec

\* For any durations, width and number of vibrations: an effect plays at full
\* amplitude but for the exceptions named, and no completion comes while its
\* vibration plays, unless its microseconds do not fit (Vibrator.cpp 55-87,
\* 108-187).
THEOREM EffectsFullCompletionsLate == VibratorSpec => []VibratorInv
<1>1. PlayInv => VibratorInv
  <2> SUFFICES ASSUME PlayInv PROVE NotEarly
      BY DEF PlayInv, VibratorInv
  <2> SUFFICES ASSUME NEW v \in Ids, sleeper[v] = 1, motor.id = v, motor.left > 0,
                      ~(motor.ms * Thousand >= 2 ^ Width)
               PROVE  FALSE
      BY DEF NotEarly
  <2> DEFINE us == motor.ms * Thousand
             w == 2 ^ Width
  <2>0. motor.ms \in Nat /\ motor.left \in Nat
    <3>1. motor.ms \in Durations \cup {0} /\ motor.left \in Nat
        BY Zenon DEF PlayInv, VibratorType
    <3>2. Durations \subseteq Nat /\ 0 \in Nat
        BY VibratorAssumption
    <3> QED BY <3>1, <3>2, Zenon
  <2>1. us \in Nat /\ w \in Nat
      BY <2>0, VibratorAssumption
  <2>2. ~(us >= w)
      OBVIOUS
  <2>3. us < w => motor.left <= 0
      BY DEF PlayInv, SleeperInv
  <2> HIDE DEF us, w
  <2> QED BY <2>0, <2>1, <2>2, <2>3
<1> QED BY <1>1, PlayInvHolds, PTL

\* Nothing that a client does, off() and another vibration included, takes
\* away the thread that a waiting client depends on (55-68, 78-83, 156-161).
THEOREM NoWaiterForgotten == VibratorSpec => []OwedHaveThreads
<1>1. PlayInv => OwedHaveThreads
    BY DEF PlayInv
<1> QED BY <1>1, PlayInvHolds, PTL

=============================================================================
