----------------------- MODULE ThermalLimiter_proofs -----------------------
(***************************************************************************)
(* Proofs about what watches a temperature: the limiter of DeviceExtras,   *)
(* the sliders that store its thresholds, and the charging control.        *)
(*                                                                         *)
(* The limiter: throttling always has a reason, no cap is left behind,     *)
(* there is one monitor and it knows the screen; for any apps and          *)
(* thresholds and any number of queued messages and failed writes.  The    *)
(* sliders: SlidersSorted is inductive as it stands.  The charging         *)
(* control: in every order of the callback and of any number of limiter    *)
(* threads, a round that reads one charger's two tables writes the limit   *)
(* of that charger for the temperature it has read.                        *)
(***************************************************************************)
EXTENDS ThermalLimiter, ThermalSliders, ChargingControl, SequenceTheorems, FiniteSetTheorems,
        TLAPS

\* The limiter monitors only while the switch is on.
MonitorHasSwitch == mIsMonitoring => pref

\* Broadcasts come to a limiter that monitors, and the last one says how the
\* display is now.
BroadcastInv ==
    /\ ~mIsMonitoring => broadcasts = <<>>
    /\ main = "seeded" => mIsMonitoring /\ broadcasts = <<>>
    /\ broadcasts # <<>> => broadcasts[Len(broadcasts)] = display

\* Inside a start a change of the display is exactly what is missed; before
\* it, nothing is.
MissedInv ==
    /\ ~mIsMonitoring => ~missed
    /\ main = "seeded" => (missed <=> mInteractive # (display = "on"))

CapsType ==
    cap \in States /\ errors \in 0 .. MaxWriteErrors /\ excuse \in {"none", "killed", "write"}

ThrottleType == mCurrentThermalState \in States /\ mThrottledPackage \in Apps \cup {NoApp}

-----------------------------------------------------------------------------
(* The operators that the messages share *)

\* The thresholds give one of the four thermal states, whatever they are.
LEMMA ThermalStateType == \A t, th : ThermalState(t, th) \in States
    BY DEF ThermalState, States

\* A write leaves the caps at the level, or too low and excused, or above it.
LEMMA WriteEffect ==
    ASSUME TypeOK, NEW level \in States, writeValue(level)
    PROVE  CapsType' /\ (cap' > level => excuse' # "none")
    BY ThermalAssumption DEF TypeOK, writeValue, CapsType, States

\* A release ends the throttle and leaves no cap without an excuse.
LEMMA ReleaseEffect ==
    ASSUME TypeOK, NoCapLeft, releaseThrottle
    PROVE  /\ CapsType' /\ NoCapLeft'
           /\ mCurrentThermalState' = 0 /\ mThrottledPackage' = NoApp
<1>1. CASE mCurrentThermalState = 0
    BY <1>1 DEF TypeOK, NoCapLeft, releaseThrottle, CapsType, caps
<1>2. CASE mCurrentThermalState # 0
  <2>1. writeValue(0) /\ mCurrentThermalState' = 0 /\ mThrottledPackage' = NoApp
      BY <1>2 DEF releaseThrottle, resetFrequencies
  <2> QED BY <2>1, WriteEffect DEF States, NoCapLeft
<1> QED BY <1>1, <1>2

\* So does an adjustment to a temperature, whether the state changes or not.
LEMMA AdjustEffect ==
    ASSUME TypeOK, NoCapLeft, NEW temp, adjustFrequencies(temp)
    PROVE  /\ CapsType' /\ NoCapLeft'
           /\ mCurrentThermalState' \in States /\ toasts' \in 0 .. MaxQueued
<1> DEFINE s == ThermalState(temp, getThresholds(Stored))
<1>0. s \in States
    BY ThermalStateType
<1>1. adjustFrequencies(temp)
        = IF s # mCurrentThermalState
          THEN /\ mCurrentThermalState' = s
               /\ writeValue(s)
               /\ toasts' = IF s > 0 THEN Capped(toasts) ELSE toasts
          ELSE /\ UNCHANGED <<mCurrentThermalState, toasts>>
               /\ IF s > 0 THEN enforceCeiling(s) ELSE UNCHANGED caps
    BY Zenon DEF adjustFrequencies
<1>2. Capped(toasts) \in 0 .. MaxQueued
    BY ThermalAssumption DEF TypeOK, Capped
<1> HIDE DEF s
<1>3. CASE s # mCurrentThermalState
  <2>1. mCurrentThermalState' = s /\ writeValue(s) /\ toasts' \in 0 .. MaxQueued
      BY <1>1, <1>2, <1>3 DEF TypeOK
  <2> QED BY <1>0, <2>1, WriteEffect DEF NoCapLeft
<1>4. CASE s = mCurrentThermalState
  <2>1. UNCHANGED <<mCurrentThermalState, toasts>> /\ (UNCHANGED caps \/ writeValue(s))
      BY <1>1, <1>4 DEF enforceCeiling
  <2>2. CASE UNCHANGED caps
      BY <2>1, <2>2 DEF TypeOK, NoCapLeft, CapsType, caps
  <2>3. CASE writeValue(s)
      BY <1>0, <1>4, <2>1, <2>3, WriteEffect DEF TypeOK, NoCapLeft
  <2> QED BY <2>1, <2>2, <2>3
<1> QED BY <1>3, <1>4

\* A tick throttles for an app that is selected, with the screen on, or
\* releases the throttle.
LEMMA TickEffect ==
    ASSUME TypeOK, NoCapLeft, tick
    PROVE  /\ CapsType' /\ NoCapLeft' /\ ThrottleType' /\ toasts' \in 0 .. MaxQueued
           /\ mCurrentThermalState' > 0 => mInteractive /\ mThrottledPackage' # NoApp
<1>1. PICK app \in getForegroundPackage :
        IF ~(mContext /\ mInteractive) \/ app \notin selected
        THEN releaseThrottle /\ UNCHANGED toasts
        ELSE /\ mThrottledPackage' = app
             /\ \E f \in Files(Readings) : adjustFrequencies(getBatteryTemperature(f))
    BY DEF tick
<1>2. CASE ~(mContext /\ mInteractive) \/ app \notin selected
    BY <1>1, <1>2, ReleaseEffect DEF TypeOK, ThrottleType, States
<1>3. CASE mContext /\ mInteractive /\ app \in selected
  <2>1. mThrottledPackage' = app /\ app \in Apps
      BY <1>1, <1>3 DEF TypeOK
  <2>2. PICK f \in Files(Readings) : adjustFrequencies(getBatteryTemperature(f))
      BY <1>1, <1>3
  <2> QED BY <1>3, <2>1, <2>2, AdjustEffect, ThermalAssumption DEF ThrottleType
<1> QED BY <1>2, <1>3

-----------------------------------------------------------------------------
(* Types *)

\* The bound on queued messages is kept.
LEMMA CappedType == \A n \in 0 .. MaxQueued : Capped(n) \in 0 .. MaxQueued
    BY ThermalAssumption DEF Capped

\* Every message and every event outside keeps the types.
LEMMA TypeStep ==
    TypeOK /\ NoCapLeft /\ OneMonitor /\ [Next]_vars => TypeOK'
<1> SUFFICES ASSUME TypeOK, NoCapLeft, OneMonitor, [Next]_vars PROVE TypeOK'
    OBVIOUS
<1> USE ThermalAssumption
<1>0. 0 \in States
    BY DEF States
<1>1. CASE runMonitor
  <2>1. CapsType' /\ ThrottleType' /\ toasts' \in 0 .. MaxQueued /\ monitor' \in 0 .. 1
    <3>1. CASE mIsMonitoring
        BY <1>1, <3>1, TickEffect DEF runMonitor, TypeOK
    <3>2. CASE ~mIsMonitoring
        BY <1>1, <3>2
        DEF runMonitor, TypeOK, CapsType, ThrottleType, caps, throttle
    <3> QED BY <3>1, <3>2
  <2> QED BY <1>1, <2>1
      DEF runMonitor, TypeOK, CapsType, ThrottleType, prefs, objects, environment
<1>2. CASE Delay
    BY <1>2 DEF Delay, TypeOK, prefs, throttle, objects, caps, environment
<1>3. CASE runCheck
  <2>1. due' \in BOOLEAN
      BY <1>3, Zenon DEF runCheck
  <2> QED BY <1>3, <2>1 DEF runCheck, TypeOK, prefs, throttle, objects, caps, environment
<1>4. ASSUME Dies PROVE TypeOK'
  <2>1. /\ mIsMonitoring' \in BOOLEAN /\ mInteractive' \in BOOLEAN /\ mContext' \in BOOLEAN
        /\ mHandler' \in BOOLEAN /\ due' \in BOOLEAN /\ missed' \in BOOLEAN
      BY <1>4, Zenon DEF Dies
  <2>2. broadcasts' \in Seq({"on", "off"}) /\ Len(broadcasts') <= MaxQueued
      BY <1>4 DEF Dies
  <2> QED BY <1>0, <1>4, <2>1, <2>2 DEF Dies, TypeOK, prefs, environment
<1>5. CASE runToast
  <2>1. CASE ~mContext
      BY <1>4, <1>5, <2>1 DEF runToast
  <2>2. CASE mContext
      BY <1>5, <2>2 DEF runToast, TypeOK, prefs, throttle, objects, caps, environment
  <2> QED BY <2>1, <2>2
<1>6. CASE screenOff
  <2>1. CapsType' /\ ThrottleType'
      BY <1>6, ReleaseEffect DEF screenOff, ThrottleType, States
  <2>2. broadcasts' \in Seq({"on", "off"}) /\ Len(broadcasts') <= MaxQueued
      BY <1>6 DEF screenOff, TypeOK
  <2>3. mInteractive' \in BOOLEAN /\ due' \in BOOLEAN /\ missed' \in BOOLEAN
      BY <1>6, Zenon DEF screenOff
  <2> QED BY <1>6, <2>1, <2>2, <2>3
      DEF screenOff, TypeOK, CapsType, ThrottleType, prefs, objects, environment
<1>7. CASE screenOn
  <2>1. broadcasts' \in Seq({"on", "off"}) /\ Len(broadcasts') <= MaxQueued
      BY <1>7 DEF screenOn, TypeOK
  <2>2. mInteractive' \in BOOLEAN /\ due' \in BOOLEAN /\ missed' \in BOOLEAN
      BY <1>7, Zenon DEF screenOn
  <2> QED BY <1>7, <2>1, <2>2 DEF screenOn, TypeOK, prefs, throttle, objects, caps, environment
<1>8. CASE startRegister
  <2>1. monitor' = 1
      BY <1>8 DEF startRegister, OneMonitor
  <2> QED BY <1>8, <2>1
      DEF startRegister, TypeOK, prefs, throttle, objects, caps, environment
<1>9. CASE switchOn
  <2>1. /\ mInteractive' \in BOOLEAN /\ mIsMonitoring' \in BOOLEAN /\ mContext' \in BOOLEAN
        /\ mHandler' \in BOOLEAN
      BY <1>9, Zenon DEF switchOn, startMonitoring, TypeOK, objects
  <2>2. main' \in {"free", "seeded"}
      BY <1>9 DEF switchOn, startMonitoring, TypeOK
  <2> QED BY <1>9, <2>1, <2>2 DEF switchOn, TypeOK, throttle, queue, caps, environment
<1>10. CASE switchOff
  <2>1. CASE mIsMonitoring
    <3>1. CapsType'
        BY <1>10, <2>1, WriteEffect
        DEF switchOff, stopMonitoring, resetFrequencies, States
    <3>2. /\ pref' \in BOOLEAN /\ mIsMonitoring' \in BOOLEAN /\ mContext' \in BOOLEAN
          /\ due' \in BOOLEAN /\ missed' \in BOOLEAN
        BY <1>10, <2>1, Zenon DEF switchOff, stopMonitoring
    <3>3. broadcasts' \in Seq({"on", "off"}) /\ Len(broadcasts') <= MaxQueued
        BY <1>10, <2>1 DEF switchOff, stopMonitoring
    <3> QED BY <1>0, <1>10, <2>1, <3>1, <3>2, <3>3
        DEF switchOff, stopMonitoring, resetFrequencies, TypeOK, CapsType, environment
  <2>2. CASE ~mIsMonitoring
      BY <1>10, <2>2 DEF switchOff, stopMonitoring, TypeOK, caps, throttle, environment
  <2> QED BY <2>1, <2>2
<1>11. CASE Startup
  <2>1. /\ mIsMonitoring' \in BOOLEAN /\ mInteractive' \in BOOLEAN /\ mContext' \in BOOLEAN
        /\ mHandler' \in BOOLEAN /\ due' \in BOOLEAN /\ missed' \in BOOLEAN
      BY <1>11, Zenon DEF Startup
  <2>2. broadcasts' \in Seq({"on", "off"}) /\ Len(broadcasts') <= MaxQueued
      BY <1>11 DEF Startup
  <2> QED BY <1>0, <1>11, <2>1, <2>2 DEF Startup, TypeOK, prefs, environment
<1>12. CASE setSelectedApps
  <2>1. checks' \in 0 .. MaxQueued
      BY <1>12, CappedType DEF setSelectedApps, TypeOK
  <2> QED BY <1>12, <2>1 DEF setSelectedApps, TypeOK, throttle, objects, caps, environment
<1>13. CASE FocusChanges
  <2>1. checks' \in 0 .. MaxQueued
      BY <1>13, CappedType DEF FocusChanges, TypeOK
  <2> QED BY <1>13, <2>1 DEF FocusChanges, TypeOK, prefs, throttle, objects, caps
<1>14. CASE DisplayChanges
  <2>1. display' \in {"on", "off"}
      BY <1>14 DEF DisplayChanges
  <2>2. missed' \in BOOLEAN
      BY <1>14, Zenon DEF DisplayChanges, TypeOK
  <2>3. broadcasts' \in Seq({"on", "off"}) /\ Len(broadcasts') <= MaxQueued
    <3>1. CASE mIsMonitoring /\ main = "free"
      <4>1. Len(broadcasts) < MaxQueued /\ broadcasts' = Append(broadcasts, display')
          BY <1>14, <3>1, Zenon DEF DisplayChanges
      <4> QED BY <2>1, <4>1 DEF TypeOK
    <3>2. CASE ~(mIsMonitoring /\ main = "free")
        BY <1>14, <3>2 DEF DisplayChanges, TypeOK
    <3> QED BY <3>1, <3>2
  <2> QED BY <1>14, <2>1, <2>2, <2>3
      DEF DisplayChanges, TypeOK, prefs, throttle, objects, caps
<1>15. CASE CapsLifted
    BY <1>0, <1>15 DEF CapsLifted, TypeOK, prefs, throttle, objects, queue, environment
<1>16. CASE Killed
    BY <1>4, <1>16 DEF Killed
<1>17. CASE UNCHANGED vars
    BY <1>17
    DEF vars, TypeOK, prefs, throttle, objects, queue, caps, environment
<1> QED BY <1>1, <1>2, <1>3, <1>5, <1>6, <1>7, <1>8, <1>9, <1>10, <1>11, <1>12, <1>13,
           <1>14, <1>15, <1>16, <1>17 DEF Next

-----------------------------------------------------------------------------
(* The throttle *)

\* What keeps the throttle justified, and the caps no lower than it.
ThrottleInv == ThrottleHasReason /\ NoCapLeft /\ MonitorHasSwitch

\* Every step keeps the throttle justified.
LEMMA ThrottleStep ==
    TypeOK /\ ThrottleInv /\ [Next]_vars => ThrottleInv'
<1> SUFFICES ASSUME TypeOK, ThrottleHasReason, NoCapLeft, MonitorHasSwitch, [Next]_vars
             PROVE  ThrottleInv'
    BY DEF ThrottleInv
<1> USE DEF ThrottleInv, MonitorHasSwitch
<1>1. CASE runMonitor
  <2>1. UNCHANGED <<pref, mIsMonitoring, mInteractive>>
      BY <1>1 DEF runMonitor, prefs
  <2>2. CASE mIsMonitoring
    <3>1. NoCapLeft' /\ (mCurrentThermalState' > 0 => mInteractive /\ mThrottledPackage' # NoApp)
        BY <1>1, <2>2, TickEffect DEF runMonitor
    <3> QED BY <2>1, <2>2, <3>1 DEF ThrottleHasReason
  <2>3. CASE ~mIsMonitoring
      BY <1>1, <2>1, <2>3
      DEF runMonitor, ThrottleHasReason, NoCapLeft, caps, throttle
  <2> QED BY <2>2, <2>3
<1>2. ASSUME UNCHANGED <<pref, mIsMonitoring, mInteractive, throttle, caps>>
      PROVE  ThrottleInv'
    BY <1>2 DEF ThrottleHasReason, NoCapLeft, throttle, caps
<1>3. CASE Delay \/ runCheck \/ startRegister \/ setSelectedApps \/ FocusChanges \/ DisplayChanges
    BY <1>2, <1>3 DEF Delay, runCheck, startRegister, setSelectedApps, FocusChanges,
       DisplayChanges, prefs
<1>4. ASSUME Dies PROVE ThrottleInv'
    BY <1>4 DEF Dies, ThrottleHasReason, NoCapLeft
<1>5. CASE runToast
    BY <1>2, <1>4, <1>5 DEF runToast, prefs
<1>6. CASE screenOff
    BY <1>6, ReleaseEffect DEF screenOff, ThrottleHasReason, prefs
<1>7. CASE screenOn
    BY <1>7 DEF screenOn, ThrottleHasReason, NoCapLeft, prefs, throttle, caps
<1>8. CASE switchOn
    BY <1>8
    DEF switchOn, startMonitoring, ThrottleHasReason, NoCapLeft, throttle, caps
<1>9. CASE switchOff
  <2>1. CASE mIsMonitoring
    <3>1. writeValue(0) /\ mCurrentThermalState' = 0 /\ ~mIsMonitoring'
        BY <1>9, <2>1 DEF switchOff, stopMonitoring, resetFrequencies
    <3>2. NoCapLeft'
        BY <3>1, WriteEffect DEF States, NoCapLeft
    <3> QED BY <3>1, <3>2 DEF ThrottleHasReason
  <2>2. CASE ~mIsMonitoring
      BY <1>9, <2>2
      DEF switchOff, stopMonitoring, ThrottleHasReason, NoCapLeft, throttle, caps
  <2> QED BY <2>1, <2>2
<1>10. CASE Startup
    BY <1>10 DEF Startup, ThrottleHasReason, NoCapLeft, prefs
<1>11. CASE CapsLifted
    BY <1>11 DEF CapsLifted, ThrottleHasReason, NoCapLeft, TypeOK, States, prefs, throttle
<1>12. CASE Killed
    BY <1>4, <1>12 DEF Killed
<1>13. CASE UNCHANGED vars
    BY <1>2, <1>13 DEF vars, prefs
<1> QED BY <1>1, <1>3, <1>5, <1>6, <1>7, <1>8, <1>9, <1>10, <1>11, <1>12, <1>13 DEF Next

-----------------------------------------------------------------------------
(* The monitor and the screen *)

\* What the limiter knows of the screen, and what follows for its monitor.
WatchInv == OneMonitor /\ KnowsScreen /\ BroadcastInv /\ MissedInv

\* Every step keeps what is known of the screen; the last broadcast to be
\* delivered is the one that says how the display is.
LEMMA WatchStep ==
    TypeOK /\ WatchInv /\ [Next]_vars => WatchInv'
<1> SUFFICES ASSUME TypeOK, OneMonitor, KnowsScreen, BroadcastInv, MissedInv, [Next]_vars
             PROVE  WatchInv'
    BY DEF WatchInv
<1> USE DEF WatchInv
<1>1. ASSUME UNCHANGED <<mIsMonitoring, mInteractive, main, monitor, broadcasts, missed, display>>
      PROVE  WatchInv'
    BY <1>1 DEF OneMonitor, KnowsScreen, BroadcastInv, MissedInv
<1>2. CASE runMonitor
    BY <1>1, <1>2 DEF runMonitor, OneMonitor, environment, TypeOK
<1>3. CASE Delay \/ setSelectedApps \/ FocusChanges \/ CapsLifted
    BY <1>1, <1>3 DEF Delay, setSelectedApps, FocusChanges, CapsLifted, queue, environment
<1>4. CASE runCheck
    BY <1>4
    DEF runCheck, OneMonitor, KnowsScreen, BroadcastInv, MissedInv, environment
<1>5. ASSUME Dies PROVE WatchInv'
    BY <1>5 DEF Dies, OneMonitor, KnowsScreen, BroadcastInv, MissedInv
<1>6. CASE runToast
    BY <1>1, <1>5, <1>6 DEF runToast, environment
<1>7. ASSUME main = "free", broadcasts # <<>>, broadcasts' = Tail(broadcasts),
             mInteractive' = (Head(broadcasts) = "on"),
             UNCHANGED <<main, mIsMonitoring, display>>, ~missed'
      PROVE  KnowsScreen' /\ BroadcastInv' /\ MissedInv'
  <2>1. mIsMonitoring /\ broadcasts[Len(broadcasts)] = display
      BY <1>7 DEF BroadcastInv
  <2>2. broadcasts \in Seq({"on", "off"}) /\ Len(broadcasts) \in Nat /\ Len(broadcasts) # 0
      BY <1>7, EmptySeq DEF TypeOK
  <2>3. CASE Len(broadcasts) = 1
    <3>1. broadcasts' = <<>> /\ Head(broadcasts) = display
        BY <1>7, <2>1, <2>2, <2>3
    <3> QED BY <1>7, <2>1, <3>1 DEF KnowsScreen, BroadcastInv, MissedInv
  <2>4. CASE Len(broadcasts) > 1
    <3>1. broadcasts' # <<>> /\ broadcasts'[Len(broadcasts')] = broadcasts[Len(broadcasts)]
        BY <1>7, <2>2, <2>4
    <3> QED BY <1>7, <2>1, <3>1 DEF KnowsScreen, BroadcastInv, MissedInv
  <2>5. \A n \in Nat : n # 0 => n = 1 \/ n > 1
      OBVIOUS
  <2>6. Len(broadcasts) = 1 \/ Len(broadcasts) > 1
      BY <2>2, <2>5, Zenon
  <2> QED BY <2>3, <2>4, <2>6
<1>8. CASE screenOff
  <2>1. mInteractive' = (Head(broadcasts) = "on")
      BY <1>8 DEF screenOff
  <2>2. OneMonitor'
      BY <1>8 DEF screenOff, OneMonitor
  <2> QED BY <1>7, <1>8, <2>1, <2>2 DEF screenOff, environment
<1>9. CASE screenOn
  <2>1. mInteractive' = (Head(broadcasts) = "on")
      BY <1>9 DEF screenOn
  <2>2. OneMonitor'
      BY <1>9 DEF screenOn, OneMonitor, BroadcastInv
  <2> QED BY <1>7, <1>9, <2>1, <2>2 DEF screenOn, environment
<1>10. CASE startRegister
    BY <1>10
    DEF startRegister, OneMonitor, KnowsScreen, BroadcastInv, MissedInv, environment
<1>11. CASE switchOn
    BY <1>11
    DEF switchOn, startMonitoring, OneMonitor, KnowsScreen, BroadcastInv, MissedInv, queue,
        environment
<1>12. CASE switchOff
    BY <1>12
    DEF switchOff, stopMonitoring, OneMonitor, KnowsScreen, BroadcastInv, MissedInv,
        environment
<1>13. CASE Startup
    BY <1>13
    DEF Startup, OneMonitor, KnowsScreen, BroadcastInv, MissedInv, environment
<1>14. CASE DisplayChanges
  <2>1. OneMonitor'
      BY <1>14 DEF DisplayChanges, OneMonitor
  <2>2. CASE mIsMonitoring /\ main = "free"
    <3>1. broadcasts' = Append(broadcasts, display') /\ UNCHANGED <<main, mIsMonitoring, missed>>
        BY <1>14, <2>2 DEF DisplayChanges
    <3>2. broadcasts' # <<>> /\ broadcasts'[Len(broadcasts')] = display'
        BY <3>1 DEF TypeOK
    <3> QED BY <2>1, <2>2, <3>1, <3>2 DEF KnowsScreen, BroadcastInv, MissedInv
  <2>3. CASE ~mIsMonitoring
      BY <1>14, <2>1, <2>3 DEF DisplayChanges, KnowsScreen, BroadcastInv, MissedInv
  <2>4. CASE mIsMonitoring /\ main = "seeded"
      BY <1>14, <2>1, <2>4 DEF DisplayChanges, KnowsScreen, BroadcastInv, MissedInv, TypeOK
  <2> QED BY <2>2, <2>3, <2>4 DEF TypeOK
<1>15. CASE Killed
    BY <1>5, <1>15 DEF Killed
<1>16. CASE UNCHANGED vars
    BY <1>1, <1>16 DEF vars, queue, environment
<1> QED BY <1>2, <1>3, <1>4, <1>6, <1>8, <1>9, <1>10, <1>11, <1>12, <1>13, <1>14, <1>15, <1>16
        DEF Next

-----------------------------------------------------------------------------
(* The theorems *)

\* A device that has booted with the limiter off.
LEMMA InitInv == Init => TypeOK /\ ThrottleInv /\ WatchInv
<1> SUFFICES ASSUME Init PROVE TypeOK /\ ThrottleInv /\ WatchInv
    OBVIOUS
<1>1. TypeOK
  <2>1. /\ pref \in BOOLEAN /\ mIsMonitoring \in BOOLEAN /\ mInteractive \in BOOLEAN
        /\ mContext \in BOOLEAN /\ mHandler \in BOOLEAN /\ due \in BOOLEAN /\ missed \in BOOLEAN
      BY Zenon DEF Init
  <2>2. broadcasts \in Seq({"on", "off"}) /\ Len(broadcasts) <= MaxQueued
      BY ThermalAssumption DEF Init
  <2> QED BY ThermalAssumption, <2>1, <2>2 DEF Init, TypeOK, States
<1>2. ThrottleInv
    BY DEF Init, ThrottleInv, ThrottleHasReason, NoCapLeft, MonitorHasSwitch
<1>3. WatchInv
    BY DEF Init, WatchInv, OneMonitor, KnowsScreen, BroadcastInv, MissedInv
<1> QED BY <1>1, <1>2, <1>3

\* The three parts hold together: the proof of each needs the types, and the
\* types need that no cap is left (a release writes no file in state 0).
LEMMA LimiterSafe == Spec => [](TypeOK /\ ThrottleInv /\ WatchInv)
<1>1. TypeOK /\ ThrottleInv /\ WatchInv /\ [Next]_vars => (TypeOK /\ ThrottleInv /\ WatchInv)'
    BY TypeStep, ThrottleStep, WatchStep DEF ThrottleInv, WatchInv
<1> QED BY InitInv, <1>1, PTL DEF Spec

\* In every order of ticks, checks, broadcasts, switches, boots and deaths
\* the device is throttled only while the switch is on, the screen
\* interactive and a selected app noted.
THEOREM ThrottleSafe == Spec => []ThrottleHasReason
<1>1. ThrottleInv => ThrottleHasReason
    BY DEF ThrottleInv
<1> QED BY LimiterSafe, <1>1, PTL

\* The files are never capped lower than the state that the limiter knows,
\* except after a failed write or a death.
THEOREM CapsSafe == Spec => []NoCapLeft
<1>1. ThrottleInv => NoCapLeft
    BY DEF ThrottleInv
<1> QED BY LimiterSafe, <1>1, PTL

\* There is one monitor, queued exactly once while it is needed, and with no
\* broadcast under way the limiter knows whether the screen is on.
THEOREM MonitorSafe == Spec => []MonitorInv
<1>1. TypeOK /\ WatchInv => MonitorInv
    BY DEF WatchInv, MonitorInv
<1> QED BY LimiterSafe, <1>1, PTL

-----------------------------------------------------------------------------
(* The charging control *)

\* The limits fall from the first entry of their table, 9000, to the last, 0.
LEMMA TableFalls ==
    /\ DOMAIN CHG_VOLT_TBL = 1 .. 22 /\ CHG_VOLT_TBL[1] = 9000 /\ CHG_VOLT_TBL[22] = 0
    /\ \A i \in 1 .. 22 : CHG_VOLT_TBL[i] \in Nat
    /\ \A i, j \in 1 .. 22 : i <= j => CHG_VOLT_TBL[j] <= CHG_VOLT_TBL[i]
BY DEF CHG_VOLT_TBL

\* The tables of a charger have one limit for each threshold, at most six; the
\* thresholds end at 48 degrees, the limits at the last entry.
LEMMA TablesMatch ==
    ASSUME NEW c \in Chargers
    PROVE  /\ DOMAIN TempThresholds[c] = 1 .. Len(VoltLimits[c])
           /\ Len(VoltLimits[c]) \in 0 .. 6
           /\ \A i \in 1 .. Len(VoltLimits[c]) :
                TempThresholds[c][i] \in Nat /\ TempThresholds[c][i] <= 48000
           /\ \A i \in 1 .. Len(VoltLimits[c]) : VoltLimits[c][i] \in 1 .. 21
           /\ \A i, j \in 1 .. Len(VoltLimits[c]) : i <= j => VoltLimits[c][i] <= VoltLimits[c][j]
           /\ c # "none" => /\ Len(VoltLimits[c]) > 0
                            /\ VoltLimits[c][Len(VoltLimits[c])] = 21
<1>1. c \in {"pps", "qc", "wls", "none"}
    BY DEF Chargers, VoltLimits
<1> DEFINE T == TempThresholds[c]
           V == VoltLimits[c]
           Match == /\ DOMAIN T = 1 .. Len(V) /\ Len(V) \in 0 .. 6
                    /\ \A i \in 1 .. Len(V) : T[i] \in Nat /\ T[i] <= 48000
                    /\ \A i \in 1 .. Len(V) : V[i] \in 1 .. 21
                    /\ \A i, j \in 1 .. Len(V) : i <= j => V[i] <= V[j]
                    /\ c # "none" => Len(V) > 0 /\ V[Len(V)] = 21
<1>2. ASSUME c = "pps" PROVE Match
  <2>1. T = <<35000, 37000, 39000, 41000, 43000, 48000>> /\ V = <<4, 6, 10, 12, 15, 21>>
      BY <1>2 DEF TempThresholds, VoltLimits
  <2> HIDE DEF T, V
  <2> QED BY ONLY <1>2, <2>1
<1>3. ASSUME c = "qc" PROVE Match
  <2>1. T = <<35000, 37000, 39000, 41000, 48000>> /\ V = <<8, 12, 15, 16, 21>>
      BY <1>3 DEF TempThresholds, VoltLimits
  <2> HIDE DEF T, V
  <2> QED BY ONLY <1>3, <2>1
<1>4. ASSUME c = "wls" PROVE Match
  <2>1. T = <<35000, 41000, 48000>> /\ V = <<15, 19, 21>>
      BY <1>4 DEF TempThresholds, VoltLimits
  <2> HIDE DEF T, V
  <2> QED BY ONLY <1>4, <2>1
<1>5. ASSUME c = "none" PROVE Match
  <2>1. T = << >> /\ V = << >>
      BY <1>5 DEF TempThresholds, VoltLimits
  <2> HIDE DEF T, V
  <2> QED BY ONLY <1>5, <2>1
<1> QED BY <1>1, <1>2, <1>3, <1>4, <1>5

\* The loop passes no more thresholds than there are, more when it is hotter,
\* and from 48 degrees on all of them.
LEMMA PassedBounds ==
    ASSUME NEW c \in Chargers, NEW a \in Nat, NEW b \in Nat, a <= b
    PROVE  /\ Passed(TempThresholds[c], a) \in 0 .. Len(VoltLimits[c])
           /\ Passed(TempThresholds[c], b) \in 0 .. Len(VoltLimits[c])
           /\ Passed(TempThresholds[c], a) <= Passed(TempThresholds[c], b)
           /\ b >= 48000 => Passed(TempThresholds[c], b) = Len(VoltLimits[c])
<1> DEFINE n == Len(VoltLimits[c])
           S(t) == {i \in DOMAIN TempThresholds[c] : \A j \in 1 .. i : t >= TempThresholds[c][j]}
<1>1. /\ n \in 0 .. 6 /\ DOMAIN TempThresholds[c] = 1 .. n
      /\ \A i \in 1 .. n : TempThresholds[c][i] \in Nat /\ TempThresholds[c][i] <= 48000
    BY TablesMatch
<1> HIDE DEF n
<1>2. S(a) \subseteq S(b) /\ S(b) \subseteq 1 .. n
    BY <1>1
<1>3. b >= 48000 => S(b) = 1 .. n
    BY <1>1
<1>4. Passed(TempThresholds[c], a) = Cardinality(S(a))
      /\ Passed(TempThresholds[c], b) = Cardinality(S(b))
    BY DEF Passed
<1> HIDE DEF S
<1>5. IsFiniteSet(1 .. n) /\ Cardinality(1 .. n) = n
  <2>1. 1 \in Int /\ n \in Int
      BY <1>1
  <2>2. IsFiniteSet(1 .. n) /\ Cardinality(1 .. n) = IF 1 > n THEN 0 ELSE n - 1 + 1
      BY ONLY <2>1, FS_Interval
  <2> QED BY <1>1, <2>2
<1>6. /\ IsFiniteSet(S(b)) /\ Cardinality(S(b)) <= n
    BY <1>2, <1>5, FS_Subset
<1>7. /\ IsFiniteSet(S(a)) /\ Cardinality(S(a)) <= Cardinality(S(b))
    BY <1>2, <1>6, FS_Subset
<1>8. Cardinality(S(a)) \in Nat /\ Cardinality(S(b)) \in Nat
    BY <1>6, <1>7, FS_CardinalityType
<1> QED BY <1>1, <1>3, <1>4, <1>5, <1>6, <1>7, <1>8 DEF n

\* The limits of a table that falls with its indices fall with the number of
\* thresholds passed.
LEMMA IndexedLimits ==
    ASSUME NEW V, NEW n \in Nat, NEW i \in 0 .. n, NEW j \in 0 .. n, i <= j,
           \A k \in 1 .. n : V[k] \in 1 .. 21,
           \A k, l \in 1 .. n : k <= l => V[k] <= V[l]
    PROVE  /\ Limit(V, i) \in Anything /\ Limit(V, j) \in Anything
           /\ Limit(V, j) <= Limit(V, i)
           /\ n > 0 /\ V[n] = 21 /\ j = n => Limit(V, j) = 0
<1> DEFINE ei == 1 + (IF i = 0 THEN 0 ELSE V[i])
           ej == 1 + (IF j = 0 THEN 0 ELSE V[j])
<1>1. i # 0 => V[i] \in 1 .. 21
    BY i \in 1 .. n \/ i = 0
<1>2. j # 0 => V[j] \in 1 .. 21
    BY j \in 1 .. n \/ j = 0
<1>3. i # 0 => V[i] <= V[j]
    OBVIOUS
<1>4. /\ ei \in 1 .. 22 /\ ej \in 1 .. 22 /\ ei <= ej
      /\ n > 0 /\ V[n] = 21 /\ j = n => ej = 22
    BY <1>1, <1>2, <1>3
<1>5. Limit(V, i) = CHG_VOLT_TBL[ei] /\ Limit(V, j) = CHG_VOLT_TBL[ej]
    BY DEF Limit
<1> HIDE DEF ei, ej
<1> QED BY <1>4, <1>5, TableFalls DEF Anything

\* A limit taken within the tables of a charger is an entry of the table, and
\* falls with the number of thresholds passed, down to 0.
LEMMA LimitFalls ==
    ASSUME NEW c \in Chargers, NEW i \in 0 .. Len(VoltLimits[c]),
           NEW j \in 0 .. Len(VoltLimits[c]), i <= j
    PROVE  /\ Limit(VoltLimits[c], i) \in Anything /\ Limit(VoltLimits[c], j) \in Anything
           /\ Limit(VoltLimits[c], j) <= Limit(VoltLimits[c], i)
           /\ c # "none" /\ j = Len(VoltLimits[c]) => Limit(VoltLimits[c], j) = 0
<1> DEFINE V == VoltLimits[c]
           n == Len(V)
<1>1. /\ n \in Nat /\ i \in 0 .. n /\ j \in 0 .. n /\ i <= j
      /\ \A k \in 1 .. n : V[k] \in 1 .. 21
      /\ \A k, l \in 1 .. n : k <= l => V[k] <= V[l]
    BY TablesMatch
<1>2. c # "none" => n > 0 /\ V[n] = 21
    BY TablesMatch
<1> HIDE DEF V, n
<1>3. /\ Limit(V, i) \in Anything /\ Limit(V, j) \in Anything
      /\ Limit(V, j) <= Limit(V, i)
      /\ n > 0 /\ V[n] = 21 /\ j = n => Limit(V, j) = 0
    BY ONLY <1>1, IndexedLimits
<1> QED BY <1>2, <1>3 DEF V, n

\* For every charger and all temperatures: hotter never means a higher limit,
\* and from 48 degrees on the limit is 0 (the tables and 171-199).
THEOREM HotterIsNotFaster ==
    ASSUME NEW c \in Chargers, NEW a \in Nat, NEW b \in Nat, a <= b
    PROVE  /\ Proper(c, b) <= Proper(c, a)
           /\ c # "none" /\ b >= 48000 => Proper(c, b) = 0
<1> DEFINE i == Passed(TempThresholds[c], a)
           j == Passed(TempThresholds[c], b)
<1>1. /\ i \in 0 .. Len(VoltLimits[c]) /\ j \in 0 .. Len(VoltLimits[c]) /\ i <= j
      /\ b >= 48000 => j = Len(VoltLimits[c])
    BY PassedBounds
<1> HIDE DEF i, j
<1>2. /\ Limit(VoltLimits[c], j) <= Limit(VoltLimits[c], i)
      /\ c # "none" /\ j = Len(VoltLimits[c]) => Limit(VoltLimits[c], j) = 0
    BY <1>1, LimitFalls
<1> QED BY <1>1, <1>2 DEF i, j, Proper

\* The flags call for one of the chargers.
LEMMA ChargerType == Charger \in Chargers
BY DEF Charger, Chargers, VoltLimits

\* A round writes an entry of the table, or what the memory holds.
LEMMA NewLimitsType ==
    ASSUME ChargingType, NEW t \in Threads, limiter[t].at = "table"
    PROVE  NewLimits(t) \subseteq Anything
<1>1. Memory \subseteq Anything
    BY DEF Anything
<1>2. limiter[t].steps \in Nat
    BY DEF ChargingType
<1>3. InTable(t) => Limit(VoltLimits[Charger], limiter[t].steps) \in Anything
  <2> SUFFICES ASSUME InTable(t) PROVE Limit(VoltLimits[Charger], limiter[t].steps) \in Anything
      OBVIOUS
  <2>1. limiter[t].steps \in 0 .. Len(VoltLimits[Charger])
      BY <1>2, ChargerType, TablesMatch DEF InTable
  <2> QED BY <2>1, ChargerType, LimitFalls
<1> QED BY <1>1, <1>3 DEF NewLimits

\* A step of a limiter thread keeps the types.
LEMMA LimiterStep ==
    ASSUME ChargingType, NEW t \in Threads, limitCharge(t)
    PROVE  ChargingType'
<1>0. /\ 0 \in Anything /\ fcc \in Anything /\ supply \in Supplies /\ supply.temp \in Nat
      /\ "none" \in Chargers
    BY TableFalls, ChargingAssumption DEF ChargingType, Anything, Chargers, VoltLimits
<1> DEFINE Place == {"free", "loop", "temp", "table", "sleep"}
           Local == [at: Place, last: Anything, temp: Nat, by: Chargers, steps: 0 .. 6]
<1>1. limiter \in [Threads -> Local]
    BY DEF ChargingType
<1> DEFINE Moves == /\ limiter' \in [Threads -> Local] /\ fcc' \in Anything
                    /\ UNCHANGED <<mStatus, charger, enableChgLimit, binder, supply>>
<1>2. ASSUME readTemp(t) PROVE Moves
  <2>1. get_charge_temp \in Nat
      BY <1>0 DEF get_charge_temp
  <2> QED BY <1>0, <1>1, <1>2, <2>1 DEF readTemp, Free
<1>3. ASSUME readThresholds(t) PROVE Moves
  <2>1. Passed(TempThresholds[Charger], limiter[t].temp) \in 0 .. 6
    <3> DEFINE x == limiter[t].temp
               c == Charger
               n == Len(VoltLimits[c])
               k == Passed(TempThresholds[c], x)
    <3>1. x \in Nat /\ x <= x /\ c \in Chargers
        BY <1>1, ChargerType
    <3> HIDE DEF x, c
    <3>2. k \in 0 .. n /\ n \in 0 .. 6
        BY ONLY <3>1, PassedBounds, TablesMatch
    <3> HIDE DEF k, n
    <3>3. k \in 0 .. 6
        BY ONLY <3>2
    <3> QED BY <3>3 DEF k, x, c
  <2> DEFINE p == Passed(TempThresholds[Charger], limiter[t].temp)
             moved == [limiter[t] EXCEPT !.at = "table", !.by = Charger, !.steps = p]
  <2>2. limiter' = [limiter EXCEPT ![t] = moved]
      BY <1>1, <1>3 DEF readThresholds
  <2>3. UNCHANGED <<mStatus, charger, enableChgLimit, binder, fcc, supply>>
      BY <1>3 DEF readThresholds
  <2>4. moved \in Local
    <3>1. p \in 0 .. 6 /\ Charger \in Chargers
        BY <2>1, ChargerType
    <3> HIDE DEF p
    <3> QED BY <1>1, <3>1
  <2> HIDE DEF moved
  <2> QED BY <1>0, <1>1, <2>2, <2>3, <2>4
<1>4. ASSUME writeLimit(t) PROVE Moves
  <2>1. fcc' \in Anything
      BY <1>0, <1>4, NewLimitsType DEF writeLimit
  <2> QED BY <1>0, <1>1, <1>4, <2>1 DEF writeLimit, Free
<1>5. ASSUME writeFails(t) PROVE Moves
    BY <1>0, <1>1, <1>5 DEF writeFails, Free
<1>6. ASSUME afterSleep(t) PROVE Moves
    BY <1>0, <1>1, <1>6 DEF afterSleep, Free
<1>7. Moves
    BY <1>2, <1>3, <1>4, <1>5, <1>6 DEF limitCharge
<1> QED BY <1>7 DEF ChargingType, charger

\* So does a step of the callback.
LEMMA CallbackStep ==
    ASSUME ChargingType, Callback
    PROVE  ChargingType'
<1>0. supply \in Supplies /\ supply.status \in {"CHARGING", "OTHER"}
    BY ChargingAssumption DEF ChargingType
<1>1. CASE healthInfoChanged
    BY <1>0, <1>1 DEF ChargingType, healthInfoChanged, charger
<1>2. CASE readUsb
  <2>1. usbChgActive' \in BOOLEAN
      BY <1>2, Zenon DEF readUsb
  <2> QED BY <1>2, <2>1 DEF ChargingType, readUsb
<1>3. CASE readWls
  <2>1. supply.wls \in BOOLEAN
      BY <1>0, ChargingAssumption
  <2> QED BY <1>3, <2>1 DEF ChargingType, readWls
<1>4. CASE startLimit
  <2>1. usingPps' \in BOOLEAN
      BY <1>4, Zenon DEF startLimit
  <2>2. PICK u \in Threads : limiter' = [limiter EXCEPT ![u].at = "loop"]
      BY <1>4, Zenon DEF startLimit
  <2> QED BY <1>4, <2>1, <2>2 DEF ChargingType, startLimit
<1>5. CASE stopLimit
    BY <1>5 DEF ChargingType, stopLimit
<1> QED BY <1>1, <1>2, <1>3, <1>4, <1>5 DEF Callback

\* What a round that has read its thresholds knows: how many of them its
\* temperature passes.
RoundInv ==
    \A t \in Threads :
      limiter[t].at = "table"
        => limiter[t].steps = Passed(TempThresholds[limiter[t].by], limiter[t].temp)

\* Every step keeps that: the flags may change under a round, its own copy does
\* not.
LEMMA RoundStep ==
    ASSUME ChargingType, RoundInv, [ChargingNext]_chargingVars
    PROVE  RoundInv'
<1> DEFINE Reads(r) == r.at = "table" => r.steps = Passed(TempThresholds[r.by], r.temp)
<1>1. DOMAIN limiter = Threads /\ \A u \in Threads : Reads(limiter[u])
    BY DEF ChargingType, RoundInv
<1>2. ASSUME NEW t \in Threads, NEW r, limiter' = [limiter EXCEPT ![t] = r], Reads(r)
      PROVE  RoundInv'
  <2>1. \A u \in Threads : Reads(limiter'[u])
    <3> SUFFICES ASSUME NEW u \in Threads PROVE Reads(limiter'[u])
        OBVIOUS
    <3>1. CASE u = t
        BY <1>1, <1>2, <3>1
    <3>2. CASE u # t
      <4>1. limiter'[u] = limiter[u]
          BY <1>1, <1>2, <3>2
      <4> QED BY <1>1, <4>1
    <3> QED BY <3>1, <3>2
  <2> QED BY <2>1 DEF RoundInv
<1>3. ASSUME UNCHANGED limiter PROVE RoundInv'
    BY <1>3 DEF RoundInv
<1>4. CASE Callback
  <2>1. CASE startLimit
    <3>1. PICK u \in Threads : limiter' = [limiter EXCEPT ![u].at = "loop"]
        BY <2>1, Zenon DEF startLimit
    <3> DEFINE r == [limiter[u] EXCEPT !.at = "loop"]
    <3>2. limiter' = [limiter EXCEPT ![u] = r]
        BY <3>1
    <3>3. r.at = "loop"
        BY DEF ChargingType
    <3> QED BY <1>2, <3>2, <3>3
  <2>2. CASE healthInfoChanged \/ readUsb \/ readWls \/ stopLimit
      BY <1>3, <2>2 DEF healthInfoChanged, readUsb, readWls, stopLimit
  <2> QED BY <1>4, <2>1, <2>2 DEF Callback
<1>5. ASSUME NEW t \in Threads, limitCharge(t) PROVE RoundInv'
  <2>1. CASE readThresholds(t)
    <3> DEFINE p == Passed(TempThresholds[Charger], limiter[t].temp)
               r == [limiter[t] EXCEPT !.at = "table", !.by = Charger, !.steps = p]
    <3>1. limiter' = [limiter EXCEPT ![t] = r]
        BY <2>1 DEF readThresholds, ChargingType
    <3>2. r.by = Charger /\ r.temp = limiter[t].temp /\ r.steps = p
      <4> HIDE DEF p
      <4> QED BY DEF ChargingType
    <3>3. Reads(r)
        BY <3>2
    <3> QED BY <1>2, <3>1, <3>3
  <2>2. CASE readTemp(t) /\ enableChgLimit
    <3> DEFINE r == [limiter[t] EXCEPT !.at = "temp", !.last = fcc, !.temp = get_charge_temp]
    <3>1. limiter' = [limiter EXCEPT ![t] = r]
        BY <2>2 DEF readTemp, ChargingType
    <3>2. r.at = "temp"
        BY DEF ChargingType
    <3> QED BY <1>2, <3>1, <3>2
  <2>3. CASE (readTemp(t) /\ ~enableChgLimit) \/ writeLimit(t) \/ writeFails(t) \/ afterSleep(t)
    <3>1. PICK r \in {Free, [Free EXCEPT !.at = "sleep"], [Free EXCEPT !.at = "loop"]} :
            limiter' = [limiter EXCEPT ![t] = r]
        BY <2>3 DEF readTemp, writeLimit, writeFails, afterSleep
    <3>2. r.at # "table"
        BY DEF Free
    <3> QED BY <1>2, <3>1, <3>2
  <2> QED BY <1>5, <2>1, <2>2, <2>3 DEF limitCharge
<1>6. CASE Crash
    BY <1>6 DEF Crash, RoundInv, Free
<1>7. CASE Replug \/ UNCHANGED chargingVars
    BY <1>3, <1>7 DEF Replug, chargingVars
<1> QED BY <1>4, <1>5, <1>6, <1>7 DEF ChargingNext

\* A round whose limits are those of the charger of its thresholds writes what
\* that charger at its temperature is limited to.
LEMMA ProperRound ==
    ASSUME ChargingType, RoundInv, NEW t \in Threads, writeLimit(t), fcc' # fcc
    PROVE  /\ limiter[t].at = "table" /\ limiter'[t].at = "sleep"
           /\ limiter[t].by = Charger => fcc' = Proper(Charger, limiter[t].temp)
<1>1. limiter[t].at = "table" /\ limiter'[t].at = "sleep"
    BY DEF writeLimit, ChargingType, Free
<1>2. PICK new \in NewLimits(t) : fcc' = new
    BY DEF writeLimit
<1>3. ASSUME limiter[t].by = Charger PROVE fcc' = Proper(Charger, limiter[t].temp)
  <2> DEFINE c == Charger
             x == limiter[t].temp
             k == Passed(TempThresholds[c], x)
  <2>1. c \in Chargers /\ x \in Nat /\ x <= x
      BY ChargerType DEF ChargingType
  <2>2. limiter[t].steps = k
      BY <1>1, <1>3 DEF RoundInv
  <2>3. k <= Len(VoltLimits[c])
    <3> HIDE DEF c, x
    <3> DEFINE n == Len(VoltLimits[c])
    <3>1. k \in 0 .. n
        BY ONLY <2>1, PassedBounds
    <3>2. n \in 0 .. 6
        BY ONLY <2>1, TablesMatch
    <3> HIDE DEF k, n
    <3>3. k <= n
        BY ONLY <3>1, <3>2
    <3> QED BY <3>3 DEF k, n
  <2>4. NewLimits(t) = {Limit(VoltLimits[c], k)}
      BY <2>2, <2>3 DEF NewLimits, InTable
  <2> QED BY <1>2, <2>4 DEF Proper
<1> QED BY <1>1, <1>3

\* Every change of the limit sets what the charger and the temperature that a
\* round has read call for, unless the callback exchanged the tables under that
\* round: for any number of overlapping threads, any chargers and temperatures,
\* and whatever lies past the tables.
THEOREM RoundsProper == ChargingSpec => RoundsAreProper
<1>0. 0 \in Anything /\ 9000 \in Anything /\ "none" \in Chargers
    BY TableFalls DEF Anything, Chargers, VoltLimits
<1>1. Free \in [at: {"free", "loop", "temp", "table", "sleep"}, last: Anything, temp: Nat,
                by: Chargers, steps: 0 .. 6]
    BY <1>0 DEF Free
<1>2. ChargingInit => ChargingType /\ RoundInv
  <2> SUFFICES ASSUME ChargingInit PROVE ChargingType /\ RoundInv
      OBVIOUS
  <2>0. /\ usbChgActive = FALSE /\ wlsChgActive = FALSE /\ usingPps = FALSE
        /\ enableChgLimit = FALSE
      BY DEF ChargingInit
  <2>1. /\ usbChgActive \in BOOLEAN /\ wlsChgActive \in BOOLEAN /\ usingPps \in BOOLEAN
        /\ enableChgLimit \in BOOLEAN
      BY ONLY <2>0
  <2>2. ChargingType
      BY <1>0, <1>1, <2>1 DEF ChargingInit, ChargingType
  <2>3. RoundInv
      BY DEF ChargingInit, RoundInv, Free
  <2> QED BY <2>2, <2>3
<1>3. ChargingType /\ [ChargingNext]_chargingVars => ChargingType'
  <2> SUFFICES ASSUME ChargingType, [ChargingNext]_chargingVars PROVE ChargingType'
      OBVIOUS
  <2>1. CASE Crash
      BY <1>1, <2>1 DEF ChargingType, Crash
  <2>2. CASE Replug
      BY <2>2 DEF ChargingType, Replug, charger
  <2>3. CASE UNCHANGED chargingVars
      BY <2>3 DEF ChargingType, chargingVars, charger
  <2> QED BY <2>1, <2>2, <2>3, CallbackStep, LimiterStep DEF ChargingNext
<1>4. RoundInv /\ ChargingType /\ [ChargingNext]_chargingVars => RoundInv'
    BY RoundStep
<1>5. RoundInv /\ ChargingType /\ [ChargingNext]_chargingVars => [ProperStep]_chargingVars
  <2> SUFFICES ASSUME RoundInv, ChargingType, [ChargingNext]_chargingVars, fcc' # fcc
               PROVE  ProperStep
      BY DEF ProperStep
  <2>1. PICK t \in Threads : writeLimit(t)
      BY DEF ChargingNext, Callback, healthInfoChanged, readUsb, readWls, startLimit, stopLimit,
             limitCharge, readTemp, readThresholds, writeFails, afterSleep, Crash, Replug,
             chargingVars
  <2> QED BY <2>1, ProperRound DEF ProperStep
<1> QED BY <1>2, <1>3, <1>4, <1>5, PTL DEF ChargingSpec, RoundsAreProper

-----------------------------------------------------------------------------
(* The thresholds, and the sliders of DeviceExtras.java that set them *)

USE DEF TEMP_MIN, TEMP_MAX, WarmMax, HighMax, CriticalMax

\* What getThresholds gives, value by value.
LEMMA ThresholdValues ==
    ASSUME NEW w \in Int, NEW h \in Int, NEW c \in Int
    PROVE  LET t == getThresholds(<<w, h, c>>)
           IN  /\ t[1] \in Int /\ t[2] \in Int /\ t[3] \in Int
               /\ 350 <= t[1] /\ t[1] < t[2] /\ t[2] < t[3] /\ t[3] <= 620
BY DEF getThresholds, Larger, Smaller

\* getThresholds (316-332) gives strictly increasing thresholds between 35
\* and 62 degrees for every three numbers that the preferences may hold, so
\* that no thermal state is skipped and none is unreachable.
THEOREM ThresholdsOrdered ==
    \A stored \in Int \X Int \X Int :
      LET t == getThresholds(stored)
      IN  350 <= t[1] /\ t[1] < t[2] /\ t[2] < t[3] /\ t[3] <= 620
<1> SUFFICES ASSUME NEW w \in Int, NEW h \in Int, NEW c \in Int
             PROVE  LET t == getThresholds(<<w, h, c>>)
                    IN  350 <= t[1] /\ t[1] < t[2] /\ t[2] < t[3] /\ t[3] <= 620
  OBVIOUS
<1> QED BY ThresholdValues

\* A hotter battery is never in a milder thermal state, whatever is stored
\* (430-461).
THEOREM HotterIsNotMilder ==
    ASSUME NEW w \in Int, NEW h \in Int, NEW c \in Int,
           NEW a \in Int, NEW b \in Int, a <= b
    PROVE  ThermalState(a, getThresholds(<<w, h, c>>))
             <= ThermalState(b, getThresholds(<<w, h, c>>))
<1> DEFINE t == getThresholds(<<w, h, c>>)
<1>1. /\ t[1] \in Int /\ t[2] \in Int /\ t[3] \in Int
      /\ t[1] < t[2] /\ t[2] < t[3]
  BY ThresholdValues
<1> HIDE DEF t
<1>2. ThermalState(a, t) <= ThermalState(b, t)
  BY <1>1 DEF ThermalState
<1> QED BY <1>2 DEF t

\* Every move of a slider keeps them sorted.
LEMMA SortedStep == SlidersSorted /\ [SlidersNext]_sliders => SlidersSorted'
<1> SUFFICES ASSUME SlidersSorted, [SlidersNext]_sliders PROVE SlidersSorted'
  OBVIOUS
<1> USE DEF SlidersSorted, setValue, Larger, Smaller
<1>1. ASSUME NEW v \in TEMP_MIN .. WarmMax, moveWarm(v) PROVE SlidersSorted'
  BY <1>1 DEF moveWarm
<1>2. ASSUME NEW v \in TEMP_MIN .. HighMax, moveHigh(v) PROVE SlidersSorted'
  BY <1>2 DEF moveHigh
<1>3. ASSUME NEW v \in TEMP_MIN .. CriticalMax, moveCritical(v) PROVE SlidersSorted'
  BY <1>3 DEF moveCritical
<1>4. CASE UNCHANGED sliders
  BY <1>4 DEF sliders
<1> QED BY <1>1, <1>2, <1>3, <1>4 DEF SlidersNext

\* However they are moved, the sliders stay in their ranges and in order.
THEOREM SlidersStaySorted == SlidersSpec => []SlidersSorted
<1>1. SlidersInit => SlidersSorted
  BY DEF SlidersInit, SlidersSorted, TEMP_DEFAULT
<1> QED BY <1>1, SortedStep, PTL DEF SlidersSpec

\* What the sliders' texts say is what the limiter does, but for the two
\* positions that StateAsShown names.
THEOREM StateIsAsShown == SlidersSpec => []StateAsShown
<1>1. SlidersSorted => StateAsShown
  <2> SUFFICES ASSUME SlidersSorted, warm < high, high < critical, high <= TEMP_MAX,
                      NEW t \in 0 .. 80
               PROVE  LET s == ThermalState(10 * t, getThresholds(sliders))
                      IN  /\ s >= 1 <=> t >= warm
                          /\ s >= 2 <=> t >= high
                          /\ s = 3 <=> t >= critical
    BY DEF StateAsShown
  <2>1. /\ warm \in Int /\ high \in Int /\ critical \in Int
        /\ TEMP_MIN <= warm /\ critical <= CriticalMax
    BY DEF SlidersSorted
  <2>2. getThresholds(sliders) = <<10 * warm, 10 * high, 10 * critical>>
    BY <2>1 DEF getThresholds, Larger, Smaller, sliders
  <2> QED BY <2>1, <2>2 DEF ThermalState
<1> QED BY <1>1, SlidersStaySorted, PTL

=============================================================================
