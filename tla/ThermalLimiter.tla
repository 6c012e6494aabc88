-------------------------- MODULE ThermalLimiter --------------------------
(***************************************************************************)
(* DeviceExtras/ThermalLimiter.java: caps the CPU and GPU frequencies by   *)
(* the battery's temperature while a selected app is in front.  Everything *)
(* runs as messages of the main looper, one at a time: the monitor, which  *)
(* queues itself again; checks asked for by the task listener; toasts;     *)
(* screen broadcasts; the settings switch, the quick-settings tile and the *)
(* boot receiver.  The display, the foreground app and the cap files       *)
(* change behind its back, and the process can be killed.                  *)
(***************************************************************************)
EXTENDS Sequences, ThermalThresholds

CONSTANTS
    Apps,           \* packages that may be selected or in front
    NoApp,          \* null
    Supported,      \* isSupported(): the battery's file is readable, the CPU's are writable
    Stored,         \* the stored thresholds: warm, high and critical
    Readings,       \* numbers that the battery's file may hold
    MaxQueued,      \* bound on checks, toasts and broadcasts in the queue
    MaxWriteErrors  \* bound on the writes that fail

ASSUME ThermalAssumption ==
    /\ NoApp \notin Apps /\ Supported \in BOOLEAN
    /\ Stored \in Int \X Int \X Int /\ Readings \subseteq Int
    /\ MaxQueued \in Nat /\ MaxWriteErrors \in Nat

VARIABLES
    pref,           \* KEY_THERMAL_LIMITER, persisted
    selected,       \* KEY_APPS, persisted
    mIsMonitoring, mInteractive, mCurrentThermalState, mThrottledPackage,
    mContext, mHandler,     \* TRUE: not null
    main,           \* the main thread: "free", or inside startMonitoring
    monitor,        \* how often mThermalMonitor is in the queue
    due,            \* ... and whether its delay is over
    checks, toasts, \* queued lambdas of requestImmediateCheck and showToast
    broadcasts,     \* screen broadcasts on their way to mScreenReceiver
    cap,            \* the caps in sysfs: the thermal state they are those of
    errors,         \* writes that failed so far
    excuse,         \* why the caps may be lower than mCurrentThermalState's
    missed,         \* a change of the display that nobody was told of
    display, foreground     \* external

prefs == <<pref, selected>>
caps == <<cap, errors, excuse>>
queue == <<monitor, due, checks, toasts, broadcasts>>
throttle == <<mCurrentThermalState, mThrottledPackage>>
objects == <<mContext, mHandler>>
environment == <<display, foreground>>
vars == <<prefs, mIsMonitoring, mInteractive, throttle, objects, main, queue, caps, missed,
          environment>>

TypeOK ==
    /\ pref \in BOOLEAN /\ selected \subseteq Apps
    /\ mIsMonitoring \in BOOLEAN /\ mInteractive \in BOOLEAN
    /\ mContext \in BOOLEAN /\ mHandler \in BOOLEAN
    /\ mCurrentThermalState \in States /\ mThrottledPackage \in Apps \cup {NoApp}
    /\ main \in {"free", "seeded"}
    /\ monitor \in 0 .. 1 /\ due \in BOOLEAN
    /\ checks \in 0 .. MaxQueued /\ toasts \in 0 .. MaxQueued
    /\ broadcasts \in Seq({"on", "off"}) /\ Len(broadcasts) <= MaxQueued
    /\ cap \in States /\ errors \in 0 .. MaxWriteErrors
    /\ excuse \in {"none", "killed", "write"} /\ missed \in BOOLEAN
    /\ display \in {"on", "off"} /\ foreground \in Apps \cup {NoApp}

\* The device has booted with the limiter off.
Init ==
    /\ pref = FALSE /\ selected = {}
    /\ mIsMonitoring = FALSE /\ mInteractive = TRUE
    /\ mContext = FALSE /\ mHandler = FALSE
    /\ mCurrentThermalState = 0 /\ mThrottledPackage = NoApp
    /\ main = "free" /\ monitor = 0 /\ due = FALSE
    /\ checks = 0 /\ toasts = 0 /\ broadcasts = <<>>
    /\ cap = 0 /\ errors = 0
    /\ excuse = "none" /\ missed = FALSE
    /\ display = "on" /\ foreground = NoApp

Capped(n) == IF n < MaxQueued THEN n + 1 ELSE n

-----------------------------------------------------------------------------
(* The cap files *)

\* FileUtils.writeValue for all clusters and the GPU.  Nobody looks whether it
\* fails, or skips a file that cannot be written at the moment; a file that
\* never can (isSupported does not ask for the GPU's) is not one of the caps.
writeValue(level) ==
    \/ /\ cap' = level /\ excuse' = "none"
       /\ UNCHANGED errors
    \/ /\ errors < MaxWriteErrors /\ errors' = errors + 1
       /\ excuse' = IF cap > level THEN "write" ELSE excuse
       /\ UNCHANGED cap

\* enforceClusterCeiling, enforceFrequencyCeiling: only to lower a frequency.
\* A file that cannot be read counts as low enough, one that cannot be written
\* is skipped: both are failures of writeValue here, which leave the file.
enforceCeiling(level) == IF cap >= level THEN UNCHANGED caps ELSE writeValue(level)

\* Mutant: the state is reset, the files are not written.
resetFrequencies_stateOnly ==
    /\ UNCHANGED caps
    /\ mCurrentThermalState' = 0

resetFrequencies ==
    /\ writeValue(0)
    /\ mCurrentThermalState' = 0

releaseThrottle ==
    /\ IF mCurrentThermalState = 0 THEN UNCHANGED <<caps, mCurrentThermalState>>
       ELSE resetFrequencies
    /\ mThrottledPackage' = NoApp

\* Mutant: the caps are written only when the state changes.
adjustFrequencies_once(temperature) ==
    LET newState == ThermalState(temperature, getThresholds(Stored))
    IN  IF newState # mCurrentThermalState
        THEN /\ mCurrentThermalState' = newState
             /\ writeValue(newState)
             /\ toasts' = IF newState > 0 THEN Capped(toasts) ELSE toasts
        ELSE UNCHANGED <<mCurrentThermalState, toasts, caps>>

\* A new state is written and shown; in an old one the caps are enforced.
adjustFrequencies(temperature) ==
    LET newState == ThermalState(temperature, getThresholds(Stored))
    IN  IF newState # mCurrentThermalState
        THEN /\ mCurrentThermalState' = newState
             /\ writeValue(newState)
             /\ toasts' = IF newState > 0 THEN Capped(toasts) ELSE toasts
        ELSE /\ UNCHANGED <<mCurrentThermalState, toasts>>
             /\ IF newState > 0 THEN enforceCeiling(newState) ELSE UNCHANGED caps

-----------------------------------------------------------------------------
(* The messages of the main looper *)

\* The answers that the question for the app in front may get: either way of
\* asking may fail.
getForegroundPackage == IF mContext THEN {foreground, NoApp} ELSE {NoApp}

\* Mutant: a screen that went off is not looked at.
tick_sleepless ==
    \E app \in getForegroundPackage :
      IF app \notin selected
      THEN releaseThrottle /\ UNCHANGED toasts
      ELSE /\ mThrottledPackage' = app
           /\ \E f \in Files(Readings) : adjustFrequencies(getBatteryTemperature(f))

\* Without an interactive screen or a selected app in front, release; else
\* read the temperature and adjust.
tick ==
    \E app \in getForegroundPackage :
      IF ~(mContext /\ mInteractive) \/ app \notin selected
      THEN releaseThrottle /\ UNCHANGED toasts
      ELSE /\ mThrottledPackage' = app
           /\ \E f \in Files(Readings) : adjustFrequencies(getBatteryTemperature(f))

\* Mutant: the monitor does not queue itself again.
runMonitor_once ==
    /\ main = "free" /\ monitor > 0 /\ due
    /\ monitor' = monitor - 1 /\ due' = FALSE
    /\ IF mIsMonitoring THEN tick ELSE UNCHANGED <<caps, throttle, toasts>>
    /\ UNCHANGED <<prefs, mIsMonitoring, mInteractive, objects, main, checks, broadcasts,
                   missed, environment>>

\* mThermalMonitor runs, and queues itself again for later.
runMonitor ==
    /\ main = "free" /\ monitor > 0 /\ due
    /\ due' = FALSE
    /\ IF mIsMonitoring
       THEN tick /\ UNCHANGED monitor
       ELSE monitor' = monitor - 1 /\ UNCHANGED <<caps, throttle, toasts>>
    /\ UNCHANGED <<prefs, mIsMonitoring, mInteractive, objects, main, checks, broadcasts,
                   missed, environment>>

\* The delay that tick asked for is over (external).
Delay ==
    /\ monitor > 0 /\ ~due
    /\ due' = TRUE
    /\ UNCHANGED <<prefs, mIsMonitoring, mInteractive, throttle, objects, main, monitor, checks,
                   toasts, broadcasts, caps, missed, environment>>

\* The lambda of requestImmediateCheck: dequeue the monitor, queue it now.
runCheck ==
    /\ main = "free" /\ checks > 0
    /\ checks' = checks - 1
    /\ monitor' = IF mIsMonitoring /\ mInteractive THEN 1 ELSE monitor
    /\ due' = (due \/ (mIsMonitoring /\ mInteractive))
    /\ UNCHANGED <<prefs, mIsMonitoring, mInteractive, throttle, objects, main, toasts,
                   broadcasts, caps, missed, environment>>

\* What is left of the process when it dies: the files and the preferences.
Dies ==
    /\ mIsMonitoring' = FALSE /\ mInteractive' = TRUE
    /\ mContext' = FALSE /\ mHandler' = FALSE
    /\ mCurrentThermalState' = 0 /\ mThrottledPackage' = NoApp
    /\ main' = "free" /\ monitor' = 0 /\ due' = FALSE
    /\ checks' = 0 /\ toasts' = 0 /\ broadcasts' = <<>>
    /\ excuse' = IF cap > 0 THEN "killed" ELSE excuse
    /\ missed' = FALSE
    /\ UNCHANGED <<prefs, cap, errors, environment>>

\* The lambda of showToast reads mContext: it is null after stopMonitoring,
\* and the exception ends the process.
runToast ==
    /\ main = "free" /\ toasts > 0
    /\ \/ /\ mContext /\ toasts' = toasts - 1
          /\ UNCHANGED <<prefs, mIsMonitoring, mInteractive, throttle, objects, main, monitor, due,
                         checks, broadcasts, caps, missed, environment>>
       \/ ~mContext /\ Dies

\* onReceive of mScreenReceiver
screenOff ==
    /\ main = "free" /\ broadcasts # <<>> /\ Head(broadcasts) = "off"
    /\ broadcasts' = Tail(broadcasts)
    /\ mInteractive' = FALSE
    /\ monitor' = 0 /\ due' = FALSE
    /\ releaseThrottle
    /\ missed' = FALSE
    /\ UNCHANGED <<prefs, mIsMonitoring, objects, main, checks, toasts, environment>>

screenOn ==
    /\ main = "free" /\ broadcasts # <<>> /\ Head(broadcasts) = "on"
    /\ broadcasts' = Tail(broadcasts)
    /\ mInteractive' = TRUE
    /\ monitor' = 1 /\ due' = TRUE
    /\ missed' = FALSE
    /\ UNCHANGED <<prefs, mIsMonitoring, throttle, objects, main, checks, toasts, caps,
                   environment>>

-----------------------------------------------------------------------------
(* Start and stop *)

\* Mutant: the screen is taken to be on at the start.
startMonitoring_unseeded ==
    IF mIsMonitoring \/ ~Supported
    THEN UNCHANGED <<mIsMonitoring, objects, mInteractive, main>>
    ELSE /\ mContext' = TRUE /\ mHandler' = TRUE /\ mIsMonitoring' = TRUE
         /\ mInteractive' = TRUE
         /\ main' = "seeded"

\* startMonitoring up to seedInteractiveState ...
startMonitoring ==
    IF mIsMonitoring \/ ~Supported
    THEN UNCHANGED <<mIsMonitoring, objects, mInteractive, main>>
    ELSE /\ mContext' = TRUE /\ mHandler' = TRUE /\ mIsMonitoring' = TRUE
         /\ mInteractive' = (display = "on")
         /\ main' = "seeded"

\* ... then the receiver and the listener, and the first run of the monitor.
startRegister ==
    /\ main = "seeded"
    /\ main' = "free"
    /\ monitor' = monitor + 1 /\ due' = TRUE
    /\ UNCHANGED <<prefs, mIsMonitoring, mInteractive, throttle, objects, checks, toasts,
                   broadcasts, caps, missed, environment>>

stopMonitoring ==
    IF ~mIsMonitoring
    THEN UNCHANGED <<mIsMonitoring, mContext, monitor, due, broadcasts, caps, throttle, missed>>
    ELSE /\ mIsMonitoring' = FALSE /\ mContext' = FALSE
         /\ monitor' = 0 /\ due' = FALSE /\ broadcasts' = <<>> /\ missed' = FALSE
         /\ resetFrequencies
         /\ mThrottledPackage' = NoApp

\* The settings switch (onPreferenceChange, persisted when it returns true)
\* and the tile's onClick; the switch may show an old value.
switchOn ==
    /\ main = "free"
    /\ startMonitoring
    /\ pref' = TRUE
    /\ UNCHANGED <<selected, throttle, queue, caps, missed, environment>>

switchOff ==
    /\ main = "free"
    /\ stopMonitoring
    /\ pref' = FALSE
    /\ UNCHANGED <<selected, mInteractive, mHandler, main, checks, toasts, environment>>

\* Startup.onReceive: a boot has left nothing but the preferences.
Startup ==
    /\ pref /\ Supported
    /\ cap' = 0 /\ excuse' = "none" /\ missed' = FALSE
    /\ monitor' = 0 /\ due' = FALSE /\ checks' = 0 /\ toasts' = 0 /\ broadcasts' = <<>>
    /\ mCurrentThermalState' = 0 /\ mThrottledPackage' = NoApp
    /\ mContext' = TRUE /\ mHandler' = TRUE /\ mIsMonitoring' = TRUE
    /\ mInteractive' = (display = "on")
    /\ main' = "seeded"
    /\ UNCHANGED <<prefs, errors, environment>>

\* setSelectedApps, which asks for a check if there ever was a start.
setSelectedApps ==
    /\ main = "free"
    /\ \E s \in SUBSET Apps : selected' = s
    /\ checks' = IF mHandler THEN Capped(checks) ELSE checks
    /\ UNCHANGED <<pref, mIsMonitoring, mInteractive, throttle, objects, main, monitor, due, toasts,
                   broadcasts, caps, missed, environment>>

-----------------------------------------------------------------------------
(* The environment *)

\* Another app comes to the front; the listener asks for a check, or the
\* notification is missing.
FocusChanges ==
    /\ \E a \in Apps \cup {NoApp} : a # foreground /\ foreground' = a
    /\ \/ mIsMonitoring /\ main = "free" /\ checks' = Capped(checks)
       \/ UNCHANGED checks
    /\ UNCHANGED <<prefs, mIsMonitoring, mInteractive, throttle, objects, main, monitor, due,
                   toasts, broadcasts, caps, missed, display>>

\* The display changes; a registered receiver will be told.
DisplayChanges ==
    /\ display' = IF display = "on" THEN "off" ELSE "on"
    /\ IF mIsMonitoring /\ main = "free"
       THEN /\ Len(broadcasts) < MaxQueued
            /\ broadcasts' = Append(broadcasts, display') /\ UNCHANGED missed
       ELSE missed' = (main = "seeded" /\ ~missed) /\ UNCHANGED broadcasts
    /\ UNCHANGED <<prefs, mIsMonitoring, mInteractive, throttle, objects, main, monitor, due,
                   checks, toasts, caps, foreground>>

\* Some other part of the system lifts the caps.
CapsLifted ==
    /\ cap > 0
    /\ cap' = 0 /\ excuse' = "none"
    /\ UNCHANGED <<prefs, mIsMonitoring, mInteractive, throttle, objects, main, queue,
                   errors, missed, environment>>

Killed == Dies

Next ==
    \/ runMonitor \/ Delay \/ runCheck \/ runToast \/ screenOff \/ screenOn
    \/ startRegister \/ switchOn \/ switchOff \/ Startup \/ setSelectedApps
    \/ FocusChanges \/ DisplayChanges \/ CapsLifted \/ Killed

\* The looper runs what is queued, and delays end.
Fairness ==
    /\ WF_vars(runMonitor) /\ WF_vars(Delay) /\ WF_vars(runCheck) /\ WF_vars(startRegister)
    /\ WF_vars(screenOff \/ screenOn)

Spec == Init /\ [][Next]_vars

FairSpec == Spec /\ Fairness

-----------------------------------------------------------------------------
(* Properties *)

\* The device is throttled only for a reason: while the switch is on, the
\* screen interactive and a selected app noted, in every order of ticks,
\* broadcasts, switches and deaths (166-218, 526-529).
ThrottleHasReason ==
    mCurrentThermalState > 0
      => pref /\ mIsMonitoring /\ mInteractive /\ mThrottledPackage # NoApp

\* No cap is left behind: the files are capped no lower than the state that
\* the limiter knows it is in, so a later release lifts them.  Two things
\* only break that: a write that failed, which is not tried again, and the
\* death of the process (209-218, 462-507).
NoCapLeft == cap > mCurrentThermalState => excuse # "none"

\* There is one monitor: it is queued exactly once while the limiter takes the
\* screen to be on, and not at all after stopMonitoring or before the start
\* posts it (150-162, 171-174, 272-283, 526-533).
OneMonitor ==
    /\ mIsMonitoring /\ main = "free" /\ mInteractive => monitor = 1
    /\ ~mIsMonitoring \/ main = "seeded" => monitor = 0

\* With no broadcast on its way the limiter knows whether the screen is on,
\* unless it changed between the two steps of a start (148, 160, 513-517).
KnowsScreen ==
    mIsMonitoring /\ main = "free" /\ broadcasts = <<>> /\ ~missed
      => mInteractive = (display = "on")

\* Both, and every variable keeps its type, so there are never two monitors.
\* With the screen off there may be one or none: the broadcast dequeues it, a
\* start queues it (162, 528).
MonitorInv == TypeOK /\ OneMonitor /\ KnowsScreen

\* Leaving the selected apps releases the throttle in the end, with or without
\* a notification of it; and so does the screen going off, unless it did so
\* between the two steps of the start and nobody was told (190-218, 272-283,
\* 513-517, 526-529).
ThrottleReleased ==
    /\ mCurrentThermalState > 0 /\ foreground \notin selected
         ~> mCurrentThermalState = 0 \/ foreground \in selected
    /\ mCurrentThermalState > 0 /\ display = "off" /\ ~missed
         ~> mCurrentThermalState = 0 \/ display = "on"

\* Caps that others lifted, or that could not be written, are set again
\* while the limiter is throttling (415-428, 485-490).
CapsEnforced ==
    cap < mCurrentThermalState ~> cap >= mCurrentThermalState

=============================================================================
