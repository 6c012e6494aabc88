# Verification of the Nothing Phone (2) device tree

TLA+ models of the programs in this repository that have logic of their own:
the fingerprint HAL, the sensors HAL, the vibrator HAL, the charging control
service and the DeviceExtras app. `PROJECT.json` maps every definition to the lines it models;
this file says how the parts fit together, what is checked, and what is not.

Run a model with `tlc -workers 2 -config MCx.cfg MCx`, a proof with
`tlapm X_proofs.tla`.

## The system

| Part | State | Operations | What makes it hard |
|---|---|---|---|
| `fingerprint/UdfpsHandler.cpp` | request, finger, stop flag; a worker thread | onUiReady, onFingerUp, destructor; the worker polls the panel's illumination | the worker sleeps with the mutex released; deadline; spurious wakeups; join |
| `fingerprint/Session.cpp`, `LockoutTracker.cpp` (lockout) | failed attempts, mode, start; two timer flags | failed and successful attempts, resetLockout, timers, new sessions | binder thread, HAL thread and detached timer threads share the fields without a lock |
| `fingerprint/Session.cpp`, `Fingerprint.cpp` (panel, list) | open session and its user, mIsAod, panel, static enrollment vector, the answer the framework waits for | all session calls, all HAL notifications | check and delivery of a notification are separate; the panel is lit after the HAL was started; notifications run on in a replaced session; the vector and the panel are shared by all sessions |
| `sensors/HalProxy.cpp`, `HalProxyCallback.cpp` (events) | event queue, pending queue and its size, wakelock count | postEvents, pending writer, wakelock thread, acknowledgements | two writers, split and dropped batches, timeouts |
| `sensors/HalProxy.cpp` (restart) | mThreadsRun, both threads, the queues | initialize: stop, disable, clear, start, reset | lost notifications, posts that straddle the restart |
| `sensors/HalProxy.cpp`, `SensorsSubHal.cpp` (sub-HALs) | sensor list with encoded handles, operation mode, direct channel's sub-HAL, dynamic sensors | setOperationMode, activate, injection, direct channels, connected/disconnected, initialize | a refusal half way, results that are ignored, dynamic sensors that come during a restart |
| `sensors/Sensor.cpp` | enabled, mode, stop; pipe; a thread in poll() | activate, setOperationMode, detection, destructors | poll without the mutex, left-over bytes, two destructors |
| `vibrator/Vibrator.cpp` | sLastMode; the library's amplitude; detached threads | on, off, perform, setAmplitude, completion | nothing cancels a completion thread; microseconds in 32 bits; an amplitude left by another client |
| `charging/charging-control.cpp` | status, charger flags; limiter threads | healthInfoChanged, limitCharge | overlapping threads, flags read several times per round, crashes |
| `DeviceExtras/.../ThermalLimiter.java` | monitoring, screen, thermal state; preferences; caps in sysfs | looper messages, broadcasts, switch, tile, boot | order of messages, failed writes, death of the process |
| `DeviceExtras/.../DeviceExtras.java` (sliders) | three thresholds | moving one | three ranges, two kinds of clamping |

The session uses the handler and the lockout; the framework calls all HALs over
binder. Each service has one binder thread (`service.cpp`), so the calls of one
service do not overlap with each other, only with the service's own threads,
with the vendor HAL's thread and with the kernel. DeviceExtras runs on one
looper.

## Modules

| Module | Models | Composition |
|---|---|---|
| `UdfpsTouch` | the abstract promise of the handler: the life of one touch | |
| `UdfpsHandler` | `UdfpsHandler.cpp` | implements `UdfpsTouch` through `touchBar` |
| `LockoutTracker` | `LockoutTracker.cpp`, as operators on a record | used by `SessionLockout` |
| `SessionLockout` | the lockout of `Session.cpp`, one step per access to a shared field | |
| `SessionScreen` | all calls and notifications of a session, for panel, sensor and list | uses `UdfpsTouch` in place of the handler |
| `EventChannel` | the abstract promise of the proxy: one ordered channel that may lose events | |
| `HalProxyEvents` | events and the shared wakelock | implements `EventChannel`: the event queue followed by the pending queue |
| `OneShotSensor` | a touch sensor | |
| `HalProxyRestart` | `initialize` against a sensor and both threads | instantiates `OneShotSensor`: the sensor's actions are those of that module |
| `HalProxySubHals` | the proxy's other calls, over several sub-HALs | |
| `Vibrator` | `Vibrator.cpp` | |
| `ChargingControl` | the charging service | |
| `ThermalThresholds` | thresholds, reading and thermal state, as operators | used by the next two |
| `ThermalLimiter` | the limiter's messages | |
| `ThermalSliders` | the sliders | |
| `X_proofs` | theorems about `X`; `UdfpsHandler_proofs` also holds those about `Vibrator`, `ThermalLimiter_proofs` those about `ThermalSliders` and `ChargingControl` | |
| `MCx` | values for the constants of `x` | |

Conventions. A step of a thread is what it does while it holds the mutex, or,
where there is none, one access to a shared field or one system call. Fields
keep their names. External actors (kernel files, the vendor HAL, the framework,
clocks) are actions of their own and may do anything that their interface
allows. Variables that only record history are named as such. A definition
`f_something` is a mutated `f`, the bug that a property is there to find; no
specification uses it. `Vibrator`, `ThermalSliders` and `ChargingControl` have
their name in that of their specification (`VibratorInit`, `VibratorSpec`), since
their proofs share a module with those of another component.

Correspondence, where it is not one action per function:

* `UdfpsHandler`: `run()` is cut at its two waits (57, 83). `Tick` is the
  clock; time passes only while the worker waits, in `WaitTicks` per 500 ms.
* `SessionLockout`: `resetLockout` is four steps, a failed attempt five, the
  end of a timer four, because all of them touch the same unlocked fields. An
  uninitialised mode is any mode; an uninitialised start of the lockout is any
  start that leaves at most its duration.
* `SessionScreen`: `notify` is a step (the check of `Fingerprint::notify`), the
  delivery one to four more: the callback, `onFingerUp`, `setFodHbm(false)` and,
  for a lockout, its callback. On the binder thread `onFingerUp` and
  `setFodHbm(false)` are one step. A failed attempt may or may not be a lockout,
  which covers every state of `SessionLockout`; with an uninitialised mode the
  panel is darkened and nobody is told. `createSession` takes a user, and
  `set_active_group` makes that user's fingers those of the HAL (`group`); a HAL
  that was busy goes on for the user before (`owner`) or gives up. A notification
  that has passed the check is delivered to the session that is there then; one
  that is already inside the replaced session stays there (`stale`) and still
  lifts the finger and darkens the one panel, though the framework no longer
  listens to that session. The HAL accepts or refuses each call;
  it reports only what fits what it is doing. A finger that is enrolled joins
  the enumerable ones; a HAL without any lists finger 0 (`Nobody`), as
  `fingerprint.h` 212-222 says. `waiting` is the operation that the framework
  asked for last, until the callback that ends it. `excuse` is history: why the
  panel may differ from the operation.
* `HalProxyEvents`: a batch is a sequence of "plain", "wake" and "still" events,
  the last being the pick-up event that the filter removes. Numbers in
  the events are only there to state their order. `overReleased` is history: a
  timeout, or the failed write of a split batch, has cut the count below what it
  stands for. It ends when no wake-up event is outstanding and no counted
  `ScopedWakelock` is alive (`Settled`).
* `OneShotSensor`: Udfps and single-tap sensors are one model, they differ in
  the file they poll. A poll may fail at any time.
* `HalProxyRestart`: one sensor, one event per batch. `SensorsSubHal::initialize`
  replaces its `mCallback` without the sensor's mutex (142), while an early post
  may use it; that race on the pointer is left out, and no property depends on
  it.
* `HalProxySubHals`: the sub-HALs are those that were loaded; `dlopen`, the
  symbols and the version checks are left out. `setOperationMode` is one step,
  with any first refuser and any set of sub-HALs that refuse to be set back.
  `initialize` is cut where a sub-HAL's thread can come in between: static
  sensors disabled, dynamic ones disabled, map cleared, callback replaced, each
  sub-HAL started. The map is cleared without the mutex; an announcement is
  before or after that. The `|` of a handle and an index is a sum, since the
  handle's first byte is clear. What a vendor's `initialize` does to its dynamic
  sensors and direct reports is external. batch and flush change nothing here,
  debug prints.
* `Vibrator`: the length is what the library answers, for `on` as for
  `perform`. The motor starts within the call. The library's amplitude is
  either 0xFF or not. `Microsecond` is the clock.
* `ChargingControl`: voltage tables and thresholds are the code's. A failed read
  makes `stoi` throw: the process ends and init starts it again. The flags that
  one call of a thread reads (`get_charge_temp`, `get_charge_tempThresholds`,
  `get_charge_voltLimits`) are read in one step. When the callback shortens the
  tables between two of these calls, the index comes from past the end of the
  limits; what is then written is any number of `Memory`, or the process ends.
* `ThermalLimiter`: `startMonitoring` is two steps, before and after the screen
  receiver is registered. All caps are written together, so `cap` is one level;
  a write may fail. A cap file that cannot be read, which the code takes for
  capped, or that is not writable, which it skips, stays as it is: in the model
  that is a failed write. These are finitely many, so `CapsEnforced` rests on
  files that can be read and written in the end; `isSupported` does not ask for a
  writable GPU file. After a start with
  the display off the monitor is queued every 30 seconds, until the next
  broadcast. Another part of the system may lift the caps. The stored thresholds
  are a constant here and move in `ThermalSliders`.

## Runs

| Run | States | Shows |
|---|---|---|
| `udfps_handler` | 5,878 | a finger is announced only during its touch (`SafetyInv`), no touch is given up on another's deadline (`FullWait`), each is resolved (`RequestResolved`), the join returns (`DestructorReturns`), and the handler implements `UdfpsTouch` (`ImplementsTouch`) |
| `session_lockout` | 329,387 | one timer at a time (`LockoutInv`); attempts are never forgotten by a timer (`AttemptsKept`); an undisturbed attempt gets its lockout (`ThresholdsReported`); a timer that is not aborted ends the lockout (`TimerClears`) |
| `session_screen` | 1,890,108 | a closed session leaves nothing on (`ScreenInv`); the panel is lit during the operations that need it and only then (`PanelFollowsOperation`); the list of fingers is that of the session's user (`EnumerationExact`); the framework does not wait for an answer that nobody will give (`Answered`) |
| `halproxy_events` | 805,698 | the size that guards the limit is exact (`QueueInv`), wake-up events on their way hold the wakelock (`WakeEventsHoldLock`), two writers and two queues are one ordered channel (`ImplementsChannel`) |
| `halproxy_assert` | violation | a filtered batch meets a locked wakelock |
| `oneshot_sensor` | 11,118 | one event per activation (`OneShot`), no poll misses a change (`PollInterrupted`, `ChangeSeen`), `DestructorReturns` |
| `halproxy_restart` | 192,936 | nobody uses the queues while they are replaced and at most one early event slips in (`RestartInv`), `StopReturns`, `CountDropped`, `PendingDrained` |
| `halproxy_subhals` | 876,472 | modes agree after refusals (`ModesAgree`), every handle leads home (`RoutedHome`), the framework knows the dynamic sensors (`DynamicAgreed`), a restart turns all off (`RestartDisables`) |
| `vibrator` | 25,166 | effects at full amplitude, no early completion (`VibratorInv`), every completion comes (`AllCompleted`) |
| `thermal_limiter` | 19,808 | `ThrottleHasReason`, `NoCapLeft`, one monitor that knows the screen (`MonitorInv`), release when the app is left or the screen goes off (`ThrottleReleased`), `CapsEnforced` |
| `thermal_sliders` | 3,304 | `SlidersSorted`, `StateAsShown`: all positions |
| `charging_control` | 190,750 | every change of the limit is what its round has read (`RoundsAreProper`), the limit settles (`LimitSettles`), the threads end (`ThreadsEnd`) |

Each property's comment in its module says what it means and at which lines it
could break. Several properties name the exact cases in which the code does not
do what one would hope for, so that any other case is an error:

* `PanelFollowsOperation`: an operation that ended with an error leaves the
  panel lit until the next cancel or close, and so does one that ended before
  `setFodHbm(true)`. It is dark during an operation after a `revokeChallenge`,
  a refused cancel, a lockout the HAL goes on after, and when the end of the
  operation before, reported first and darkened afterwards, overtakes the start
  of the next, in the same session or, from a session that has been replaced, in
  the one after it.
* `EnumerationExact`: after a cut enumeration the next list holds fingers twice,
  and an enumeration in whose middle a session for another user is created gives
  that session the fingers of the user before.
* `WakeEventsHoldLock`: from a timeout, or the failed write of a split batch, to
  the end of everything the count should have stood for.
* `TimerClears`: a timer that is aborted; a lockout entered while it still sleeps
  gets none of its own.
* `Answered`: an enumeration or removal that the HAL refuses is only logged; the
  framework waits until it gives up.
* `RestartInv`: one event of a poll that had returned before the sensor was
  disabled is posted before the sub-HAL is reset, although a comment says that
  there is none (`HalProxy.cpp` 217-218).
* `ModesAgree`: a sub-HAL that refuses the roll-back, or that a failed
  `initialize` did not reach, keeps another mode.
* `RoutedHome`: dynamic sensors keep their direct-channel flags, so a report for
  one may go to another sub-HAL's sensor.
* `DynamicAgreed`, `RestartDisables`: a sensor announced across a restart can
  be known to the framework and not to the proxy, or the other way round, and a
  sensor the map does not hold is not disabled at the next restart. `DynamicAgreed`
  speaks of sensors whose handle the proxy accepts (a clear first byte).
* `LimitSettles` (charging): the limit is that of the charger the service
  believes in. It looks only when the status changes; a charger exchanged for
  one of another kind without such a change goes unnoticed.
* `RoundsAreProper`: a round under which the callback exchanged the tables has the
  thresholds of one charger and the limits of another, and may write a number
  that is in no table; `LimitSettles` shows that it does not stay.
* `VibratorInv`: an `on()` between `setAmplitude` and an effect overwrites
  MODE_STREAM, and the effect is played at the client's amplitude; a vibration
  whose microseconds do not fit in 32 bits is complete too early.
* `StopReturns`: `stopThreads` notifies without the mutex, and a notification
  that falls between a thread's test and its wait is lost; `initialize` then
  never returns.
* `DestructorReturns` (sensor): a thread that polls again between the two
  destructors is joined for ever.
* `NoCapLeft`: after a failed write or a death the caps stay until the next
  boot or the next throttling.
* `MonitorInv`, `ThrottleReleased`: a display that changes between the two steps of
  a start is not noticed until its next change.
* `StateAsShown`: with sliders that met at 35, or the high one at 61, the
  limiter uses other thresholds than the texts show.

Where deadlock is not checked (`CHECK_DEADLOCK FALSE`) the system may stop: the
destructor has returned, the bounds are used up, or the HAL has nothing to say.

### Bounds

* `udfps_handler`: `MaxRequestId` 6, `WaitTicks` 3. A race needs a touch, a lift
  and a touch; three ticks tell before, at and after the deadline apart.
* `session_lockout`: thresholds 2 and 3 for 5 and 20, a lockout of one tick, two
  timer threads, two sessions. What matters is that each threshold is reached
  by a step from below, and that a timer of one lockout can meet the next.
* `session_screen`: two users, two sessions, two fingers, room for two in the
  vector: half an enumeration and a list of one. Users and fingers are symmetric,
  and each user may have any of the fingers at the start.
* `halproxy_events`: two sub-HALs (symmetric), an event queue of one, room for
  two pending events, four events, one acknowledgement in flight. A batch of
  two is then split by the direct write, written in two turns by the writer, or
  dropped.
* `oneshot_sensor`, `halproxy_restart`: two or three activations, three to six
  bytes in the pipe (the kernel's holds 64 KiB), two calls of `initialize`,
  queues of one.
* `halproxy_subhals`: three sub-HALs (`hals.conf` names two; a roll-back over
  more than one needs three), the repository's own in the middle, every
  combination of four sensor lists for the others, handles of two digits to the
  base 4 for the code's 8 and 24 bits. One sub-HAL has two dynamic sensors, one
  of which has a handle that the proxy must refuse.
* `vibrator`: three vibrations, two microseconds to the millisecond, a width of
  three bits: lengths that are nothing, that fit, and that do not.
* `thermal_limiter`: one app, two of each message, one failed write, the default
  thresholds and a reading for each state. More of a message changes nothing:
  each sets what the former has set.
* `thermal_sliders`: none, the ranges are the code's.
* `charging_control`: two limiter threads, a pad that is always online, and a fast
  wired charger that is there or not, cool or hot: with the reads of one report
  in between, all four tables come up under a running round. Past a table lies a
  number that is in one, or one that is in none. A further thread starts only
  after a further change within one sleep and does what the second does.

### Fairness

* Handler: its worker is scheduled, the joining thread too, and time passes.
* Sensor: its thread is weakly fair; a caller waiting for the mutex gets it
  (strong fairness, since the thread holds it again and again).
* Restart: the two proxy threads, the sensor's thread and the timeout are weakly
  fair; `initialize` strongly, for its locks.
* Lockout: the threads are scheduled and the clock ticks; nothing is assumed of
  the callers.
* Vibrator: time passes, and a thread whose sleep is over runs.
* Limiter: the looper runs what is queued and delays end; nothing is assumed of
  users, apps, the display or of broadcasts other than that they arrive.
* Charging: threads are scheduled, and a write that is tried again and again
  succeeds some time (strong fairness of `writeLimit`); the threads look every
  500 ms (`CHG_LIMIT_INTERVAL`) as long as they live.

## Proofs

All for every value of the constants (thresholds, sessions, fingers, sub-HALs,
queue sizes, apps, readings ...), under the assumptions named in the modules:
the bounds are natural numbers, a pipe holds a byte, a queue an event, the
sub-HALs are finitely many, and in `HalProxySubHals` `HandleAssumption`, that the
handles of one sub-HAL are all different. The proxy relies on the last one and
does not check it. `VibratorAssumption` says of `2 ^ Width` that it is a positive
number, which is true of every `Width`; the provers do not know powers.

* `UdfpsHandler_proofs`. `TypeOK` is inductive, and `SafetyInv` with it. For
  `FullWait` the induction needs `DeadlineInv`: while the worker polls for
  the current request, the touch is at least as old as the part of the
  deadline that has passed; that is where the request number is used. The
  refinement `RefinesTouch` maps each action to a step of `UdfpsTouch` or to a
  stutter, using the invariants to rule out the mapped states that cannot be.
  Of the vibrator: `VibratorInv` needs `ModeInv` (an amplitude that is not full
  was set by the last call, which the next effect will see, or is one of the
  exceptions) and `SleeperInv` (the thread of the vibration that plays sleeps at
  least as long as the motor has left, if the product fits the width; no thread
  belongs to a vibration to come). `NoWaiterForgotten` is the safe half of
  `AllCompleted`: who waits has a thread.
* `OneShotSensor_proofs`. `TypeOK` needs `PipeInv`: a poll that reported the
  pipe still finds a byte in it, because only the thread takes bytes out. From
  it, `OneShotInv`: the activations pay for every event posted and, while
  one is unused (the flag is set, or a post is on its way), for one more. It
  yields `OneShot`.
* `SessionLockout_proofs`. One timer (`LockoutInv`) needs `TimerInv`: while a
  timer is still to clear the lockout, the flag is set or the HAL's thread is
  between starting the timer and setting it. `AttemptsKept` needs `CountInv`:
  between the load and the store of the counter others only clear it, so the
  store never lowers it. `ThresholdsReported` needs `AttemptInv`, what an
  undisturbed attempt has established at each of its five places.
* `SessionScreen_proofs`. `ClosedInv` adds to the dark panel that only an open
  session is about to light it. `PanelInv` says which thread is about to put the
  panel right when it differs from the operation, `AnswerInv` where the message
  is that ends what the framework waits for, which must be in the session that
  is there now. `EnumerationExact` needs `ExactInv`: unless torn, an enumeration
  is for the session's user, and the vector, the message in `notify` and what
  the HAL has still to report are disjoint and together that user's fingers
  (`Spread`). The type of
  the vector needs `RoomInv`, which counts the same three.
* `HalProxyEvents_proofs`. `QueueInv` is not inductive: the writer notes the
  length of a batch, releases the mutex, and takes the batch from the queue
  afterwards. `WriterInv` says that the front of the queue is still the batch it
  looked at, `PendingInv` that no batch is empty. `WakeEventsHoldLock` needs
  `CountInv`: unless it has been cut, the count covers the outstanding events
  and, for every thread with a valid `ScopedWakelock`, one more, so that the end
  of its scope leaves what its events need; `SettledCount`, that a count which
  was cut is right again when nothing is left that it stands for; and
  `PosterInv`, that a thread without a wakelock posts plain events only. For
  `QueuesAreOneChannel` the flow lemmas (`PostFlow`, `PopFlow` and their like)
  say what each step does to `eventQueue \o FromPending`: a post appends the
  first events of its batch, a read takes from the front, the writer leaves it
  as it is, and a drop removes one stretch. Sums and flattened sequences are
  recursive, and what they return is proved by induction. The library's
  induction theorems take a predicate as a parameter, which the provers cannot
  instantiate; `SetInduction` and `SeqInduction` take a set instead, and follow
  from the existence of minimal elements (`WFMin`).
* `HalProxyRestart_proofs`. Every step of the proxy is a step of `OneShotSensor`
  or leaves the sensor alone (`SensorStep`), so that the sensor's types come
  from its own proofs. `RestartInv` needs `ThreadsInv` (from stop to start the
  threads are told to stop, after the join they are gone; a sensor is in
  `postEvents` only with its mutex, which `activate(false)` must take),
  `DisabledInv` (off until the sub-HAL is reset, and not past the check of
  the threads until they run) and `EarlyInv`: an event that came early has
  used up the one poll that the sensor had left.
* `HalProxySubHals_proofs`. `RouteBack` and `HandleInjective` say that
  the encoding of handles can be undone and meets no other; the rest of `RoutedHome` is
  `StaticInv` (where each entry of the list comes from), `PlugInv` and
  `ReportInv`. `ModesAgree` needs `ModeInv`, which says inside `initialize` which
  sub-HALs are already reset. `DynamicAgreed` needs `AgreedInv`, which follows
  a sensor through its announcement; `RestartDisables` needs `EnabledInv`:
  whatever is enabled is in a map from which it will be disabled, or doubtful.
  The proof showed that `DynamicAgreed` is about handles with a clear first
  byte only: the proxy refuses others, and the number of a refused one may be
  the handle of another sub-HAL's sensor.
* `ThermalLimiter_proofs`. `ThrottleHasReason` and `NoCapLeft` are inductive
  together with one more fact, that the limiter monitors only with the switch
  on. `MonitorInv` needs `BroadcastInv` (the last broadcast on its way says how
  the display is) and `MissedInv` (inside a start, the change that is missed is
  exactly the difference).
  Of the sliders: `SlidersSorted` is inductive, and `StateAsShown` follows from
  it. `ThresholdsOrdered` and `HotterIsNotMilder` hold for any stored
  integers, whether or not a slider could have stored them. Of the charging
  control: `HotterIsNotFaster`, that the tables and the loop over them give a
  limit that falls with the temperature and is 0 from 48 degrees on, and
  `RoundsProper`: every round whose tables fit together sets the limit of what it
  read, whatever lies past the tables. It needs `RoundInv`, which says what a
  round has noted between its steps.

The type invariants of handler and sensor are only proved, no run lists them;
every other inductive invariant was checked with TLC on the run's instance.

Every invariant and every refinement that a run checks is also proved. Only
model-checked are the liveness properties: fairness and ENABLED are outside this
prover's reach.

## Not modelled

* The life of a `Session` object to which a timer thread, a CancellationSignal
  or a notification that still runs in it holds a raw pointer. A model of it
  would be about C++ object lifetimes: the next access is undefined, and there
  is no state to say anything of.
* The thread on which callbacks are made. `Session.h` 95-97 asks for a worker
  thread; there is none, and they come from the binder thread and the HAL's.
* A vendor HAL that cannot be opened (`mDevice` is then null and every call
  fails), and the sensor properties: values computed once.
* batch, flush and debug of the sensors proxy: they are handed on, and this
  repository's sensors ignore them.
* Camera torch (two writes per call, no state), OTG switch, app picker and
  activities (user interface over one preference or file), feature flags.
* Translations of tokens and error codes; effect numbers; texts, tiles, toasts'
  contents, logs.
* Boot scripts, overlays, policies, properties and audio configuration: they are
  declarative.

## Plan

Done: models of every part with state of its own, two abstract specifications
with their refinements, a proof of every safety property of the runs.

What a next step could add: the life of a session object and of the threads that
point to it, and `SessionScreen` with `UdfpsHandler` itself in the place of
`UdfpsTouch`.
