-------------------------- MODULE HalProxyRestart --------------------------
(***************************************************************************)
(* The framework (re)connects: HalProxy::initializeCommon stops the proxy's *)
(* two threads, switches the sensors off, clears the queues and starts     *)
(* again, while a one-shot sensor of the device's own sub-HAL              *)
(* (OneShotSensor) may be anywhere between its poll and the end of         *)
(* postEvents.  Here every event is a batch of one, from a wake-up sensor, *)
(* so the queues are counters; batches and their order are the subject of  *)
(* HalProxyEvents.                                                         *)
(***************************************************************************)
EXTENDS Naturals

CONSTANTS
    MaxActivations, MaxPipe,    \* see OneShotSensor
    QueueSize,                  \* mEventQueue->getQuantumCount()
    MaxPending,                 \* kMaxSizePendingWriteEventsQueue
    MaxInits                    \* bound on the calls of initialize

ASSUME RestartAssumption ==
    /\ MaxActivations \in Nat /\ MaxPipe \in Nat \ {0}
    /\ QueueSize \in Nat \ {0} /\ MaxPending \in Nat /\ MaxInits \in Nat

VARIABLES
    mIsEnabled, mMode, mStopThread, pipe, node, thread, body, caller,
    activations, posts,         \* the sensor, see OneShotSensor
    threadsRun,                 \* mThreadsRun
    eventQueue, pending,        \* how many events are in the two queues
    refCount, expired,          \* mWakelockRefCount, its timeout has passed
    poster,                     \* the sensor's thread inside postEvents
    writer, waker,              \* the proxy's threads
    acks,                       \* acknowledgements in mWakeLockQueue
    binder,                     \* where the binder thread is in initialize
    inits,                      \* calls of initialize so far
    lost                        \* a notification came just before the wait

Sensor == INSTANCE OneShotSensor

sensorVars ==
    <<mIsEnabled, mMode, mStopThread, pipe, node, thread, body, caller, activations, posts>>
queues == <<eventQueue, pending>>
lock == <<refCount, expired>>
proxyThreads == <<writer, waker>>
proxyVars == <<threadsRun, queues, lock, poster, proxyThreads, acks, binder, inits, lost>>
vars == <<sensorVars, proxyVars>>

Idle == [at |-> "idle", locked |-> FALSE, valid |-> FALSE]

\* "blocking": the wait's condition was found false, the mutex is still held;
\* then "blocked".
ThreadLocations == {"none", "top", "blocking", "blocked"}

TypeOK ==
    /\ Sensor!TypeOK
    /\ threadsRun \in BOOLEAN
    /\ eventQueue \in 0 .. QueueSize /\ pending \in 0 .. MaxPending
    /\ refCount \in Nat /\ expired \in BOOLEAN
    /\ poster \in [at: {"idle", "begun", "checked", "posted"}, locked: BOOLEAN, valid: BOOLEAN]
    /\ writer \in ThreadLocations \cup {"write", "written"}
    /\ waker \in ThreadLocations \cup {"read"}
    /\ acks \in Nat
    /\ binder \in {"idle", "drain", "notifyWaker", "notifyWriter", "join", "disable",
                   "clear", "start", "subhals", "interrupt"}
    /\ inits \in 0 .. MaxInits /\ lost \in BOOLEAN

\* The service has started; the framework has not called initialize.  The
\* sensor was constructed as intended (see OneShotSensor!Init).
Init ==
    /\ Sensor!Init /\ body = "derived" /\ ~mStopThread
    /\ threadsRun = FALSE
    /\ eventQueue = 0 /\ pending = 0
    /\ refCount = 0 /\ expired = TRUE
    /\ poster = Idle /\ writer = "none" /\ waker = "none"
    /\ acks = 0 /\ binder = "idle" /\ inits = 0 /\ lost = FALSE

-----------------------------------------------------------------------------
(* The wakelock's count; both do nothing while the threads are stopped *)

\* notify_one on mWakelockCV or mEventQueueWriteCV
Notified(t) == IF t = "blocked" THEN "top" ELSE t

Increment ==
    IF threadsRun
    THEN /\ waker # "blocking"              \* it holds mWakelockMutex
         /\ waker' = IF refCount = 0 THEN Notified(waker) ELSE waker
         /\ refCount' = refCount + 1 /\ expired' = FALSE
    ELSE UNCHANGED <<waker, lock>>

Decrement(delta) ==
    /\ refCount' = IF ~threadsRun THEN refCount
                   ELSE IF delta < refCount THEN refCount - delta ELSE 0
    /\ UNCHANGED expired

\* resetSharedWakelock also makes the counts of wakelocks in use invalid.
\* Mutant: a reset leaves the count as it is.
Reset_keeps ==
    /\ UNCHANGED lock
    /\ poster' = [poster EXCEPT !.valid = FALSE]

Reset ==
    /\ Decrement(refCount)
    /\ poster' = [poster EXCEPT !.valid = FALSE]

-----------------------------------------------------------------------------
(* The sensor's thread: SensorsSubHal::postEvents, HalProxyCallback's and    *)
(* postEventsToMessageQueue, with the sensor's mRunMutex held               *)

\* createScopedWakelock
postBegin ==
    /\ thread.at = "post" /\ poster.at = "idle"
    /\ Increment
    /\ poster' = [at |-> "begun", locked |-> threadsRun, valid |-> threadsRun]
    /\ UNCHANGED <<sensorVars, threadsRun, queues, writer, acks, binder, inits, lost>>

\* areThreadsRunning; without them the wakelock's count is not taken back.
postCheck ==
    /\ poster.at = "begun"
    /\ \/ ~threadsRun /\ Sensor!Post /\ poster' = Idle
       \/ threadsRun /\ poster' = [poster EXCEPT !.at = "checked"] /\ UNCHANGED sensorVars
    /\ UNCHANGED <<threadsRun, queues, lock, proxyThreads, acks, binder, inits, lost>>

\* Mutant: the pending-writes thread is not told.
postWrite_quiet ==
    /\ poster.at = "checked" /\ writer # "blocking"
    /\ IF poster.locked THEN Increment ELSE UNCHANGED <<waker, lock>>
    /\ \/ pending = 0 /\ eventQueue < QueueSize
          /\ eventQueue' = eventQueue + 1 /\ UNCHANGED <<pending, writer>>
       \/ (pending > 0 \/ eventQueue = QueueSize) /\ pending < MaxPending
          /\ pending' = pending + 1 /\ UNCHANGED <<eventQueue, writer>>
       \/ (pending > 0 \/ eventQueue = QueueSize) /\ pending = MaxPending
          /\ UNCHANGED <<queues, writer>>
    /\ poster' = [poster EXCEPT !.at = "posted"]
    /\ UNCHANGED <<sensorVars, threadsRun, acks, binder, inits, lost>>

\* With mEventQueueWriteMutex: write at once, queue for the writer, or drop.
postWrite ==
    /\ poster.at = "checked" /\ writer # "blocking"
    /\ IF poster.locked THEN Increment ELSE UNCHANGED <<waker, lock>>
    /\ \/ pending = 0 /\ eventQueue < QueueSize
          /\ eventQueue' = eventQueue + 1 /\ UNCHANGED <<pending, writer>>
       \/ (pending > 0 \/ eventQueue = QueueSize) /\ pending < MaxPending
          /\ pending' = pending + 1 /\ writer' = Notified(writer) /\ UNCHANGED eventQueue
       \/ (pending > 0 \/ eventQueue = QueueSize) /\ pending = MaxPending
          /\ UNCHANGED <<queues, writer>>
    /\ poster' = [poster EXCEPT !.at = "posted"]
    /\ UNCHANGED <<sensorVars, threadsRun, acks, binder, inits, lost>>

\* The ScopedWakelock goes, the callback returns to the sensor.
postEnd ==
    /\ poster.at = "posted"
    /\ IF poster.locked /\ poster.valid THEN Decrement(1) ELSE UNCHANGED lock
    /\ poster' = Idle
    /\ Sensor!Post
    /\ UNCHANGED <<threadsRun, queues, proxyThreads, acks, binder, inits, lost>>

Posting == postBegin \/ postCheck \/ postWrite \/ postEnd

\* The rest of the sensor's thread.
SensorThread ==
    /\ \/ Sensor!Loop \/ Sensor!Wakes \/ Sensor!PollReturns
       \/ Sensor!Detected \/ Sensor!NotDetected
    /\ UNCHANGED proxyVars

-----------------------------------------------------------------------------
(* The pending-writes thread: handlePendingWrites *)

\* The loop's condition, the wait's condition, the front of the queue.
writerTop ==
    /\ writer = "top"
    /\ writer' = IF ~threadsRun THEN "none" ELSE IF pending > 0 THEN "write" ELSE "blocking"
    /\ UNCHANGED <<sensorVars, threadsRun, queues, lock, poster, waker, acks, binder, inits, lost>>

writerBlocks ==
    /\ writer = "blocking"
    /\ writer' = "blocked"
    /\ UNCHANGED <<sensorVars, threadsRun, queues, lock, poster, waker, acks, binder, inits, lost>>

\* writeBlocking, which gives up in time; a dropped event is not counted on.
writerWrites ==
    /\ writer = "write"
    /\ writer' = "written"
    /\ \/ eventQueue < QueueSize /\ eventQueue' = eventQueue + 1 /\ UNCHANGED lock
       \/ eventQueue = QueueSize /\ Decrement(1) /\ UNCHANGED eventQueue
    /\ UNCHANGED <<sensorVars, threadsRun, pending, poster, waker, acks, binder, inits, lost>>

writerPops ==
    /\ writer = "written"
    /\ writer' = "top"
    /\ pending' = pending - 1
    /\ UNCHANGED <<sensorVars, threadsRun, eventQueue, lock, poster, waker, acks, binder,
                   inits, lost>>

handlePendingWrites == writerTop \/ writerBlocks \/ writerWrites \/ writerPops

-----------------------------------------------------------------------------
(* The wakelock thread: handleWakelocks *)

\* The loop's and the wait's condition; the timeout; the reset at the end.
wakerTop ==
    /\ waker = "top"
    /\ \/ ~threadsRun /\ Reset /\ waker' = "none"
       \/ threadsRun /\ refCount > 0 /\ expired /\ Reset /\ waker' = "top"
       \/ /\ threadsRun /\ ~(refCount > 0 /\ expired)
          /\ waker' = IF refCount > 0 THEN "read" ELSE "blocking"
          /\ UNCHANGED <<lock, poster>>
    /\ UNCHANGED <<sensorVars, threadsRun, queues, writer, acks, binder, inits, lost>>

wakerBlocks ==
    /\ waker = "blocking"
    /\ waker' = "blocked"
    /\ UNCHANGED <<sensorVars, threadsRun, queues, lock, poster, writer, acks, binder, inits, lost>>

\* readBlocking, which gives up in time (a write of zero counts for nothing).
wakerReads ==
    /\ waker = "read"
    /\ waker' = "top"
    /\ Decrement(acks)
    /\ acks' = 0
    /\ UNCHANGED <<sensorVars, threadsRun, queues, poster, writer, binder, inits, lost>>

handleWakelocks == wakerTop \/ wakerBlocks \/ wakerReads

-----------------------------------------------------------------------------
(* The binder thread *)

\* The framework enables the sensor; activate(false) is taken here only by
\* disableAllSensors.
activate ==
    /\ binder = "idle" /\ inits > 0
    /\ Sensor!activate(TRUE)
    /\ UNCHANGED proxyVars

BinderAt(from, to) == binder = from /\ binder' = to

\* initialize: stopThreads says stop, without a mutex ...
initialize ==
    /\ inits < MaxInits /\ caller = "idle"
    /\ BinderAt("idle", "drain")
    /\ threadsRun' = FALSE /\ inits' = inits + 1
    /\ UNCHANGED <<sensorVars, queues, lock, poster, proxyThreads, acks, lost>>

\* ... reads the event queue empty, wakes and notifies the threads ...
stopDrain ==
    /\ BinderAt("drain", "notifyWaker")
    /\ eventQueue' = 0
    /\ UNCHANGED <<sensorVars, threadsRun, pending, lock, poster, proxyThreads, acks, inits, lost>>

stopNotifyWaker ==
    /\ BinderAt("notifyWaker", "notifyWriter")
    /\ waker' = Notified(waker) /\ lost' = (lost \/ waker = "blocking")
    /\ UNCHANGED <<sensorVars, threadsRun, queues, lock, poster, writer, acks, inits>>

\* Mutant: the pending-writes thread is left waiting.
stopNotifyWriter_forgets ==
    /\ BinderAt("notifyWriter", "join")
    /\ UNCHANGED <<sensorVars, threadsRun, queues, lock, poster, proxyThreads, acks, inits, lost>>

stopNotifyWriter ==
    /\ BinderAt("notifyWriter", "join")
    /\ writer' = Notified(writer) /\ lost' = (lost \/ writer = "blocking")
    /\ UNCHANGED <<sensorVars, threadsRun, queues, lock, poster, waker, acks, inits>>

\* ... and joins them; resetSharedWakelock.
stopJoin ==
    /\ writer = "none" /\ waker = "none"
    /\ BinderAt("join", "disable")
    /\ Reset
    /\ UNCHANGED <<sensorVars, threadsRun, queues, proxyThreads, acks, inits, lost>>

\* Mutant: the sensors are left as they are.
disableAllSensors_skipped ==
    /\ BinderAt("disable", "clear")
    /\ UNCHANGED <<sensorVars, threadsRun, queues, lock, poster, proxyThreads, acks, inits, lost>>

\* disableAllSensors: activate(false), which takes the sensor's mutex.
disableAllSensors ==
    /\ BinderAt("disable", "clear")
    /\ Sensor!MutexFree
    /\ IF mIsEnabled THEN Sensor!activate(FALSE) ELSE UNCHANGED sensorVars
    /\ UNCHANGED <<threadsRun, queues, lock, poster, proxyThreads, acks, inits, lost>>

\* The pending queue is cleared and the message queues are replaced, with no
\* mutex; then the threads start.
clearQueues ==
    /\ BinderAt("clear", "start")
    /\ eventQueue' = 0 /\ pending' = 0 /\ acks' = 0
    /\ UNCHANGED <<sensorVars, threadsRun, lock, poster, proxyThreads, inits, lost>>

startThreads ==
    /\ BinderAt("start", "subhals")
    /\ threadsRun' = TRUE /\ writer' = "top" /\ waker' = "top"
    /\ UNCHANGED <<sensorVars, queues, lock, poster, acks, inits, lost>>

\* The sub-HAL's initialize: setOperationMode(NORMAL).
initializeSubHal ==
    /\ \/ BinderAt("subhals", "interrupt") /\ Sensor!setOperationMode("NORMAL")
       \/ BinderAt("interrupt", "idle") /\ Sensor!interruptPoll
    /\ UNCHANGED <<threadsRun, queues, lock, poster, proxyThreads, acks, inits, lost>>

initializeCommon ==
    \/ stopDrain \/ stopNotifyWaker \/ stopNotifyWriter \/ stopJoin
    \/ disableAllSensors \/ clearQueues \/ startThreads \/ initializeSubHal

-----------------------------------------------------------------------------
(* The framework, the touch controller and time (external) *)

FrameworkReads ==
    /\ eventQueue > 0
    /\ eventQueue' = eventQueue - 1 /\ acks' = acks + 1
    /\ UNCHANGED <<sensorVars, threadsRun, pending, lock, poster, proxyThreads, binder, inits, lost>>

Expire ==
    /\ ~expired
    /\ expired' = TRUE
    /\ UNCHANGED <<sensorVars, threadsRun, queues, refCount, poster, proxyThreads, acks, binder,
                   inits, lost>>

Finger == Sensor!Finger(TRUE) /\ UNCHANGED proxyVars

Next ==
    \/ Posting \/ SensorThread \/ handlePendingWrites \/ handleWakelocks
    \/ initialize \/ initializeCommon
    \/ activate \/ Finger \/ FrameworkReads \/ Expire

\* Every thread that can run does; a mutex is not withheld from the binder
\* thread for ever.  Nothing is asked of the framework or of fingers.
Fairness ==
    /\ WF_vars(Posting) /\ WF_vars(SensorThread)
    /\ WF_vars(handlePendingWrites) /\ WF_vars(handleWakelocks)
    /\ SF_vars(initializeCommon) /\ WF_vars(Expire)

Spec == Init /\ [][Next]_vars

FairSpec == Spec /\ Fairness

-----------------------------------------------------------------------------
(* Properties *)

\* The queues are cleared with no mutex held, and nobody is using them: the
\* threads are joined, and the sensor is not between the check of
\* areThreadsRunning and the end of its write, because activate(false) had
\* to take its mutex and a later post finds the threads stopped (HalProxy.cpp
\* 214-223, 537-556, HalProxyCallback.cpp 43, Sensor.cpp 290-299).
QueueClearedSafely ==
    binder \in {"clear", "start"}
      => writer = "none" /\ waker = "none" /\ poster.at \notin {"checked", "posted"}

\* When the threads have been started and the sub-HALs are still to be reset,
\* there is at most one event of the sensor: that of a poll which had returned
\* before activate(false) took the mutex.  The comment of lines 217-218, "we
\* do not get new events until after initialize resets the subhals", is off
\* by this one.
OneEarlyEvent == binder = "subhals" => eventQueue + pending <= 1

RestartInv == TypeOK /\ QueueClearedSafely /\ OneEarlyEvent

\* initialize gets past the join of the threads, wherever they are when they
\* are told to stop.  The one exception: mThreadsRun is stored and notified
\* without the mutexes, so a thread that has just found its condition false
\* misses the notification, and the join never returns (537, 548-556).
StopReturns == binder = "join" ~> binder # "join" \/ lost

\* A count taken before a restart is dropped in the end, although
\* resetSharedWakelock does nothing while the threads are stopped and the
\* wakelocks in use have become invalid (215, 624-628, 643, 713, 719).
CountDropped == refCount > 0 ~> refCount = 0 \/ lost

\* Events that wait for the writer leave the pending queue, also when they
\* were queued while it was stopped or just started (575-615, 691).
PendingDrained == pending > 0 ~> pending = 0 \/ lost

=============================================================================
