----------------------- MODULE HalProxyRestart_proofs -----------------------
(***************************************************************************)
(* Proofs about HalProxyRestart: for queues of any size and any number of  *)
(* restarts, the queues are cleared when nobody uses them, and at most one *)
(* event of a sensor comes between the start of the threads and the reset  *)
(* of its sub-HAL.                                                         *)
(***************************************************************************)
EXTENDS HalProxyRestart, TLAPS

\* The sensor with the facts proved about it.
Proved == INSTANCE OneShotSensor_proofs

\* From stopThreads to startThreads the threads are told to stop, and once
\* they are joined they stay away; the thread that writes a pending event has
\* one to remove; a sensor is inside postEvents only with its mutex.
ThreadsInv ==
    /\ body = "derived"
    /\ binder \in {"drain", "notifyWaker", "notifyWriter", "join", "disable", "clear", "start"}
         => ~threadsRun
    /\ binder \in {"disable", "clear", "start"} => writer = "none" /\ waker = "none"
    /\ writer \in {"write", "written"} => pending > 0
    /\ poster.at # "idle" => thread.at = "post"

\* From activate(false) to the reset of the sub-HAL the sensor is off, and as
\* long as the threads are stopped it does not get beyond their check.
DisabledInv ==
    /\ binder \in {"clear", "start", "subhals"} => ~mIsEnabled
    /\ binder \in {"clear", "start"} => poster.at \notin {"checked", "posted"}

\* The sensor has no poll left from before it was switched off, or the event
\* of that poll is written.
Spent == poster.at = "posted" \/ thread.at \notin {"poll", "polled", "post"}

\* The threads start with empty queues, and an event that is already there
\* uses up what the sensor had left.
EarlyInv ==
    /\ binder = "start" => eventQueue = 0 /\ pending = 0
    /\ binder = "subhals" => /\ pending = 0 /\ eventQueue <= 1
                             /\ eventQueue = 1 => Spent

\* The types, with what those of the sensor rest on.
TypeInv == TypeOK /\ Proved!PipeInv

\* The inductive invariant.
ProxyInv == TypeInv /\ ThreadsInv /\ DisabledInv /\ EarlyInv

-----------------------------------------------------------------------------
(* The sensor *)

\* Whatever the proxy does, its sensor takes a step of OneShotSensor or none.
LEMMA SensorStep == [Next]_vars => [Proved!Next]_sensorVars
<1> SUFFICES ASSUME [Next]_vars PROVE [Proved!Next]_sensorVars
    OBVIOUS
<1>1. CASE Posting
  <2>1. Sensor!Post => Proved!Post
      BY DEF Sensor!Post, Proved!Post, Sensor!flags, Proved!flags, Sensor!ThreadAt,
             Proved!ThreadAt
  <2>2. UNCHANGED sensorVars \/ Sensor!Post
      BY <1>1, Zenon DEF Posting, postBegin, postCheck, postWrite, postEnd
  <2> QED BY <2>1, <2>2 DEF Proved!Next, Proved!Thread
<1>2. CASE SensorThread
  <2>1. Sensor!Loop => Proved!Loop
      BY DEF Sensor!Loop, Proved!Loop, Sensor!flags, Proved!flags, Sensor!ThreadAt,
             Proved!ThreadAt, Sensor!Active, Proved!Active, Sensor!history, Proved!history
  <2>2. Sensor!Wakes => Proved!Wakes
      BY DEF Sensor!Wakes, Proved!Wakes, Sensor!flags, Proved!flags, Sensor!ThreadAt,
             Proved!ThreadAt, Sensor!history, Proved!history
  <2>3. Sensor!PollReturns => Proved!PollReturns
      BY DEF Sensor!PollReturns, Proved!PollReturns, Sensor!flags, Proved!flags,
             Sensor!history, Proved!history
  <2>4. Sensor!Detected => Proved!Detected
      BY DEF Sensor!Detected, Proved!Detected, Sensor!ThreadAt, Proved!ThreadAt,
             Sensor!history, Proved!history
  <2>5. Sensor!NotDetected => Proved!NotDetected
      BY DEF Sensor!NotDetected, Proved!NotDetected, Sensor!flags, Proved!flags,
             Sensor!ThreadAt, Proved!ThreadAt, Sensor!history, Proved!history
  <2> QED BY <1>2, <2>1, <2>2, <2>3, <2>4, <2>5 DEF SensorThread, Proved!Next, Proved!Thread
<1>3. CASE activate \/ initializeCommon
  <2>1. ASSUME NEW e \in BOOLEAN, Sensor!activate(e)
        PROVE  Proved!activate(e)
      BY <2>1 DEF Sensor!activate, Proved!activate, Sensor!MutexFree, Proved!MutexFree,
                  Sensor!NotifyAll, Proved!NotifyAll
  <2>2. Sensor!setOperationMode("NORMAL") => Proved!setOperationMode("NORMAL")
      BY DEF Sensor!setOperationMode, Proved!setOperationMode, Sensor!MutexFree,
             Proved!MutexFree, Sensor!NotifyAll, Proved!NotifyAll, Sensor!history,
             Proved!history
  <2>3. Sensor!interruptPoll => Proved!interruptPoll
      BY DEF Sensor!interruptPoll, Proved!interruptPoll, Sensor!flags, Proved!flags,
             Sensor!history, Proved!history
  <2>4. \/ UNCHANGED sensorVars \/ Sensor!activate(TRUE) \/ Sensor!activate(FALSE)
        \/ Sensor!setOperationMode("NORMAL") \/ Sensor!interruptPoll
      BY <1>3, Zenon DEF activate, initializeCommon, stopDrain, stopNotifyWaker,
         stopNotifyWriter, stopJoin, disableAllSensors, clearQueues, startThreads,
         initializeSubHal
  <2>5. TRUE \in BOOLEAN /\ FALSE \in BOOLEAN /\ "NORMAL" \in Proved!Modes
      BY DEF Proved!Modes
  <2> QED BY <2>1, <2>2, <2>3, <2>4, <2>5 DEF Proved!Next, Proved!CallerSteps
<1>4. CASE Finger
  <2>1. Sensor!Finger(TRUE) => Proved!Finger(TRUE)
      BY DEF Sensor!Finger, Proved!Finger, Sensor!flags, Proved!flags, Sensor!history,
             Proved!history
  <2> QED BY <1>4, <2>1 DEF Finger, Proved!Next
<1>5. CASE handlePendingWrites \/ handleWakelocks \/ initialize \/ FrameworkReads \/ Expire
    BY <1>5, Zenon DEF handlePendingWrites, writerTop, writerBlocks, writerWrites, writerPops,
       handleWakelocks, wakerTop, wakerBlocks, wakerReads, initialize, FrameworkReads, Expire
<1>6. CASE UNCHANGED vars
    BY <1>6 DEF vars
<1> QED BY <1>1, <1>2, <1>3, <1>4, <1>5, <1>6 DEF Next

\* So its variables keep their types, as proved for the sensor alone.
LEMMA SensorTypes ==
    TypeInv /\ [Next]_vars => Sensor!TypeOK' /\ Proved!PipeInv'
<1> SUFFICES ASSUME TypeInv, [Next]_vars PROVE Sensor!TypeOK' /\ Proved!PipeInv'
    OBVIOUS
<1>1. Sensor!TypeOK <=> Proved!TypeOK
    BY DEF Sensor!TypeOK, Proved!TypeOK, Sensor!Modes, Proved!Modes, Sensor!Locations,
           Proved!Locations
<1>2. Sensor!TypeOK' <=> Proved!TypeOK'
    BY DEF Sensor!TypeOK, Proved!TypeOK, Sensor!Modes, Proved!Modes, Sensor!Locations,
           Proved!Locations
<1>3. [Proved!Next]_(Proved!sensorVars)
    BY SensorStep DEF sensorVars, Proved!sensorVars, Proved!flags, Proved!history
<1>4. Proved!TypeOK /\ Proved!PipeInv
    BY <1>1 DEF TypeInv, TypeOK
<1>5. Proved!SensorAssumption
    BY RestartAssumption DEF Proved!SensorAssumption
<1> QED BY <1>2, <1>3, <1>4, <1>5, Proved!TypeStep, Proved!PipeStep

-----------------------------------------------------------------------------
(* The proxy *)

\* A thread that is notified was blocked, and goes on.
LEMMA NotifiedType ==
    /\ \A t \in ThreadLocations \cup {"write", "written"} :
         Notified(t) \in ThreadLocations \cup {"write", "written"}
    /\ \A t \in ThreadLocations \cup {"read"} : Notified(t) \in ThreadLocations \cup {"read"}
BY DEF ThreadLocations, Notified

\* Every step keeps the types of the sensor's postEvents.
LEMMA PosterType == TypeOK /\ [Next]_vars =>
    poster' \in [at: {"idle", "begun", "checked", "posted"}, locked: BOOLEAN, valid: BOOLEAN]
<1> DEFINE Posters == [at: {"idle", "begun", "checked", "posted"}, locked: BOOLEAN, valid: BOOLEAN]
<1> SUFFICES ASSUME TypeOK, [Next]_vars PROVE poster' \in Posters
    OBVIOUS
<1>0. poster \in Posters /\ Idle \in Posters /\ threadsRun \in BOOLEAN
    BY DEF TypeOK, Idle
<1>1. CASE postBegin
    BY <1>0, <1>1 DEF postBegin
<1>2. CASE postCheck
    BY <1>0, <1>2 DEF postCheck
<1>3. CASE postWrite
    BY <1>0, <1>3 DEF postWrite
<1>4. CASE postEnd
    BY <1>0, <1>4 DEF postEnd
<1>5. Reset => poster' \in Posters
    BY <1>0 DEF Reset
<1>6. CASE handleWakelocks \/ initializeCommon
  <2>1. Reset \/ poster' = poster
      BY <1>6, Zenon DEF handleWakelocks, wakerTop, wakerBlocks, wakerReads, initializeCommon,
         stopDrain, stopNotifyWaker, stopNotifyWriter, stopJoin, disableAllSensors,
         clearQueues, startThreads, initializeSubHal
  <2> QED BY <1>0, <1>5, <2>1
<1>7. CASE SensorThread \/ handlePendingWrites \/ initialize \/ activate \/ Finger
           \/ FrameworkReads \/ Expire \/ UNCHANGED vars
  <2>1. poster' = poster
      BY <1>7, Zenon DEF SensorThread, handlePendingWrites, writerTop, writerBlocks,
         writerWrites, writerPops, initialize, activate, Finger, FrameworkReads, Expire,
         proxyVars, vars
  <2> QED BY <1>0, <2>1
<1> QED BY <1>1, <1>2, <1>3, <1>4, <1>6, <1>7 DEF Next, Posting

\* Every step keeps the counts in their ranges; the writer removes only what
\* is there.
LEMMA CountType == TypeOK /\ ThreadsInv /\ [Next]_vars =>
    /\ eventQueue' \in 0 .. QueueSize /\ pending' \in 0 .. MaxPending
    /\ refCount' \in Nat /\ acks' \in Nat /\ inits' \in 0 .. MaxInits
<1> SUFFICES ASSUME TypeOK, ThreadsInv, [Next]_vars
             PROVE  /\ eventQueue' \in 0 .. QueueSize /\ pending' \in 0 .. MaxPending
                    /\ refCount' \in Nat /\ acks' \in Nat /\ inits' \in 0 .. MaxInits
    OBVIOUS
<1> USE RestartAssumption
<1>0. /\ eventQueue \in 0 .. QueueSize /\ pending \in 0 .. MaxPending
      /\ refCount \in Nat /\ acks \in Nat /\ inits \in 0 .. MaxInits
    BY DEF TypeOK
<1>1. Increment \/ Reset \/ UNCHANGED lock \/ Decrement(1) \/ Decrement(acks) => refCount' \in Nat
    BY <1>0 DEF Increment, Decrement, Reset, lock
<1>2. CASE postBegin \/ postCheck \/ postEnd
  <2>1. Increment \/ Decrement(1) \/ UNCHANGED lock
      BY <1>2, Zenon DEF postBegin, postCheck, postEnd
  <2>2. UNCHANGED <<queues, acks, inits>>
      BY <1>2, Zenon DEF postBegin, postCheck, postEnd
  <2> QED BY <1>0, <1>1, <2>1, <2>2 DEF queues
<1>3. CASE postWrite
  <2>1. Increment \/ UNCHANGED lock
      BY <1>3, Zenon DEF postWrite
  <2>2. eventQueue' \in 0 .. QueueSize /\ pending' \in 0 .. MaxPending
      BY <1>0, <1>3 DEF postWrite, queues
  <2> QED BY <1>0, <1>1, <1>3, <2>1, <2>2 DEF postWrite
<1>4. CASE SensorThread \/ activate \/ Finger \/ UNCHANGED vars
  <2>1. UNCHANGED proxyVars
      BY <1>4, Zenon DEF SensorThread, activate, Finger, vars
  <2> QED BY <1>0, <2>1 DEF proxyVars, queues, lock
<1>5. CASE writerTop \/ writerBlocks \/ writerWrites
    BY <1>0, <1>1, <1>5 DEF writerTop, writerBlocks, writerWrites, queues, lock
<1>6. CASE writerPops
  <2>1. pending > 0 /\ pending' = pending - 1
      BY <1>6 DEF writerPops, ThreadsInv
  <2> QED BY <1>0, <1>6, <2>1 DEF writerPops, lock
<1>7. CASE wakerTop \/ wakerBlocks \/ wakerReads
    BY <1>0, <1>1, <1>7 DEF wakerTop, wakerBlocks, wakerReads, queues, lock
<1>8. CASE initialize
    BY <1>0, <1>8 DEF initialize, queues, lock
<1>9. CASE stopDrain \/ stopNotifyWaker \/ stopNotifyWriter \/ stopJoin
    BY <1>0, <1>1, <1>9 DEF stopDrain, stopNotifyWaker, stopNotifyWriter, stopJoin, queues, lock
<1>10. CASE disableAllSensors \/ clearQueues \/ startThreads \/ initializeSubHal
  <2>1. CASE clearQueues
      BY <1>0, <2>1 DEF clearQueues, lock
  <2>2. CASE disableAllSensors \/ startThreads \/ initializeSubHal
    <3>1. UNCHANGED <<queues, lock, acks, inits>>
        BY <2>2, Zenon DEF disableAllSensors, startThreads, initializeSubHal
    <3> QED BY <1>0, <3>1 DEF queues, lock
  <2> QED BY <1>10, <2>1, <2>2
<1>11. CASE FrameworkReads \/ Expire
    BY <1>0, <1>11 DEF FrameworkReads, Expire, queues, lock
<1> QED
    BY <1>2, <1>3, <1>4, <1>5, <1>6, <1>7, <1>8, <1>9, <1>10, <1>11
    DEF Next, Posting, handlePendingWrites, handleWakelocks, initializeCommon

\* Every step keeps the locations of the threads.
LEMMA PlaceType == TypeOK /\ [Next]_vars =>
    /\ writer' \in ThreadLocations \cup {"write", "written"}
    /\ waker' \in ThreadLocations \cup {"read"}
    /\ binder' \in {"idle", "drain", "notifyWaker", "notifyWriter", "join", "disable",
                    "clear", "start", "subhals", "interrupt"}
<1> SUFFICES ASSUME TypeOK, [Next]_vars
             PROVE  /\ writer' \in ThreadLocations \cup {"write", "written"}
                    /\ waker' \in ThreadLocations \cup {"read"}
                    /\ binder' \in {"idle", "drain", "notifyWaker", "notifyWriter", "join",
                                    "disable", "clear", "start", "subhals", "interrupt"}
    OBVIOUS
<1>0. /\ writer \in ThreadLocations \cup {"write", "written"}
      /\ waker \in ThreadLocations \cup {"read"}
      /\ binder \in {"idle", "drain", "notifyWaker", "notifyWriter", "join", "disable",
                     "clear", "start", "subhals", "interrupt"}
    BY DEF TypeOK
<1>1. Increment \/ UNCHANGED waker => waker' \in ThreadLocations \cup {"read"}
    BY <1>0, NotifiedType DEF Increment
<1>2. CASE Posting
  <2>1. (Increment \/ UNCHANGED waker) /\ UNCHANGED binder
      BY <1>2, Zenon DEF Posting, postBegin, postCheck, postWrite, postEnd, proxyThreads
  <2>2. writer' = writer \/ writer' = Notified(writer)
      BY <1>2, Zenon DEF Posting, postBegin, postCheck, postWrite, postEnd, proxyThreads
  <2> QED BY <1>0, <1>1, <2>1, <2>2, NotifiedType
<1>3. CASE SensorThread \/ activate \/ Finger \/ FrameworkReads \/ Expire \/ UNCHANGED vars
  <2>1. UNCHANGED <<writer, waker, binder>>
      BY <1>3, Zenon DEF SensorThread, activate, Finger, FrameworkReads, Expire, proxyVars,
         proxyThreads, vars
  <2> QED BY <1>0, <2>1
<1>4. CASE handlePendingWrites
    BY <1>0, <1>4 DEF handlePendingWrites, writerTop, writerBlocks, writerWrites, writerPops,
       ThreadLocations
<1>5. CASE handleWakelocks
    BY <1>0, <1>5 DEF handleWakelocks, wakerTop, wakerBlocks, wakerReads, ThreadLocations
<1>6. CASE initialize
    BY <1>0, <1>6 DEF initialize, BinderAt, proxyThreads
<1>7. CASE initializeCommon
    BY <1>0, <1>7, NotifiedType DEF initializeCommon, stopDrain, stopNotifyWaker,
       stopNotifyWriter, stopJoin, disableAllSensors, clearQueues, startThreads,
       initializeSubHal, BinderAt, proxyThreads, ThreadLocations
<1> QED BY <1>2, <1>3, <1>4, <1>5, <1>6, <1>7 DEF Next

\* Every step keeps the types.
LEMMA TypeStep == TypeInv /\ ThreadsInv /\ [Next]_vars => TypeInv'
<1> SUFFICES ASSUME TypeInv, ThreadsInv, [Next]_vars PROVE TypeInv'
    OBVIOUS
<1>0. TypeOK
    BY DEF TypeInv
<1>1. threadsRun \in BOOLEAN /\ expired \in BOOLEAN /\ lost \in BOOLEAN
    BY <1>0 DEF TypeOK
<1>2. threadsRun' \in {threadsRun, TRUE, FALSE} /\ expired' \in {expired, TRUE, FALSE}
    BY DEF Next, vars, proxyVars, Posting, postBegin, postCheck, postWrite, postEnd,
       SensorThread, activate, Finger, FrameworkReads, Expire, handlePendingWrites, writerTop,
       writerBlocks, writerWrites, writerPops, handleWakelocks, wakerTop, wakerBlocks,
       wakerReads, initialize, initializeCommon, stopDrain, stopNotifyWaker, stopNotifyWriter,
       stopJoin, disableAllSensors, clearQueues, startThreads, initializeSubHal, Increment,
       Decrement, Reset, lock
<1>3. \/ lost' = lost \/ lost' = (lost \/ waker = "blocking")
      \/ lost' = (lost \/ writer = "blocking")
    BY Zenon DEF Next, vars, proxyVars, Posting, postBegin, postCheck, postWrite, postEnd,
       SensorThread, activate, Finger, FrameworkReads, Expire, handlePendingWrites, writerTop,
       writerBlocks, writerWrites, writerPops, handleWakelocks, wakerTop, wakerBlocks,
       wakerReads, initialize, initializeCommon, stopDrain, stopNotifyWaker, stopNotifyWriter,
       stopJoin, disableAllSensors, clearQueues, startThreads, initializeSubHal
<1>4. lost' \in BOOLEAN
    BY <1>1, <1>3, Zenon
<1>5. threadsRun' \in BOOLEAN /\ expired' \in BOOLEAN
    BY <1>1, <1>2
<1> QED BY <1>0, <1>4, <1>5, SensorTypes, PosterType, CountType, PlaceType DEF TypeInv, TypeOK

-----------------------------------------------------------------------------
(* What the sensor does, seen from the proxy *)

\* The step of the sensor's thread and of its callers, in terms of what the
\* invariants mention: it leaves postEvents only in postCheck and postEnd, is
\* enabled only by the framework's activate, and has no poll to come once it
\* is off and out of the last one.
LEMMA SensorMoves ==
    TypeInv /\ ThreadsInv /\ [Next]_vars
      => /\ body' = "derived"
         /\ thread.at = "post" => thread'.at = "post" \/ poster' = Idle
         /\ mIsEnabled' => mIsEnabled \/ binder = "idle"
         /\ ~mIsEnabled /\ thread.at \notin {"poll", "polled", "post"}
              => thread'.at \notin {"poll", "polled", "post"}
<1> DEFINE Quiet == {"poll", "polled", "post"}
           Moves == /\ body' = "derived"
                    /\ thread.at = "post" => thread'.at = "post" \/ poster' = Idle
                    /\ mIsEnabled' => mIsEnabled \/ binder = "idle"
                    /\ ~mIsEnabled /\ thread.at \notin Quiet => thread'.at \notin Quiet
<1> SUFFICES ASSUME TypeInv, ThreadsInv, [Next]_vars PROVE Moves
    OBVIOUS
<1>0. /\ body = "derived" /\ mIsEnabled \in BOOLEAN
      /\ thread \in [at: Sensor!Locations, revents: SUBSET {"pipe", "node", "error"}]
    BY DEF TypeInv, TypeOK, Sensor!TypeOK, ThreadsInv
<1>1. ASSUME UNCHANGED sensorVars PROVE Moves
    BY <1>0, <1>1 DEF sensorVars
<1>2. ASSUME Sensor!Post, poster' = Idle PROVE Moves
    BY <1>0, <1>2 DEF Sensor!Post, Sensor!ThreadAt, Sensor!flags
<1>3. CASE Posting
  <2>1. UNCHANGED sensorVars \/ (Sensor!Post /\ poster' = Idle)
      BY <1>3, Zenon DEF Posting, postBegin, postCheck, postWrite, postEnd
  <2> QED BY <1>1, <1>2, <2>1
<1>4. CASE SensorThread
    BY <1>0, <1>4 DEF SensorThread, Sensor!Loop, Sensor!Wakes, Sensor!PollReturns,
       Sensor!Detected, Sensor!NotDetected, Sensor!ThreadAt, Sensor!Active, Sensor!flags
<1>5. CASE activate
    BY <1>0, <1>5 DEF activate, Sensor!activate, Sensor!NotifyAll, Sensor!MutexFree
<1>6. CASE initializeCommon
  <2>1. ASSUME Sensor!activate(FALSE) PROVE Moves
      BY <1>0, <2>1 DEF Sensor!activate, Sensor!NotifyAll, Sensor!MutexFree
  <2>2. ASSUME Sensor!setOperationMode("NORMAL") PROVE Moves
      BY <1>0, <2>2 DEF Sensor!setOperationMode, Sensor!NotifyAll, Sensor!MutexFree
  <2>3. ASSUME Sensor!interruptPoll PROVE Moves
      BY <1>0, <2>3 DEF Sensor!interruptPoll, Sensor!flags
  <2>4. \/ UNCHANGED sensorVars \/ Sensor!activate(FALSE)
        \/ Sensor!setOperationMode("NORMAL") \/ Sensor!interruptPoll
      BY <1>6, Zenon DEF initializeCommon, stopDrain, stopNotifyWaker, stopNotifyWriter,
         stopJoin, disableAllSensors, clearQueues, startThreads, initializeSubHal
  <2> QED BY <1>1, <2>1, <2>2, <2>3, <2>4
<1>7. CASE Finger
    BY <1>0, <1>7 DEF Finger, Sensor!Finger, Sensor!flags
<1>8. CASE handlePendingWrites \/ handleWakelocks \/ initialize \/ FrameworkReads \/ Expire
           \/ UNCHANGED vars
  <2>1. UNCHANGED sensorVars
      BY <1>8, Zenon DEF handlePendingWrites, writerTop, writerBlocks, writerWrites, writerPops,
         handleWakelocks, wakerTop, wakerBlocks, wakerReads, initialize, FrameworkReads, Expire,
         vars
  <2> QED BY <1>1, <2>1
<1> QED BY <1>3, <1>4, <1>5, <1>6, <1>7, <1>8 DEF Next

-----------------------------------------------------------------------------
(* The invariants *)

\* Every step keeps what is known of the threads.
LEMMA ThreadsStep == TypeInv /\ ThreadsInv /\ [Next]_vars => ThreadsInv'
<1> DEFINE Stopping == {"drain", "notifyWaker", "notifyWriter", "join", "disable", "clear", "start"}
           Joined == {"disable", "clear", "start"}
           Rest == /\ binder' \in Stopping => ~threadsRun'
                   /\ binder' \in Joined => writer' = "none" /\ waker' = "none"
                   /\ writer' \in {"write", "written"} => pending' > 0
                   /\ poster'.at # "idle" => thread'.at = "post"
<1> SUFFICES ASSUME TypeInv, ThreadsInv, [Next]_vars PROVE Rest
    BY SensorMoves DEF ThreadsInv
<1>0. /\ binder \in Stopping => ~threadsRun
      /\ binder \in Joined => writer = "none" /\ waker = "none"
      /\ writer \in {"write", "written"} => pending > 0
      /\ poster.at # "idle" => thread.at = "post"
      /\ pending \in Nat /\ pending' \in Nat
      /\ poster \in [at: {"idle", "begun", "checked", "posted"}, locked: BOOLEAN, valid: BOOLEAN]
    BY TypeStep, RestartAssumption DEF TypeInv, TypeOK, ThreadsInv
<1>1. poster' = poster \/ poster' = Idle \/ Reset => (poster'.at # "idle" => thread'.at = "post")
    BY <1>0, SensorMoves DEF Idle, Reset
<1>2. CASE postBegin
  <2>1. poster'.at # "idle" => thread'.at = "post"
      BY <1>2 DEF postBegin, sensorVars
  <2>2. binder \in Joined => waker' = "none"
      BY <1>0, <1>2 DEF postBegin, Increment
  <2> QED BY <1>0, <1>2, <2>1, <2>2 DEF postBegin, queues
<1>3. CASE postCheck
  <2>1. poster'.at # "idle" => thread'.at = "post"
      BY <1>0, <1>3 DEF postCheck, sensorVars, Idle
  <2> QED BY <1>0, <1>3, <2>1 DEF postCheck, queues, proxyThreads
<1>4. CASE postWrite
  <2>1. poster'.at # "idle" => thread'.at = "post"
      BY <1>0, <1>4 DEF postWrite, sensorVars
  <2>2. binder \in Joined => waker' = "none"
      BY <1>0, <1>4 DEF postWrite, Increment
  <2>3. /\ binder \in Joined => writer' = "none"
        /\ writer' \in {"write", "written"} => pending' > 0
      BY <1>0, <1>4 DEF postWrite, Notified, queues
  <2> QED BY <1>0, <1>4, <2>1, <2>2, <2>3 DEF postWrite
<1>5. CASE postEnd
    BY <1>0, <1>1, <1>5 DEF postEnd, queues, proxyThreads
<1>6. CASE SensorThread \/ activate \/ Finger \/ UNCHANGED vars
  <2>1. UNCHANGED proxyVars
      BY <1>6, Zenon DEF SensorThread, activate, Finger, vars
  <2> QED BY <1>0, <1>1, <2>1 DEF proxyVars, queues, proxyThreads
<1>7. CASE writerTop
    BY <1>0, <1>1, <1>7 DEF writerTop, queues
<1>8. CASE writerBlocks \/ writerWrites \/ writerPops
    BY <1>0, <1>1, <1>8 DEF writerBlocks, writerWrites, writerPops, queues
<1>9. CASE wakerTop \/ wakerBlocks \/ wakerReads
  <2>1. poster' = poster \/ Reset
      BY <1>9, Zenon DEF wakerTop, wakerBlocks, wakerReads
  <2>2. UNCHANGED <<threadsRun, queues, writer, binder>> /\ waker # "none"
      BY <1>9 DEF wakerTop, wakerBlocks, wakerReads
  <2> QED BY <1>0, <1>1, <2>1, <2>2 DEF queues
<1>10. CASE initialize
    BY <1>0, <1>1, <1>10 DEF initialize, BinderAt, queues, proxyThreads
<1>11. CASE stopDrain \/ stopNotifyWaker \/ stopNotifyWriter
    BY <1>0, <1>1, <1>11 DEF stopDrain, stopNotifyWaker, stopNotifyWriter, BinderAt, Notified,
       queues, proxyThreads
<1>12. CASE stopJoin
    BY <1>0, <1>1, <1>12 DEF stopJoin, BinderAt, queues, proxyThreads
<1>13. CASE disableAllSensors
    BY <1>0, <1>1, <1>13 DEF disableAllSensors, BinderAt, queues, proxyThreads
<1>14. CASE clearQueues
    BY <1>0, <1>1, <1>14 DEF clearQueues, BinderAt, proxyThreads
<1>15. CASE startThreads
    BY <1>0, <1>1, <1>15 DEF startThreads, BinderAt, queues
<1>16. CASE initializeSubHal
    BY <1>0, <1>1, <1>16 DEF initializeSubHal, BinderAt, queues, proxyThreads
<1>17. CASE FrameworkReads \/ Expire
    BY <1>0, <1>1, <1>17 DEF FrameworkReads, Expire, queues, proxyThreads
<1> QED
    BY <1>2, <1>3, <1>4, <1>5, <1>6, <1>7, <1>8, <1>9, <1>10, <1>11, <1>12, <1>13, <1>14,
       <1>15, <1>16, <1>17
    DEF Next, Posting, handlePendingWrites, handleWakelocks, initializeCommon

\* The binder thread gets to each place of initialize from the one before, by
\* the step that belongs there.
LEMMA BinderSteps ==
    [Next]_vars
      => /\ binder' = "clear" => binder = "clear" \/ disableAllSensors
         /\ binder' = "start" => binder = "start" \/ clearQueues
         /\ binder' = "subhals" => binder = "subhals" \/ startThreads
<1> SUFFICES ASSUME [Next]_vars
             PROVE  /\ binder' = "clear" => binder = "clear" \/ disableAllSensors
                    /\ binder' = "start" => binder = "start" \/ clearQueues
                    /\ binder' = "subhals" => binder = "subhals" \/ startThreads
    OBVIOUS
<1>1. CASE initialize \/ initializeCommon
    BY <1>1 DEF initialize, initializeCommon, stopDrain, stopNotifyWaker, stopNotifyWriter,
       stopJoin, disableAllSensors, clearQueues, startThreads, initializeSubHal, BinderAt
<1>2. CASE Posting \/ SensorThread \/ handlePendingWrites \/ handleWakelocks \/ activate
           \/ Finger \/ FrameworkReads \/ Expire \/ UNCHANGED vars
  <2>1. binder' = binder
      BY <1>2, Zenon DEF Posting, postBegin, postCheck, postWrite, postEnd, SensorThread,
         handlePendingWrites, writerTop, writerBlocks, writerWrites, writerPops,
         handleWakelocks, wakerTop, wakerBlocks, wakerReads, activate, Finger, FrameworkReads,
         Expire, proxyVars, vars
  <2> QED BY <2>1
<1> QED BY <1>1, <1>2 DEF Next

\* A step of the proxy that is not one of the sensor's in postEvents leaves it
\* where it is, and the sensor gets beyond the check only when the threads run.
LEMMA PosterSteps ==
    TypeInv /\ [Next]_vars
      => \/ poster'.at = poster.at
         \/ postBegin /\ poster'.at = "begun"
         \/ Sensor!Post /\ poster'.at = "idle"
         \/ poster.at = "begun" /\ poster'.at = "checked" /\ threadsRun
         \/ postWrite
<1> SUFFICES ASSUME TypeInv, [Next]_vars
             PROVE  \/ poster'.at = poster.at
                    \/ postBegin /\ poster'.at = "begun"
                    \/ Sensor!Post /\ poster'.at = "idle"
                    \/ poster.at = "begun" /\ poster'.at = "checked" /\ threadsRun
                    \/ postWrite
    OBVIOUS
<1>0. poster \in [at: {"idle", "begun", "checked", "posted"}, locked: BOOLEAN, valid: BOOLEAN]
    BY DEF TypeInv, TypeOK
<1>1. CASE Posting
    BY <1>0, <1>1 DEF Posting, postBegin, postCheck, postEnd, Idle
<1>2. Reset => poster'.at = poster.at
    BY <1>0 DEF Reset
<1>3. CASE handleWakelocks \/ initializeCommon
  <2>1. Reset \/ poster' = poster
      BY <1>3, Zenon DEF handleWakelocks, wakerTop, wakerBlocks, wakerReads, initializeCommon,
         stopDrain, stopNotifyWaker, stopNotifyWriter, stopJoin, disableAllSensors,
         clearQueues, startThreads, initializeSubHal
  <2> QED BY <1>2, <2>1
<1>4. CASE SensorThread \/ handlePendingWrites \/ initialize \/ activate \/ Finger
           \/ FrameworkReads \/ Expire \/ UNCHANGED vars
  <2>1. poster' = poster
      BY <1>4, Zenon DEF SensorThread, handlePendingWrites, writerTop, writerBlocks,
         writerWrites, writerPops, initialize, activate, Finger, FrameworkReads, Expire,
         proxyVars, vars
  <2> QED BY <2>1
<1> QED BY <1>1, <1>3, <1>4 DEF Next

\* activate(false) finds the sensor outside postEvents, and nothing enables it
\* or lets it past the check until its sub-HAL is reset.
LEMMA DisabledStep == TypeInv /\ ThreadsInv /\ DisabledInv /\ [Next]_vars => DisabledInv'
<1> SUFFICES ASSUME TypeInv, ThreadsInv, DisabledInv, [Next]_vars PROVE DisabledInv'
    OBVIOUS
<1>0. mIsEnabled \in BOOLEAN
    BY DEF TypeInv, TypeOK, Sensor!TypeOK
<1>1. CASE disableAllSensors
  <2>1. thread.at # "post" /\ poster' = poster
      BY <1>1 DEF disableAllSensors, Sensor!MutexFree
  <2>2. poster'.at = "idle"
      BY <2>1 DEF ThreadsInv
  <2>3. ~mIsEnabled'
      BY <1>0, <1>1 DEF disableAllSensors, Sensor!activate, sensorVars
  <2> QED BY <2>2, <2>3 DEF DisabledInv
<1>2. CASE ~disableAllSensors
  <2>1. /\ binder' \in {"clear", "start", "subhals"}
             => binder \in {"clear", "start", "subhals"}
        /\ binder' \in {"clear", "start"} => binder \in {"clear", "start"}
      BY <1>2, BinderSteps DEF clearQueues, startThreads, BinderAt
  <2>2. binder' \in {"clear", "start", "subhals"} => ~mIsEnabled'
      BY <2>1, SensorMoves DEF DisabledInv
  <2>3. ASSUME binder' \in {"clear", "start"} PROVE poster'.at \notin {"checked", "posted"}
    <3>1. poster.at \notin {"checked", "posted"} /\ ~threadsRun
        BY <2>1, <2>3 DEF DisabledInv, ThreadsInv
    <3>2. ~postWrite
        BY <3>1 DEF postWrite
    <3> QED BY <3>1, <3>2, PosterSteps
  <2> QED BY <2>2, <2>3 DEF DisabledInv
<1> QED BY <1>1, <1>2

\* Who changes the queues.
LEMMA QueueSteps ==
    [Next]_vars
      => \/ UNCHANGED queues \/ postWrite \/ writerWrites \/ writerPops
         \/ FrameworkReads \/ stopDrain \/ clearQueues
BY Zenon DEF Next, Posting, postBegin, postCheck, postEnd, SensorThread, handlePendingWrites,
   writerTop, writerBlocks, handleWakelocks, wakerTop, wakerBlocks, wakerReads, initialize,
   initializeCommon, stopNotifyWaker, stopNotifyWriter, stopJoin, disableAllSensors,
   startThreads, initializeSubHal, activate, Finger, Expire, proxyVars, vars

\* Once the sensor is off, what is spent stays spent.
LEMMA SpentStep ==
    TypeInv /\ ThreadsInv /\ [Next]_vars /\ ~mIsEnabled /\ Spent => Spent'
<1> SUFFICES ASSUME TypeInv, ThreadsInv, [Next]_vars, ~mIsEnabled, Spent PROVE Spent'
    OBVIOUS
<1>1. CASE poster.at = "posted"
  <2>1. ~postBegin /\ ~postWrite
      BY <1>1 DEF postBegin, postWrite
  <2>2. Sensor!Post => thread'.at = "held"
      BY DEF Sensor!Post, Sensor!ThreadAt, ThreadsInv
  <2> QED BY <1>1, <2>1, <2>2, PosterSteps DEF Spent
<1>2. CASE thread.at \notin {"poll", "polled", "post"}
    BY <1>2, SensorMoves DEF Spent
<1> QED BY <1>1, <1>2 DEF Spent

\* The queues are empty when the threads start, and the one event that may
\* come before the sub-HAL is reset is written at once.
LEMMA EarlyStep == ProxyInv /\ [Next]_vars => EarlyInv'
<1> SUFFICES ASSUME ProxyInv, [Next]_vars PROVE EarlyInv'
    OBVIOUS
<1> USE DEF ProxyInv
<1>0. /\ QueueSize \in Nat \ {0} /\ eventQueue \in Nat /\ pending \in Nat
      /\ poster \in [at: {"idle", "begun", "checked", "posted"}, locked: BOOLEAN, valid: BOOLEAN]
    BY RestartAssumption DEF TypeInv, TypeOK
<1>1. ASSUME binder' = "start" PROVE eventQueue' = 0 /\ pending' = 0
  <2>1. CASE clearQueues
      BY <2>1 DEF clearQueues
  <2>2. CASE ~clearQueues
    <3>1. binder = "start"
        BY <1>1, <2>2, BinderSteps
    <3>2. /\ eventQueue = 0 /\ pending = 0 /\ writer = "none"
          /\ poster.at \notin {"checked", "posted"}
        BY <3>1 DEF EarlyInv, ThreadsInv, DisabledInv
    <3>3. ~postWrite /\ ~writerWrites /\ ~writerPops /\ ~FrameworkReads /\ ~stopDrain
        BY <3>1, <3>2 DEF postWrite, writerWrites, writerPops, FrameworkReads, stopDrain, BinderAt
    <3> QED BY <2>2, <3>2, <3>3, QueueSteps DEF queues
  <2> QED BY <2>1, <2>2
<1>2. ASSUME binder' = "subhals"
      PROVE  pending' = 0 /\ eventQueue' <= 1 /\ (eventQueue' = 1 => Spent')
  <2>1. CASE startThreads
    <3>1. binder = "start" /\ UNCHANGED queues
        BY <2>1 DEF startThreads, BinderAt
    <3>2. eventQueue' = 0 /\ pending' = 0
        BY <3>1 DEF EarlyInv, queues
    <3> QED BY <3>2
  <2>2. CASE ~startThreads
    <3>1. binder = "subhals"
        BY <1>2, <2>2, BinderSteps
    <3>2. /\ pending = 0 /\ eventQueue <= 1 /\ (eventQueue = 1 => Spent) /\ ~mIsEnabled
          /\ writer \notin {"write", "written"}
        BY <1>0, <3>1 DEF EarlyInv, DisabledInv, ThreadsInv
    <3>3. eventQueue = 1 => Spent'
        BY <3>2, SpentStep
    <3>4. ~writerWrites /\ ~writerPops /\ ~stopDrain /\ ~clearQueues
        BY <3>1, <3>2 DEF writerWrites, writerPops, stopDrain, clearQueues, BinderAt
    <3>5. CASE postWrite
      <4>1. poster.at = "checked" /\ poster'.at = "posted"
          BY <1>0, <3>5 DEF postWrite
      <4>2. eventQueue # 1
          BY <3>2, <4>1 DEF Spent, ThreadsInv
      <4>3. eventQueue = 0
          BY <1>0, <3>2, <4>2
      <4>4. eventQueue' = 1 /\ pending' = 0
          BY <1>0, <3>2, <3>5, <4>3 DEF postWrite
      <4> QED BY <4>1, <4>4 DEF Spent
    <3>6. CASE FrameworkReads
      <4>1. eventQueue' = eventQueue - 1 /\ pending' = pending /\ eventQueue > 0
          BY <3>6 DEF FrameworkReads
      <4> QED BY <1>0, <3>2, <4>1
    <3>7. CASE UNCHANGED queues
        BY <3>2, <3>3, <3>7 DEF queues
    <3> QED BY <3>4, <3>5, <3>6, <3>7, QueueSteps
  <2> QED BY <2>1, <2>2
<1> QED BY <1>1, <1>2 DEF EarlyInv

-----------------------------------------------------------------------------
(* The theorems *)

\* Before the framework has connected.
LEMMA InitInv == Init => ProxyInv
<1> SUFFICES ASSUME Init PROVE ProxyInv
    OBVIOUS
<1> USE RestartAssumption
<1>1. threadsRun \in BOOLEAN /\ expired \in BOOLEAN /\ lost \in BOOLEAN
    BY Zenon DEF Init
<1>2. mIsEnabled \in BOOLEAN /\ mMode \in Sensor!Modes /\ mStopThread \in BOOLEAN
    BY Zenon DEF Init, Sensor!Init, Sensor!Modes
<1>3. Sensor!TypeOK /\ Proved!PipeInv
    BY <1>2 DEF Init, Sensor!Init, Sensor!TypeOK, Sensor!Locations, Proved!PipeInv
<1>4. TypeOK
    BY <1>1, <1>3 DEF Init, TypeOK, Idle, ThreadLocations
<1>5. ThreadsInv /\ DisabledInv /\ EarlyInv
    BY DEF Init, Idle, ThreadsInv, DisabledInv, EarlyInv
<1> QED BY <1>3, <1>4, <1>5 DEF ProxyInv, TypeInv

\* The invariant holds in every state.
LEMMA ProxySafe == Spec => []ProxyInv
<1>1. ProxyInv /\ [Next]_vars => ProxyInv'
    BY TypeStep, ThreadsStep, DisabledStep, EarlyStep DEF ProxyInv
<1> QED BY <1>1, InitInv, PTL DEF Spec

\* However often the framework connects, and wherever the sensor's thread and
\* the proxy's are: the queues, which are cleared without a mutex, are cleared
\* when nobody uses them, and not more than one event is written between the
\* start of the threads and the reset of the sub-HALs (HalProxy.cpp 206-275,
\* 537-556).
THEOREM RestartSafe == Spec => []RestartInv
<1>1. ProxyInv => RestartInv
  <2> SUFFICES ASSUME ProxyInv PROVE RestartInv
      OBVIOUS
  <2>1. TypeOK
      BY DEF ProxyInv, TypeInv
  <2>2. QueueClearedSafely
      BY DEF ProxyInv, ThreadsInv, DisabledInv, QueueClearedSafely
  <2>3. OneEarlyEvent
      BY <2>1, RestartAssumption DEF ProxyInv, EarlyInv, OneEarlyEvent, TypeOK
  <2> QED BY <2>1, <2>2, <2>3 DEF RestartInv
<1> QED BY <1>1, ProxySafe, PTL

=============================================================================
