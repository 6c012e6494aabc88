---------------------- MODULE SessionLockout_proofs ----------------------
(***************************************************************************)
(* Proofs about SessionLockout: the threads that share the lockout without *)
(* a lock never leave two timers pending, never forget attempts that they  *)
(* may not, and never disarm the thresholds; for any number of timer       *)
(* threads, any thresholds and any duration.                               *)
(***************************************************************************)
EXTENDS SessionLockout, TLAPS

\* A timer that is still to clear the lockout is announced by the flag, or its
\* announcement is the next thing that the HAL's thread does.
TimerInv ==
    \A t \in TimerThreads :
      timer[t].at \in {"sleep", "reset", "tell", "started"}
        => mIsLockoutTimerStarted \/ hal.at = "armed"

\* Between the load and the store of mFailedCount others only clear it.
CountInv == hal.at = "count" => tracker.failed < hal.n

Timed(n) == n \in LOCKOUT_TIMED_THRESHOLD .. LOCKOUT_PERMANENT_THRESHOLD - 1
Permanent(n) == n >= LOCKOUT_PERMANENT_THRESHOLD

\* What an undisturbed attempt has established so far, from place to place.
AttemptInv ==
    ~disturbed =>
      /\ hal.at = "mode"
           => /\ Permanent(hal.n) => tracker.mode = "PERMANENT"
              /\ Timed(hal.n) => tracker.mode = "TIMED" /\ tracker.left > 0
      /\ hal.at = "report"
           => /\ Permanent(hal.n) => hal.mode = "PERMANENT"
              /\ Timed(hal.n) => hal.mode = "TIMED"
      /\ hal.at \in {"arm", "armed"}
           => /\ ~Permanent(hal.n)
              /\ Timed(hal.n) => heard = "timed"

-----------------------------------------------------------------------------
\* A record whose mode, start and time left are replaced is a tracker.
LEMMA TrackerExcept ==
    ASSUME NEW t \in Tracker, NEW m \in LockoutMode, NEW b \in BOOLEAN,
           NEW d \in 0 .. LOCKOUT_TIMED_DURATION
    PROVE  [t EXCEPT !.mode = m, !.started = b, !.left = d] \in Tracker
<1> DEFINE t1 == [t EXCEPT !.mode = m]
           t2 == [t1 EXCEPT !.started = b]
           t3 == [t2 EXCEPT !.left = d]
<1>1. t1 \in Tracker
    BY DEF Tracker
<1>2. t2 \in Tracker
  <2> HIDE DEF t1
  <2> QED BY <1>1 DEF Tracker
<1>3. t3 \in Tracker
  <2> HIDE DEF t2
  <2> QED BY <1>2 DEF Tracker
<1> QED BY <1>3

\* The operators of the tracker return trackers.
LEMMA TrackerClosed ==
    ASSUME NEW t \in Tracker
    PROVE  /\ ClearCount(t) \in Tracker /\ ClearMode(t) \in Tracker
           /\ AfterGetMode(t) \in Tracker /\ Elapse(t) \in Tracker
           /\ \A n \in 0 .. MaxFailures :
                Escalate(t, n) \in Tracker /\ [t EXCEPT !.failed = n] \in Tracker
           /\ getLockoutTimeLeft(t) \in 0 .. LOCKOUT_TIMED_DURATION
<1> USE LockoutAssumption
<1>1. ClearCount(t) \in Tracker
    BY DEF ClearCount, Tracker
<1>2. ClearMode(t) \in Tracker
  <2>1. "NONE" \in LockoutMode /\ 0 \in 0 .. LOCKOUT_TIMED_DURATION
      BY DEF LockoutMode
  <2> QED BY <2>1, TrackerExcept, Zenon DEF ClearMode
<1>3. AfterGetMode(t) \in Tracker
    BY <1>2 DEF AfterGetMode
<1>4. Elapse(t) \in Tracker
    BY DEF Elapse, Tracker
<1>5. ASSUME NEW n \in 0 .. MaxFailures
      PROVE  Escalate(t, n) \in Tracker /\ [t EXCEPT !.failed = n] \in Tracker
  <2>1. [t EXCEPT !.failed = n] \in Tracker
      BY DEF Tracker
  <2>2. [t EXCEPT !.mode = "PERMANENT"] \in Tracker
      BY DEF Tracker, LockoutMode
  <2>3. [t EXCEPT !.mode = "TIMED", !.started = TRUE, !.left = LOCKOUT_TIMED_DURATION] \in Tracker
    <3>1. "TIMED" \in LockoutMode /\ LOCKOUT_TIMED_DURATION \in 0 .. LOCKOUT_TIMED_DURATION
        BY DEF LockoutMode
    <3> QED BY <3>1, TrackerExcept, Zenon
  <2> QED BY <2>1, <2>2, <2>3 DEF Escalate
<1>6. getLockoutTimeLeft(t) \in 0 .. LOCKOUT_TIMED_DURATION
    BY DEF getLockoutTimeLeft, Tracker
<1> QED BY <1>1, <1>2, <1>3, <1>4, <1>5, <1>6

\* What the operators change of a tracker, and what they leave alone.
LEMMA TrackerFields ==
    ASSUME NEW t \in Tracker, NEW n \in 0 .. MaxFailures
    PROVE  /\ ClearCount(t).failed = 0
           /\ ClearMode(t).failed = t.failed
           /\ AfterGetMode(t).failed = t.failed
           /\ AfterGetMode(t).mode = IF t.mode = "TIMED" /\ t.left = 0 THEN "NONE" ELSE t.mode
           /\ Elapse(t).failed = t.failed
           /\ Elapse(t).mode = t.mode
           /\ Elapse(t).left = IF t.left > 0 THEN t.left - 1 ELSE 0
           /\ Escalate(t, n).failed = t.failed
           /\ [t EXCEPT !.failed = n].failed = n
           /\ n >= LOCKOUT_PERMANENT_THRESHOLD => Escalate(t, n).mode = "PERMANENT"
           /\ n \in LOCKOUT_TIMED_THRESHOLD .. LOCKOUT_PERMANENT_THRESHOLD - 1
                => Escalate(t, n).mode = "TIMED" /\ Escalate(t, n).left > 0
<1> USE LockoutAssumption
<1>1. ClearCount(t).failed = 0 /\ [t EXCEPT !.failed = n].failed = n
    BY DEF ClearCount, Tracker
<1>2. ClearMode(t).failed = t.failed /\ ClearMode(t).mode = "NONE"
    BY DEF ClearMode, Tracker
<1>3. /\ AfterGetMode(t).failed = t.failed
      /\ AfterGetMode(t).mode = IF t.mode = "TIMED" /\ t.left = 0 THEN "NONE" ELSE t.mode
    BY <1>2 DEF AfterGetMode
<1>4. /\ Elapse(t).failed = t.failed /\ Elapse(t).mode = t.mode
      /\ Elapse(t).left = IF t.left > 0 THEN t.left - 1 ELSE 0
    BY DEF Elapse, Tracker
<1>5. Escalate(t, n).failed = t.failed
    BY DEF Escalate, Tracker
<1>6. n >= LOCKOUT_PERMANENT_THRESHOLD => Escalate(t, n).mode = "PERMANENT"
    BY DEF Escalate, Tracker
<1>7. n \in LOCKOUT_TIMED_THRESHOLD .. LOCKOUT_PERMANENT_THRESHOLD - 1
        => Escalate(t, n).mode = "TIMED" /\ Escalate(t, n).left > 0
    BY DEF Escalate, Tracker
<1> QED BY <1>1, <1>2, <1>3, <1>4, <1>5, <1>6, <1>7

HalType == [at: HalLocations, n: 0 .. MaxFailures, mode: LockoutMode,
            timeout: 0 .. LOCKOUT_TIMED_DURATION]

\* The HAL's thread moves on with what it has read; one field or two change.
LEMMA HalExcept ==
    ASSUME NEW h \in HalType, NEW loc \in HalLocations
    PROVE  /\ [h EXCEPT !.at = loc] \in HalType
           /\ \A n \in 0 .. MaxFailures : [h EXCEPT !.at = loc, !.n = n] \in HalType
           /\ \A m \in LockoutMode : [h EXCEPT !.at = loc, !.mode = m] \in HalType
           /\ \A d \in 0 .. LOCKOUT_TIMED_DURATION :
                [h EXCEPT !.at = loc, !.timeout = d] \in HalType
<1> DEFINE g == [h EXCEPT !.at = loc]
<1>1. g \in HalType
    BY DEF HalType
<1> HIDE DEF g
<1>2. /\ \A n \in 0 .. MaxFailures : [g EXCEPT !.n = n] \in HalType
      /\ \A m \in LockoutMode : [g EXCEPT !.mode = m] \in HalType
      /\ \A d \in 0 .. LOCKOUT_TIMED_DURATION : [g EXCEPT !.timeout = d] \in HalType
    BY <1>1 DEF HalType
<1> QED BY <1>1, <1>2 DEF g

\* ... and these are the fields that do.
LEMMA HalFields ==
    ASSUME NEW h \in HalType, NEW loc, NEW x
    PROVE  /\ [h EXCEPT !.at = loc].at = loc
           /\ [h EXCEPT !.at = loc].n = h.n
           /\ [h EXCEPT !.at = loc, !.n = x].at = loc
           /\ [h EXCEPT !.at = loc, !.n = x].n = x
           /\ [h EXCEPT !.at = loc, !.mode = x].at = loc
           /\ [h EXCEPT !.at = loc, !.mode = x].n = h.n
           /\ [h EXCEPT !.at = loc, !.mode = x].mode = x
           /\ [h EXCEPT !.at = loc, !.timeout = x].at = loc
           /\ [h EXCEPT !.at = loc, !.timeout = x].n = h.n
    BY DEF HalType

\* The places where the HAL's thread may be inside a notification.
LEMMA HalPlaces ==
    \A loc \in {"matched", "failed", "forgive", "forgiven", "load", "count", "escalate", "mode",
                "report", "arm", "armed"} : loc \in HalLocations
    BY DEF HalLocations, Checked

\* ... and between two of them.
LEMMA HalIdleType == HalIdle \in HalType
    BY LockoutAssumption DEF HalIdle, HalType, HalLocations, LockoutMode

\* Every step keeps the types.
LEMMA TypeStep == TypeOK /\ [Next]_vars => TypeOK'
<1> SUFFICES ASSUME TypeOK, [Next]_vars
             PROVE  TypeOK'
    OBVIOUS
<1> USE LockoutAssumption, SessionAssumption
<1>0. hal \in HalType /\ tracker \in Tracker
    BY DEF TypeOK, HalType
<1>a. disturbed' \in BOOLEAN
    BY Zenon DEF TypeOK, Next, ResetSteps, HalSteps, lockoutTimerExpired, vars, createSession,
           close, resetLockout, resetLockoutMode, resetLockoutTell, resetLockoutAbort, notify,
           notifyMatched, addFailedAttempt, checkSensorLockout, reportLockout,
           startLockoutTimer, timerCheck, timerReset, timerTell, timerFlags, Tick, Disturb
<1>1. CASE createSession
  <2>1. tracker' \in Tracker
      BY <1>1 DEF createSession, NewTracker
  <2>2. hal' \in HalType
      BY <1>0, <1>1, HalIdleType DEF createSession
  <2>3. sessions' \in 0 .. MaxSessions
      BY <1>1 DEF TypeOK, createSession
  <2>4. timer' \in [TimerThreads -> [at: TimerLocations, left: 0 .. LOCKOUT_TIMED_DURATION]]
      BY <1>1 DEF createSession, FreeTimer, TimerLocations
  <2>5. mClosed' \in BOOLEAN /\ mIsLockoutTimerStarted' \in BOOLEAN
        /\ mIsLockoutTimerAborted' \in BOOLEAN
      BY <1>1, Zenon DEF createSession
  <2> QED BY <1>1, <1>a, <2>1, <2>2, <2>3, <2>4, <2>5 DEF TypeOK, HalType, createSession
<1>2. CASE close
    BY <1>2, <1>a DEF TypeOK, close, flags
<1>3. CASE resetLockout
    BY <1>0, <1>3, <1>a, TrackerClosed DEF TypeOK, resetLockout, session, flags, BinderLocations
<1>4. CASE ResetSteps
    BY <1>0, <1>4, <1>a, TrackerClosed DEF TypeOK, ResetSteps, resetLockoutMode,
       resetLockoutTell, resetLockoutAbort, session, flags, BinderLocations
<1>5. CASE notify
  <2>1. hal' \in HalType
      BY <1>5, HalIdleType, HalExcept DEF notify, Checked, HalLocations
  <2> QED BY <1>5, <1>a, <2>1 DEF TypeOK, HalType, notify, session, flags
<1>6. CASE notifyMatched
  <2>1. hal' \in HalType
      BY <1>0, <1>6, HalIdleType, HalExcept DEF notifyMatched, HalAt, HalLocations
  <2>2. tracker' \in Tracker
      BY <1>0, <1>6, TrackerClosed DEF notifyMatched
  <2> QED BY <1>6, <1>a, <2>1, <2>2 DEF TypeOK, HalType, notifyMatched, session, flags
<1>7. CASE addFailedAttempt
  <2>1. hal' \in HalType
    <3>1. tracker.failed < MaxFailures => tracker.failed + 1 \in 0 .. MaxFailures
        BY <1>0 DEF Tracker
    <3>2. CASE hal.at = "load"
      <4>1. "count" \in HalLocations
          BY HalPlaces
      <4>2. hal' = [hal EXCEPT !.at = "count", !.n = tracker.failed + 1]
            /\ tracker.failed < MaxFailures
          BY <1>7, <3>2 DEF addFailedAttempt
      <4> QED BY <1>0, <3>1, <4>1, <4>2, HalExcept
    <3>3. CASE hal.at # "load"
        BY <1>0, <1>7, <3>3, HalPlaces, HalExcept DEF addFailedAttempt, HalAt
    <3> QED BY <3>2, <3>3
  <2>2. tracker' \in Tracker
    <3>1. hal.n \in 0 .. MaxFailures
        BY <1>0 DEF HalType
    <3> QED BY <1>0, <1>7, <3>1, TrackerClosed DEF addFailedAttempt
  <2> QED BY <1>7, <1>a, <2>1, <2>2 DEF TypeOK, HalType, addFailedAttempt, session, flags
<1>8. CASE checkSensorLockout
  <2>1. tracker' \in Tracker
      BY <1>0, <1>8, TrackerClosed DEF checkSensorLockout
  <2>2. tracker'.mode \in LockoutMode
      BY <2>1 DEF Tracker
  <2>3. hal' \in HalType
      BY <1>0, <1>8, <2>2, HalIdleType, HalExcept DEF checkSensorLockout, HalLocations
  <2> QED BY <1>8, <1>a, <2>1, <2>3 DEF TypeOK, HalType, checkSensorLockout, session, flags
<1>9. CASE reportLockout
  <2>1. hal' \in HalType
    <3>1. "arm" \in HalLocations
        BY HalPlaces
    <3>2. getLockoutTimeLeft(tracker) \in 0 .. LOCKOUT_TIMED_DURATION
        BY <1>0, TrackerClosed
    <3>3. [hal EXCEPT !.at = "arm", !.timeout = getLockoutTimeLeft(tracker)] \in HalType
        BY <1>0, <3>1, <3>2, HalExcept
    <3> QED BY <1>9, <3>3, HalIdleType DEF reportLockout
  <2> QED BY <1>9, <1>a, <2>1 DEF TypeOK, HalType, reportLockout, session
<1>10. CASE startLockoutTimer
  <2>1. hal' \in HalType
    <3>1. [hal EXCEPT !.at = "armed"] \in HalType
        BY <1>0, HalPlaces, HalExcept
    <3>2. hal' = [hal EXCEPT !.at = "armed"] \/ hal' = HalIdle
        BY <1>10 DEF startLockoutTimer, HalAt
    <3> QED BY <3>1, <3>2, HalIdleType
  <2>2. timer' \in [TimerThreads -> [at: TimerLocations, left: 0 .. LOCKOUT_TIMED_DURATION]]
    <3>1. hal.timeout \in 0 .. LOCKOUT_TIMED_DURATION
        BY <1>0 DEF HalType
    <3> QED BY <1>10, <3>1 DEF TypeOK, startLockoutTimer, TimerLocations
  <2> QED BY <1>10, <1>a, <2>1, <2>2 DEF TypeOK, HalType, startLockoutTimer, session
<1>11. ASSUME NEW t \in TimerThreads, lockoutTimerExpired(t)
       PROVE  TypeOK'
  <2>1. timer' \in [TimerThreads -> [at: TimerLocations, left: 0 .. LOCKOUT_TIMED_DURATION]]
      BY <1>11 DEF TypeOK, lockoutTimerExpired, timerCheck, timerReset, timerTell, timerFlags,
                   TimerAt, FreeTimer, TimerLocations
  <2>2. tracker' \in Tracker
      BY <1>0, <1>11, TrackerClosed DEF lockoutTimerExpired, timerCheck, timerReset, timerTell,
                                        timerFlags
  <2> QED BY <1>11, <1>a, <2>1, <2>2 DEF TypeOK, lockoutTimerExpired, timerCheck, timerReset,
                                         timerTell, timerFlags, session, flags
<1>12. CASE Tick
  <2>1. timer' \in [TimerThreads -> [at: TimerLocations, left: 0 .. LOCKOUT_TIMED_DURATION]]
      BY <1>12 DEF TypeOK, Tick
  <2> QED BY <1>0, <1>12, <1>a, <2>1, TrackerClosed DEF TypeOK, Tick, session, flags
<1>13. CASE UNCHANGED vars
    BY <1>13 DEF TypeOK, vars, session, flags
<1> QED BY <1>1, <1>2, <1>3, <1>4, <1>5, <1>6, <1>7, <1>8, <1>9, <1>10, <1>11, <1>12, <1>13
        DEF Next, HalSteps

-----------------------------------------------------------------------------
\* A timer is started only when none is pending.
LEMMA TimerStep ==
    TypeOK /\ SingleTimer /\ TimerInv /\ [Next]_vars => SingleTimer' /\ TimerInv'
<1> SUFFICES ASSUME TypeOK, SingleTimer, TimerInv, [Next]_vars
             PROVE  SingleTimer' /\ TimerInv'
    OBVIOUS
<1> USE DEF SingleTimer, PendingTimers, TimerInv
<1>1. CASE createSession
    BY <1>1 DEF createSession, FreeTimer
<1>2. CASE close \/ resetLockout \/ ResetSteps
    BY <1>2 DEF close, resetLockout, ResetSteps, resetLockoutMode, resetLockoutTell,
                resetLockoutAbort, flags
<1>3. CASE notify \/ notifyMatched \/ addFailedAttempt \/ checkSensorLockout \/ reportLockout
  <2>1. hal.at # "armed" /\ UNCHANGED <<timer, mIsLockoutTimerStarted>>
      BY <1>3 DEF notify, notifyMatched, addFailedAttempt, checkSensorLockout, reportLockout,
                  flags
  <2> QED BY <2>1
<1>4. CASE startLockoutTimer
  <2>1. CASE hal.at = "arm" /\ mIsLockoutTimerStarted
      BY <1>4, <2>1 DEF startLockoutTimer
  <2>2. CASE hal.at = "arm" /\ ~mIsLockoutTimerStarted
    <3>1. PICK u \in TimerThreads :
            timer' = [timer EXCEPT ![u] = [at |-> "sleep", left |-> hal.timeout]]
        BY <1>4, <2>2 DEF startLockoutTimer
    <3>2. hal'.at = "armed"
        BY <1>4, <2>2 DEF startLockoutTimer, HalAt, TypeOK
    <3>3. \A t \in TimerThreads \ {u} :
            timer'[t].at \notin {"sleep", "reset", "tell", "started"}
        BY <2>2, <3>1 DEF TypeOK
    <3> QED BY <3>2, <3>3
  <2>3. CASE hal.at = "armed"
      BY <1>4, <2>3 DEF startLockoutTimer
  <2> QED BY <1>4, <2>1, <2>2, <2>3 DEF startLockoutTimer
<1>5. ASSUME NEW t \in TimerThreads, timerCheck(t) \/ timerReset(t) \/ timerTell(t)
      PROVE  SingleTimer' /\ TimerInv'
  <2>1. /\ timer[t].at \in {"sleep", "reset", "tell"}
        /\ timer'[t].at \in {"reset", "tell", "started"}
        /\ \A u \in TimerThreads \ {t} : timer'[u] = timer[u]
        /\ UNCHANGED <<hal, mIsLockoutTimerStarted>>
      BY <1>5 DEF timerCheck, timerReset, timerTell, TimerAt, TypeOK, flags
  <2> QED BY <2>1
<1>6. ASSUME NEW t \in TimerThreads, timerFlags(t)
      PROVE  SingleTimer' /\ TimerInv'
  <2>1. /\ timer[t].at \in {"started", "aborted"}
        /\ timer'[t].at \in {"aborted", "free"}
        /\ \A u \in TimerThreads \ {t} : timer'[u] = timer[u]
        /\ timer[t].at = "aborted" => UNCHANGED mIsLockoutTimerStarted
        /\ UNCHANGED hal
      BY <1>6 DEF timerFlags, TimerAt, TypeOK, FreeTimer
  <2> QED BY <2>1
<1>7. CASE Tick
  <2>1. /\ \A u \in TimerThreads : timer'[u].at = timer[u].at
        /\ UNCHANGED <<hal, mIsLockoutTimerStarted>>
      BY <1>7 DEF Tick, TypeOK, flags
  <2> QED BY <2>1
<1>8. CASE UNCHANGED vars
    BY <1>8 DEF vars, flags
<1> QED BY <1>1, <1>2, <1>3, <1>4, <1>5, <1>6, <1>7, <1>8
        DEF Next, HalSteps, lockoutTimerExpired

\* The session's types and its single timer: at most one timer is still to
\* clear the lockout, although the flag that says so is set after the thread
\* was started and without a lock (Session.cpp 336, 348-358, 364).
THEOREM LockoutSafe == Spec => []LockoutInv
<1>1. Init => TypeOK
  <2> SUFFICES ASSUME Init PROVE TypeOK
      OBVIOUS
  <2> USE LockoutAssumption, SessionAssumption
  <2>1. hal \in [at: HalLocations, n: 0 .. MaxFailures, mode: LockoutMode,
                 timeout: 0 .. LOCKOUT_TIMED_DURATION]
      BY HalIdleType DEF Init, HalType
  <2>2. tracker \in Tracker
      BY DEF Init, Tracker, LockoutMode
  <2>3. timer \in [TimerThreads -> [at: TimerLocations, left: 0 .. LOCKOUT_TIMED_DURATION]]
      BY DEF Init, FreeTimer, TimerLocations
  <2>4. /\ mClosed \in BOOLEAN /\ mIsLockoutTimerStarted \in BOOLEAN
        /\ mIsLockoutTimerAborted \in BOOLEAN /\ disturbed \in BOOLEAN
      BY Zenon DEF Init
  <2> QED BY <2>1, <2>2, <2>3, <2>4 DEF Init, TypeOK, BinderLocations
<1>2. Init => SingleTimer /\ TimerInv
    BY DEF Init, SingleTimer, PendingTimers, TimerInv, FreeTimer
<1> QED BY <1>1, <1>2, TypeStep, TimerStep, PTL DEF Spec, LockoutInv

-----------------------------------------------------------------------------
\* Nobody but the HAL's thread raises the count.
LEMMA CountStep == TypeOK /\ CountInv /\ [Next]_vars => CountInv'
<1> SUFFICES ASSUME TypeOK, CountInv, [Next]_vars, hal'.at = "count"
             PROVE  tracker'.failed < hal'.n
    BY DEF CountInv
<1> USE LockoutAssumption
<1>0. /\ hal \in HalType /\ tracker \in Tracker
      /\ hal.n \in 0 .. MaxFailures /\ tracker.failed \in 0 .. MaxFailures
    BY DEF TypeOK, HalType, Tracker
<1>1. CASE addFailedAttempt
  <2>1. hal.at = "load" /\ hal'.n = tracker.failed + 1 /\ tracker' = tracker
      BY <1>0, <1>1 DEF addFailedAttempt, HalAt, HalType
  <2> QED BY <1>0, <2>1
<1>2. CASE createSession \/ notify \/ notifyMatched
    BY <1>0, <1>2 DEF createSession, notify, notifyMatched, HalAt, HalIdle, HalType, Checked
<1>2a. CASE checkSensorLockout
  <2>1. hal'.at \in {"idle", "report"}
      BY <1>0, <1>2a DEF checkSensorLockout, HalIdle, HalType
  <2> QED BY <2>1
<1>2b. CASE reportLockout
  <2>1. hal'.at \in {"idle", "arm"}
    <3> DEFINE armed == [hal EXCEPT !.at = "arm", !.timeout = getLockoutTimeLeft(tracker)]
    <3>1. hal' = HalIdle \/ hal' = armed
        BY <1>2b DEF reportLockout
    <3>2. armed.at = "arm"
        BY <1>0, HalFields
    <3> HIDE DEF armed
    <3> QED BY <3>1, <3>2 DEF HalIdle
  <2> QED BY <2>1
<1>2c. CASE startLockoutTimer
  <2>1. hal'.at \in {"idle", "armed"}
      BY <1>0, <1>2c DEF startLockoutTimer, HalAt, HalIdle, HalType
  <2> QED BY <2>1
<1>3. ASSUME UNCHANGED hal, tracker'.failed \in {0, tracker.failed}
      PROVE  tracker'.failed < hal'.n
    BY <1>0, <1>3 DEF CountInv
<1>4. CASE close \/ resetLockout \/ ResetSteps
    BY <1>0, <1>3, <1>4, TrackerFields DEF close, resetLockout, ResetSteps, resetLockoutMode,
                                           resetLockoutTell, resetLockoutAbort
<1>5. ASSUME NEW t \in TimerThreads, lockoutTimerExpired(t)
      PROVE  tracker'.failed < hal'.n
    BY <1>0, <1>3, <1>5, TrackerFields DEF lockoutTimerExpired, timerCheck, timerReset,
                                           timerTell, timerFlags
<1>6. CASE Tick
    BY <1>0, <1>3, <1>6, TrackerFields DEF Tick
<1>7. CASE UNCHANGED vars
    BY <1>3, <1>7 DEF vars
<1> QED BY <1>1, <1>2, <1>2a, <1>2b, <1>2c, <1>4, <1>5, <1>6, <1>7 DEF Next, HalSteps

\* Failed attempts are forgotten only by resetLockout, by a successful
\* authentication or with the session, never by the end of a timed lockout
\* (Session.cpp 343-346, 361-362, LockoutTracker.cpp 18-23).
THEOREM AttemptsSafe == Spec => AttemptsKept
<1> DEFINE Kept ==
      tracker.failed' < tracker.failed
        => \/ binder = "idle" /\ binder' = "reset"
           \/ hal.at = "forgive" /\ hal'.at = "forgiven"
           \/ sessions' # sessions
<1>1. TypeOK /\ CountInv /\ [Next]_vars => [Kept]_vars
  <2> SUFFICES ASSUME TypeOK, CountInv, [Next]_vars
               PROVE  [Kept]_vars
      OBVIOUS
  <2> USE LockoutAssumption
  <2>0. /\ hal \in HalType /\ tracker \in Tracker /\ sessions \in Nat
        /\ hal.n \in 0 .. MaxFailures /\ tracker.failed \in 0 .. MaxFailures
      BY SessionAssumption DEF TypeOK, HalType, Tracker
  <2>1. ASSUME tracker'.failed >= tracker.failed, tracker'.failed \in Nat
        PROVE  [Kept]_vars
      BY <2>0, <2>1
  <2>2. tracker'.failed \in Nat
      BY TypeStep DEF TypeOK, Tracker
  <2>3. CASE createSession
      BY <2>0, <2>3 DEF createSession
  <2>4. CASE resetLockout
      BY <2>4 DEF resetLockout, ClientCalls
  <2>5. CASE ResetSteps
      BY <2>0, <2>1, <2>2, <2>5, TrackerFields
         DEF ResetSteps, resetLockoutMode, resetLockoutTell, resetLockoutAbort
  <2>6. CASE close \/ startLockoutTimer \/ reportLockout \/ notify
      BY <2>0, <2>1, <2>2, <2>6 DEF close, startLockoutTimer, reportLockout, notify
  <2>7. CASE notifyMatched
      BY <2>0, <2>1, <2>2, <2>7, TrackerFields DEF notifyMatched, HalAt, HalType
  <2>8. CASE addFailedAttempt
    <3>1. \/ tracker' = tracker \/ tracker' = Escalate(tracker, hal.n)
          \/ hal.at = "count" /\ tracker' = [tracker EXCEPT !.failed = hal.n]
        BY <2>8 DEF addFailedAttempt
    <3>2. tracker'.failed >= tracker.failed
      <4>1. /\ Escalate(tracker, hal.n).failed = tracker.failed
            /\ [tracker EXCEPT !.failed = hal.n].failed = hal.n
          BY <2>0, TrackerFields
      <4>2. hal.at = "count" => tracker.failed < hal.n
          BY DEF CountInv
      <4>3. CASE tracker' = tracker
          BY <2>0, <4>3
      <4>4. CASE tracker' = Escalate(tracker, hal.n)
          BY <2>0, <4>1, <4>4
      <4>5. CASE hal.at = "count" /\ tracker' = [tracker EXCEPT !.failed = hal.n]
          BY <2>0, <4>1, <4>2, <4>5
      <4> QED BY <3>1, <4>3, <4>4, <4>5
    <3> QED BY <2>1, <2>2, <3>2
  <2>9. CASE checkSensorLockout
      BY <2>0, <2>1, <2>2, <2>9, TrackerFields DEF checkSensorLockout
  <2>10. ASSUME NEW t \in TimerThreads, lockoutTimerExpired(t)
        PROVE  [Kept]_vars
      BY <2>0, <2>1, <2>2, <2>10, TrackerFields
         DEF lockoutTimerExpired, timerCheck, timerReset, timerTell, timerFlags
  <2>11. CASE Tick
      BY <2>0, <2>1, <2>2, <2>11, TrackerFields DEF Tick
  <2>12. CASE UNCHANGED vars
      BY <2>12
  <2> QED BY <2>3, <2>4, <2>5, <2>6, <2>7, <2>8, <2>9, <2>10, <2>11, <2>12 DEF Next, HalSteps
<1>2. Init => CountInv
    BY DEF Init, CountInv, HalIdle
<1>3. Spec => []TypeOK
    BY LockoutSafe, PTL DEF LockoutInv
<1> QED BY <1>1, <1>2, <1>3, CountStep, PTL DEF Spec, AttemptsKept

-----------------------------------------------------------------------------
\* An attempt that nobody disturbs keeps what it has established.
LEMMA AttemptStep == TypeOK /\ AttemptInv /\ [Next]_vars => AttemptInv'
<1> SUFFICES ASSUME TypeOK, AttemptInv, [Next]_vars, ~disturbed'
             PROVE  AttemptInv'
    BY DEF AttemptInv
<1> USE LockoutAssumption
<1>0. /\ hal \in HalType /\ tracker \in Tracker
      /\ hal.n \in 0 .. MaxFailures /\ tracker.left \in Nat
    BY DEF TypeOK, HalType, Tracker
<1>1. ASSUME hal'.at \notin {"mode", "report", "arm", "armed"}
      PROVE  AttemptInv'
    BY <1>1 DEF AttemptInv
<1>2. CASE createSession \/ notify \/ notifyMatched
  <2>1. hal'.at \in {"idle", "matched", "failed", "forgive", "forgiven"}
      BY <1>0, <1>2 DEF createSession, notify, notifyMatched, HalAt, HalIdle, HalType, Checked
  <2> QED BY <1>1, <2>1
<1>3. CASE close
    BY <1>3 DEF close, AttemptInv
<1>4. CASE resetLockout \/ ResetSteps
  <2>1. hal'.at = "idle"
      BY <1>4 DEF resetLockout, ResetSteps, resetLockoutMode, resetLockoutTell,
                  resetLockoutAbort, Disturb
  <2> QED BY <1>1, <2>1
<1>5. CASE addFailedAttempt
  <2>1. CASE hal.at = "escalate"
    <3>1. hal'.at = "mode" /\ hal'.n = hal.n /\ tracker' = Escalate(tracker, hal.n)
        BY <1>0, <1>5, <2>1 DEF addFailedAttempt, HalAt, HalType
    <3> QED BY <1>0, <3>1, TrackerFields DEF AttemptInv, Permanent, Timed
  <2>2. CASE hal.at # "escalate"
    <3>1. hal'.at \in {"load", "count", "escalate"}
        BY <1>0, <1>5, <2>2 DEF addFailedAttempt, HalAt, HalType
    <3> QED BY <1>1, <3>1
  <2> QED BY <2>1, <2>2
<1>6. CASE checkSensorLockout
  <2>1. hal.at = "mode" /\ tracker' = AfterGetMode(tracker) /\ ~disturbed
      BY <1>6 DEF checkSensorLockout
  <2>2. CASE tracker'.mode = "NONE"
    <3>1. hal'.at = "idle"
        BY <1>6, <2>2 DEF checkSensorLockout, HalIdle
    <3> QED BY <1>1, <3>1
  <2>3. CASE tracker'.mode # "NONE"
    <3>1. hal'.at = "report" /\ hal'.n = hal.n /\ hal'.mode = tracker'.mode
        BY <1>0, <1>6, <2>3, HalFields DEF checkSensorLockout
    <3>2. /\ Permanent(hal.n) => tracker'.mode = "PERMANENT"
          /\ Timed(hal.n) => tracker'.mode = "TIMED"
        BY <1>0, <2>1, TrackerFields DEF AttemptInv
    <3> QED BY <3>1, <3>2 DEF AttemptInv
  <2> QED BY <2>2, <2>3
<1>7. CASE reportLockout
  <2>1. hal.at = "report" /\ ~disturbed
      BY <1>7 DEF reportLockout
  <2>2. CASE hal.mode = "TIMED"
    <3>1. heard' = "timed"
          /\ hal' = [hal EXCEPT !.at = "arm", !.timeout = getLockoutTimeLeft(tracker)]
        BY <1>7, <2>2 DEF reportLockout
    <3>2. hal'.at = "arm" /\ hal'.n = hal.n
        BY <1>0, <3>1, HalFields
    <3>3. ~Permanent(hal.n)
        BY <2>1, <2>2 DEF AttemptInv
    <3> QED BY <3>1, <3>2, <3>3 DEF AttemptInv
  <2>3. CASE hal.mode # "TIMED"
    <3>1. hal'.at = "idle"
        BY <1>7, <2>3 DEF reportLockout, HalIdle
    <3> QED BY <1>1, <3>1
  <2> QED BY <2>2, <2>3
<1>8. CASE startLockoutTimer
  <2>1. CASE hal'.at = "idle"
      BY <1>1, <2>1
  <2>2. CASE hal'.at # "idle"
    <3>1. hal.at = "arm" /\ hal'.at = "armed" /\ hal'.n = hal.n /\ heard' = heard /\ ~disturbed
        BY <1>0, <1>8, <2>2 DEF startLockoutTimer, HalAt, HalIdle, HalType
    <3> QED BY <3>1 DEF AttemptInv
  <2> QED BY <2>1, <2>2
<1>9. ASSUME NEW t \in TimerThreads, timerCheck(t) \/ timerFlags(t)
      PROVE  AttemptInv'
  <2>1. UNCHANGED <<hal, tracker, heard, disturbed>>
      BY <1>9 DEF timerCheck, timerFlags
  <2> QED BY <2>1 DEF AttemptInv
<1>10. ASSUME NEW t \in TimerThreads, timerReset(t) \/ timerTell(t)
       PROVE  AttemptInv'
  <2>1. hal'.at = "idle"
      BY <1>10 DEF timerReset, timerTell, Disturb
  <2> QED BY <1>1, <2>1
<1>11. CASE Tick
  <2>1. UNCHANGED <<hal, heard>> /\ tracker' = Elapse(tracker) /\ ~disturbed
        /\ (hal.at # "idle" => tracker.left # 1)
      BY <1>11 DEF Tick
  <2>2. CASE hal.at = "mode"
    <3>1. tracker'.mode = tracker.mode /\ (tracker.left > 0 => tracker'.left > 0)
        BY <1>0, <2>1, <2>2, TrackerFields
    <3> QED BY <2>1, <2>2, <3>1 DEF AttemptInv
  <2>3. CASE hal.at # "mode"
      BY <2>1, <2>3 DEF AttemptInv
  <2> QED BY <2>2, <2>3
<1>12. CASE UNCHANGED vars
    BY <1>12 DEF vars, AttemptInv
<1> QED BY <1>2, <1>3, <1>4, <1>5, <1>6, <1>7, <1>8, <1>9, <1>10, <1>11, <1>12
        DEF Next, HalSteps, lockoutTimerExpired

\* A failed attempt whose handling no other thread disturbs is answered by the
\* lockout that its number calls for, whatever races and uninitialised modes
\* came before it (LockoutTracker.cpp 25-34, Session.cpp 319-341).
THEOREM ThresholdsSafe == Spec => ThresholdsReported
<1> DEFINE Reported ==
      AttemptEnds /\ ~disturbed
        => /\ hal.n >= LOCKOUT_PERMANENT_THRESHOLD => heard' = "permanent"
           /\ hal.n \in LOCKOUT_TIMED_THRESHOLD .. LOCKOUT_PERMANENT_THRESHOLD - 1
                => heard' = "timed"
<1>1. TypeOK /\ AttemptInv /\ [Next]_vars => [Reported]_vars
  <2> SUFFICES ASSUME TypeOK, AttemptInv, Next, AttemptEnds, ~disturbed
               PROVE  /\ Permanent(hal.n) => heard' = "permanent"
                      /\ Timed(hal.n) => heard' = "timed"
      BY DEF Permanent, Timed
  <2> USE LockoutAssumption
  <2>0. /\ hal \in HalType /\ tracker \in Tracker
        /\ hal.n \in 0 .. MaxFailures /\ sessions \in Nat
      BY SessionAssumption DEF TypeOK, HalType
  <2>1. CASE checkSensorLockout
    <3>1. hal.at = "mode" /\ AfterGetMode(tracker).mode = "NONE"
      <4>1. hal.at = "mode" /\ tracker' = AfterGetMode(tracker)
          BY <2>1 DEF checkSensorLockout
      <4>2. tracker'.mode # "NONE" => hal'.at = "report"
          BY <2>0, <2>1, HalFields DEF checkSensorLockout
      <4> QED BY <4>1, <4>2 DEF AttemptEnds
    <3> QED BY <2>0, <3>1, TrackerFields DEF AttemptInv
  <2>2. CASE reportLockout
    <3>1. hal.at = "report"
        BY <2>2 DEF reportLockout
    <3>2. hal.mode # "TIMED"
      <4>1. hal.mode = "TIMED"
              => hal' = [hal EXCEPT !.at = "arm", !.timeout = getLockoutTimeLeft(tracker)]
          BY <2>2 DEF reportLockout
      <4>2. [hal EXCEPT !.at = "arm", !.timeout = getLockoutTimeLeft(tracker)].at = "arm"
          BY <2>0, HalFields
      <4> QED BY <4>1, <4>2 DEF AttemptEnds
    <3> QED BY <2>2, <3>1, <3>2 DEF reportLockout, AttemptInv
  <2>3. CASE startLockoutTimer
      BY <2>3 DEF startLockoutTimer, AttemptInv
  <2>4. CASE createSession
      BY <2>0, <2>4 DEF createSession, AttemptEnds
  <2>5. CASE notify \/ notifyMatched \/ addFailedAttempt
    <3>1. hal.at \in {"mode", "report", "arm", "armed"} /\ hal'.at = "idle"
        BY DEF AttemptEnds
    <3> QED BY <2>5, <3>1 DEF notify, notifyMatched, addFailedAttempt
  <2>6. CASE hal' = hal
      BY <2>6 DEF AttemptEnds
  <2>7. ASSUME NEW t \in TimerThreads, lockoutTimerExpired(t)
        PROVE  hal' = hal
      BY <2>7 DEF lockoutTimerExpired, timerCheck, timerReset, timerTell, timerFlags
  <2>8. CASE close \/ resetLockout \/ ResetSteps \/ Tick
      BY <2>6, <2>8 DEF close, resetLockout, ResetSteps, resetLockoutMode, resetLockoutTell,
                        resetLockoutAbort, Tick
  <2> QED BY <2>1, <2>2, <2>3, <2>4, <2>5, <2>6, <2>7, <2>8 DEF Next, HalSteps
<1>2. Init => AttemptInv
    BY DEF Init, AttemptInv, HalIdle
<1>3. Spec => []TypeOK
    BY LockoutSafe, PTL DEF LockoutInv
<1> QED BY <1>1, <1>2, <1>3, AttemptStep, PTL DEF Spec, ThresholdsReported

=============================================================================
