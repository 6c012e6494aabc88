-------------------------- MODULE SessionLockout --------------------------
(***************************************************************************)
(* The lockout of a fingerprint session: Session.cpp with the tracker of   *)
(* LockoutTracker.  Three kinds of threads run over it without a lock:     *)
(*   - the only binder thread (service.cpp sets the pool to 0), which      *)
(*     creates sessions and runs resetLockout and close;                   *)
(*   - the vendor HAL's thread, inside Fingerprint::notify;                *)
(*   - a detached thread per lockout timer (startLockoutTimer).            *)
(* A step is what a thread does between two points where another one can   *)
(* change what it has read or hear what it says.  What the same calls do   *)
(* to the panel and the sensor is in SessionScreen.                        *)
(***************************************************************************)
EXTENDS LockoutTracker, FiniteSets

CONSTANTS
    TimerThreads,   \* names for the detached timer threads (a bound)
    MaxSessions     \* bound on the number of sessions created

ASSUME SessionAssumption == MaxSessions \in Nat /\ IsFiniteSet(TimerThreads)

VARIABLES
    sessions,       \* sessions created so far; the last is mSession
    mClosed,        \* also TRUE while there is no session
    tracker, mIsLockoutTimerStarted, mIsLockoutTimerAborted,
    binder,         \* where the binder thread is inside resetLockout
    hal,            \* the HAL's thread: location, attempt number, mode and timeout read
    timer,          \* the timer threads: location and time left to sleep
    heard,          \* the lockout as the framework last heard of it
    disturbed       \* another thread touched the lockout during this notify

session == <<sessions, mClosed>>
flags == <<mIsLockoutTimerStarted, mIsLockoutTimerAborted>>
vars == <<session, tracker, flags, binder, hal, timer, heard, disturbed>>

\* Inside resetLockout: before the mode, the callback, the abort flag.
BinderLocations == {"idle", "reset", "cleared", "abort"}

\* The message has passed the check of Fingerprint::notify and has not yet
\* been handed to mSession, which is read a second time for that.
Checked == {"matched", "failed"}

\* Then the branches of FINGERPRINT_AUTHENTICATED: each location is named
\* for what comes next.
HalLocations == Checked \cup
    {"idle", "forgive", "forgiven", "load", "count", "escalate", "mode",
     "report", "arm", "armed"}

\* "free" no thread; asleep; then before the reset, the callback, the store
\* to mIsLockoutTimerStarted and the store to mIsLockoutTimerAborted.
TimerLocations == {"free", "sleep", "reset", "tell", "started", "aborted"}

TypeOK ==
    /\ sessions \in 0 .. MaxSessions
    /\ tracker \in Tracker
    /\ mClosed \in BOOLEAN
    /\ mIsLockoutTimerStarted \in BOOLEAN /\ mIsLockoutTimerAborted \in BOOLEAN
    /\ binder \in BinderLocations
    /\ hal \in [at: HalLocations, n: 0 .. MaxFailures, mode: LockoutMode,
                timeout: 0 .. LOCKOUT_TIMED_DURATION]
    /\ timer \in [TimerThreads -> [at: TimerLocations, left: 0 .. LOCKOUT_TIMED_DURATION]]
    /\ heard \in {"none", "timed", "permanent", "cleared"}
    /\ disturbed \in BOOLEAN

FreeTimer == [at |-> "free", left |-> 0]
HalIdle == [at |-> "idle", n |-> 0, mode |-> "NONE", timeout |-> 0]

\* The service has started and opened the HAL; no session exists.
Init ==
    /\ sessions = 0
    /\ tracker = [failed |-> 0, mode |-> "NONE", started |-> FALSE, left |-> 0]
    /\ mClosed = TRUE
    /\ mIsLockoutTimerStarted = FALSE /\ mIsLockoutTimerAborted = FALSE
    /\ binder = "idle" /\ hal = HalIdle
    /\ timer = [t \in TimerThreads |-> FreeTimer]
    /\ heard = "none"
    /\ disturbed = FALSE

\* Another thread than the HAL's writes what a running notify depends on.
Disturb == disturbed' = (disturbed \/ hal.at # "idle")

-----------------------------------------------------------------------------
(* The binder thread *)

\* Fingerprint::createSession and the Session constructor.  The CHECK aborts
\* the service when the last session is open, so the framework never calls
\* then.  The lockout starts from a copy of Fingerprint::mLockoutTracker,
\* which nothing ever writes: no attempts, and an uninitialised mode.  A
\* timer of the replaced session goes on over that session's fields and says
\* nothing about the new one, and so does a notification that was already
\* inside the replaced session.
createSession ==
    /\ binder = "idle" /\ mClosed /\ sessions < MaxSessions
    /\ sessions' = sessions + 1
    /\ mClosed' = FALSE
    /\ tracker' \in NewTracker
    /\ mIsLockoutTimerStarted' = FALSE /\ mIsLockoutTimerAborted' = FALSE
    /\ timer' = [t \in TimerThreads |-> FreeTimer]
    /\ hal' = IF hal.at \in Checked THEN hal ELSE HalIdle
    /\ heard' = "none"
    /\ Disturb
    /\ UNCHANGED binder

\* A client calls a session it has not closed.
ClientCalls == binder = "idle" /\ ~mClosed

close ==
    /\ ClientCalls
    /\ mClosed' = TRUE
    /\ UNCHANGED <<sessions, tracker, flags, binder, hal, timer, heard, disturbed>>

\* resetLockout: clearLockout(true), i.e. the counter ...
resetLockout ==
    /\ ClientCalls
    /\ tracker' = ClearCount(tracker)
    /\ binder' = "reset"
    /\ Disturb
    /\ UNCHANGED <<session, flags, hal, timer, heard>>

\* ... the mode ...
resetLockoutMode ==
    /\ binder = "reset"
    /\ tracker' = ClearMode(tracker)
    /\ binder' = "cleared"
    /\ Disturb
    /\ UNCHANGED <<session, flags, hal, timer, heard>>

\* ... and onLockoutCleared; then the abort flag.
resetLockoutTell ==
    /\ binder = "cleared"
    /\ heard' = "cleared"
    /\ binder' = "abort"
    /\ Disturb
    /\ UNCHANGED <<session, tracker, flags, hal, timer>>

resetLockoutAbort ==
    /\ binder = "abort"
    /\ mIsLockoutTimerAborted' = TRUE
    /\ binder' = "idle"
    /\ Disturb
    /\ UNCHANGED <<session, tracker, mIsLockoutTimerStarted, hal, timer, heard>>

ResetSteps == resetLockoutMode \/ resetLockoutTell \/ resetLockoutAbort

-----------------------------------------------------------------------------
(* The HAL's thread *)

HalAt(loc) == hal' = [hal EXCEPT !.at = loc]

\* Fingerprint::notify with FINGERPRINT_AUTHENTICATED: dropped without an
\* open session.  The HAL may still be delivering when it is cancelled.
notify ==
    /\ hal.at = "idle" /\ ~mClosed
    /\ \E m \in Checked : hal' = [HalIdle EXCEPT !.at = m]
    /\ disturbed' = FALSE
    /\ UNCHANGED <<session, tracker, flags, binder, timer, heard>>

\* A match: onAuthenticationSucceeded, then mLockoutTracker.reset(true).
notifyMatched ==
    /\ \/ hal.at = "matched" /\ HalAt("forgive") /\ UNCHANGED tracker
       \/ hal.at = "forgive" /\ HalAt("forgiven") /\ tracker' = ClearCount(tracker)
       \/ hal.at = "forgiven" /\ hal' = HalIdle /\ tracker' = ClearMode(tracker)
    /\ UNCHANGED <<session, flags, binder, timer, heard, disturbed>>

\* A mismatch: onAuthenticationFailed, then addFailedAttempt: the increment
\* of mFailedCount is a load and a store, and the mode follows.
addFailedAttempt ==
    /\ \/ hal.at = "failed" /\ HalAt("load") /\ UNCHANGED tracker
       \/ /\ hal.at = "load" /\ tracker.failed < MaxFailures
          /\ hal' = [hal EXCEPT !.at = "count", !.n = tracker.failed + 1]
          /\ UNCHANGED tracker
       \/ /\ hal.at = "count" /\ HalAt("escalate")
          /\ tracker' = [tracker EXCEPT !.failed = hal.n]
       \/ /\ hal.at = "escalate" /\ HalAt("mode")
          /\ tracker' = Escalate(tracker, hal.n)
    /\ UNCHANGED <<session, flags, binder, timer, heard, disturbed>>

\* checkSensorLockout reads the mode once ...
checkSensorLockout ==
    /\ hal.at = "mode"
    /\ tracker' = AfterGetMode(tracker)
    /\ hal' = IF tracker'.mode = "NONE"
              THEN HalIdle
              ELSE [hal EXCEPT !.at = "report", !.mode = tracker'.mode]
    /\ UNCHANGED <<session, flags, binder, timer, heard, disturbed>>

\* ... and reports it: a permanent lockout aborts a running timer, a timed
\* one computes what is left of it and goes on to the timer.
reportLockout ==
    /\ hal.at = "report"
    /\ \/ /\ hal.mode = "PERMANENT"
          /\ heard' = "permanent"
          /\ mIsLockoutTimerAborted' = TRUE
          /\ hal' = HalIdle
       \/ /\ hal.mode = "TIMED"
          /\ heard' = "timed"
          /\ hal' = [hal EXCEPT !.at = "arm", !.timeout = getLockoutTimeLeft(tracker)]
          /\ UNCHANGED mIsLockoutTimerAborted
       \/ /\ hal.mode = "OTHER"          \* neither branch is taken
          /\ hal' = HalIdle
          /\ UNCHANGED <<heard, mIsLockoutTimerAborted>>
    /\ UNCHANGED <<session, tracker, mIsLockoutTimerStarted, binder, timer, disturbed>>

\* Mutant: every timed lockout starts a timer of its own.
startLockoutTimer_always ==
    /\ \/ /\ hal.at = "arm"
          /\ mIsLockoutTimerAborted' = FALSE
          /\ \E t \in TimerThreads :
               /\ timer[t].at = "free"
               /\ timer' = [timer EXCEPT ![t] = [at |-> "sleep", left |-> hal.timeout]]
          /\ HalAt("armed")
          /\ UNCHANGED mIsLockoutTimerStarted
       \/ /\ hal.at = "armed"
          /\ mIsLockoutTimerStarted' = TRUE
          /\ hal' = HalIdle
          /\ UNCHANGED <<mIsLockoutTimerAborted, timer>>
    /\ UNCHANGED <<session, tracker, binder, heard, disturbed>>

\* startLockoutTimer, unless a timer is thought to run: the thread exists
\* before mIsLockoutTimerStarted says so.
startLockoutTimer ==
    /\ \/ /\ hal.at = "arm" /\ mIsLockoutTimerStarted
          /\ hal' = HalIdle
          /\ UNCHANGED <<mIsLockoutTimerStarted, mIsLockoutTimerAborted, timer>>
       \/ /\ hal.at = "arm" /\ ~mIsLockoutTimerStarted
          /\ mIsLockoutTimerAborted' = FALSE
          /\ \E t \in TimerThreads :
               /\ timer[t].at = "free"
               /\ timer' = [timer EXCEPT ![t] = [at |-> "sleep", left |-> hal.timeout]]
          /\ HalAt("armed")
          /\ UNCHANGED mIsLockoutTimerStarted
       \/ /\ hal.at = "armed"
          /\ mIsLockoutTimerStarted' = TRUE
          /\ hal' = HalIdle
          /\ UNCHANGED <<mIsLockoutTimerAborted, timer>>
    /\ UNCHANGED <<session, tracker, binder, heard, disturbed>>

HalSteps ==
    \/ notifyMatched \/ addFailedAttempt
    \/ checkSensorLockout \/ reportLockout \/ startLockoutTimer

-----------------------------------------------------------------------------
(* A lockout timer's thread: the sleep of startLockoutTimer, then            *)
(* lockoutTimerExpired                                                       *)

TimerAt(t, loc) == timer' = [timer EXCEPT ![t].at = loc]

\* Mutant: the abort flag is read the wrong way round.
timerCheck_inverted(t) ==
    /\ timer[t].at = "sleep" /\ timer[t].left = 0
    /\ TimerAt(t, IF mIsLockoutTimerAborted THEN "reset" ELSE "started")
    /\ UNCHANGED <<session, tracker, flags, binder, hal, heard, disturbed>>

timerCheck(t) ==
    /\ timer[t].at = "sleep" /\ timer[t].left = 0
    /\ TimerAt(t, IF mIsLockoutTimerAborted THEN "started" ELSE "reset")
    /\ UNCHANGED <<session, tracker, flags, binder, hal, heard, disturbed>>

\* Mutant: the expiry of the timer also forgives the failed attempts.
timerReset_forgives(t) ==
    /\ timer[t].at = "reset"
    /\ tracker' = ClearMode(ClearCount(tracker))
    /\ TimerAt(t, "tell")
    /\ Disturb
    /\ UNCHANGED <<session, flags, binder, hal, heard>>

\* clearLockout(false): the tracker, then the framework.
timerReset(t) ==
    /\ timer[t].at = "reset"
    /\ tracker' = ClearMode(tracker)
    /\ TimerAt(t, "tell")
    /\ Disturb
    /\ UNCHANGED <<session, flags, binder, hal, heard>>

timerTell(t) ==
    /\ timer[t].at = "tell"
    /\ heard' = "cleared"
    /\ TimerAt(t, "started")
    /\ Disturb
    /\ UNCHANGED <<session, tracker, flags, binder, hal>>

timerFlags(t) ==
    /\ \/ /\ timer[t].at = "started"
          /\ mIsLockoutTimerStarted' = FALSE /\ UNCHANGED mIsLockoutTimerAborted
          /\ TimerAt(t, "aborted")
       \/ /\ timer[t].at = "aborted"
          /\ mIsLockoutTimerAborted' = FALSE /\ UNCHANGED mIsLockoutTimerStarted
          /\ timer' = [timer EXCEPT ![t] = FreeTimer]
    /\ UNCHANGED <<session, tracker, binder, hal, heard, disturbed>>

lockoutTimerExpired(t) == timerCheck(t) \/ timerReset(t) \/ timerTell(t) \/ timerFlags(t)

-----------------------------------------------------------------------------
\* Time passes for the tracker and for the sleeping threads.
Tick ==
    /\ tracker.left > 0 \/ \E t \in TimerThreads : timer[t].left > 0
    /\ tracker' = Elapse(tracker)
    /\ timer' = [t \in TimerThreads |-> [timer[t] EXCEPT !.left = IF @ > 0 THEN @ - 1 ELSE 0]]
    /\ disturbed' = (disturbed \/ (hal.at # "idle" /\ tracker.left = 1))
    /\ UNCHANGED <<session, flags, binder, hal, heard>>

Next ==
    \/ createSession \/ close \/ resetLockout \/ ResetSteps
    \/ notify \/ HalSteps
    \/ \E t \in TimerThreads : lockoutTimerExpired(t)
    \/ Tick

\* Threads that are not blocked run, and time passes.  No client is obliged
\* to call and no finger to touch.
Fairness ==
    /\ \A t \in TimerThreads : WF_vars(lockoutTimerExpired(t))
    /\ WF_vars(HalSteps)
    /\ WF_vars(ResetSteps)
    /\ WF_vars(Tick)

Spec == Init /\ [][Next]_vars

FairSpec == Spec /\ Fairness

-----------------------------------------------------------------------------
(* Properties *)

\* At most one timer of a session is still to clear the lockout, although
\* the flag that says so is set after the thread was started and without a
\* lock (336, 348-358, 364).
PendingTimers == {t \in TimerThreads : timer[t].at \in {"sleep", "reset", "tell", "started"}}
SingleTimer == \A t, u \in PendingTimers : t = u

\* ... and every variable keeps its type: the counters of attempts and the
\* remaining times of tracker and timers stay in their ranges.
LockoutInv == TypeOK /\ SingleTimer

\* Failed attempts are forgotten only by resetLockout, by a successful
\* authentication or with the session: never by the end of a timed lockout,
\* so a patient attempter still reaches the permanent one (Session.cpp
\* 343-346, 361-362, LockoutTracker.cpp 18-23).
AttemptsKept ==
    [][tracker.failed' < tracker.failed
         => \/ binder = "idle" /\ binder' = "reset"
            \/ hal.at = "forgive" /\ hal'.at = "forgiven"
            \/ sessions' # sessions]_vars

\* A failed attempt whose handling no other thread disturbs is answered by
\* the lockout that its number calls for, whatever happened before: races
\* with timers and resets, and the uninitialised mode of a new tracker, may
\* hide one report but cannot disarm the thresholds (LockoutTracker.cpp
\* 25-34, Session.cpp 319-341).
AttemptEnds ==
    /\ hal.at \in {"mode", "report", "arm", "armed"} /\ hal'.at = "idle"
    /\ sessions' = sessions
ThresholdsReported ==
    [][AttemptEnds /\ ~disturbed
         => /\ hal.n >= LOCKOUT_PERMANENT_THRESHOLD => heard' = "permanent"
            /\ hal.n \in LOCKOUT_TIMED_THRESHOLD .. LOCKOUT_PERMANENT_THRESHOLD - 1
                 => heard' = "timed"]_vars

\* A timed lockout with a timer ends: the framework hears that it is over,
\* however many attempts, sessions and resets the timer's thread overlaps
\* with, unless the timer is aborted first (348-366).
TimerClears ==
    \A t \in TimerThreads :
        timer[t].at = "sleep" /\ heard = "timed" /\ ~mIsLockoutTimerAborted
          ~> heard # "timed" \/ mIsLockoutTimerAborted

=============================================================================
