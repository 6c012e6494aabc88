-------------------------- MODULE LockoutTracker --------------------------
(***************************************************************************)
(* fingerprint/LockoutTracker.{h,cpp}: the count of failed attempts and    *)
(* the lockout it leads to, as operators on a tracker record.  Methods     *)
(* that several threads run unlocked are cut where the threads of          *)
(* FingerprintSession can interleave: between the load and the store of    *)
(* mFailedCount, and before mCurrentMode.                                  *)
(***************************************************************************)
EXTENDS Naturals

CONSTANTS
    LOCKOUT_TIMED_THRESHOLD,      \* 5 in the code
    LOCKOUT_PERMANENT_THRESHOLD,  \* 20 in the code
    LOCKOUT_TIMED_DURATION,       \* 30 s in the code, in ticks
    MaxFailures                   \* bound on mFailedCount

ASSUME LockoutAssumption ==
    /\ LOCKOUT_TIMED_THRESHOLD \in Nat \ {0}
    /\ LOCKOUT_PERMANENT_THRESHOLD \in Nat
    /\ LOCKOUT_TIMED_THRESHOLD < LOCKOUT_PERMANENT_THRESHOLD
    /\ LOCKOUT_TIMED_DURATION \in Nat \ {0}
    /\ MaxFailures \in Nat /\ LOCKOUT_PERMANENT_THRESHOLD <= MaxFailures

\* "OTHER" stands for the values that are none of the enumerators.
LockoutMode == {"NONE", "TIMED", "PERMANENT", "OTHER"}

\* mLockoutTimedStart is kept as "is it positive" and as the time left until
\* hasElapsed(mLockoutTimedStart, LOCKOUT_TIMED_DURATION).
Tracker == [failed: 0 .. MaxFailures, mode: LockoutMode,
            started: BOOLEAN, left: 0 .. LOCKOUT_TIMED_DURATION]

\* Only mFailedCount has an initialiser: the mode and the start time of a new
\* tracker are whatever the memory held.  The start time is read only in mode
\* TIMED, and a start that is not positive has long elapsed.
NewTracker ==
    {t \in Tracker : /\ t.failed = 0
                     /\ t.mode # "TIMED" => ~t.started
                     /\ ~t.started => t.left = 0}

\* reset: the counter, if asked for, then the lockout itself.
ClearCount(t) == [t EXCEPT !.failed = 0]
ClearMode(t) == [t EXCEPT !.mode = "NONE", !.started = FALSE, !.left = 0]

\* addFailedAttempt after the increment, whose result is n.
\* Mutant: the permanent threshold is compared off by one.
Escalate_late(t, n) ==
    IF n > LOCKOUT_PERMANENT_THRESHOLD
    THEN [t EXCEPT !.mode = "PERMANENT"]
    ELSE IF n >= LOCKOUT_TIMED_THRESHOLD
         THEN [t EXCEPT !.mode = "TIMED", !.started = TRUE, !.left = LOCKOUT_TIMED_DURATION]
         ELSE t

Escalate(t, n) ==
    CASE n >= LOCKOUT_PERMANENT_THRESHOLD -> [t EXCEPT !.mode = "PERMANENT"]
      [] n >= LOCKOUT_TIMED_THRESHOLD /\ n < LOCKOUT_PERMANENT_THRESHOLD ->
            [t EXCEPT !.mode = "TIMED", !.started = TRUE, !.left = LOCKOUT_TIMED_DURATION]
      [] OTHER -> t

\* getMode: a timed lockout that has run its time is dropped on the way.
AfterGetMode(t) == IF t.mode = "TIMED" /\ t.left = 0 THEN ClearMode(t) ELSE t

getLockoutTimeLeft(t) == IF t.started THEN t.left ELSE 0

Elapse(t) == [t EXCEPT !.left = IF t.left > 0 THEN t.left - 1 ELSE 0]

=============================================================================
