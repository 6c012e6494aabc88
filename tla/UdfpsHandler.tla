--------------------------- MODULE UdfpsHandler ---------------------------
(***************************************************************************)
(* fingerprint/UdfpsHandler.cpp.  The session (binder thread and HAL       *)
(* notify thread) reports touches with onUiReady and onFingerUp; a worker  *)
(* thread polls the panel's "fod_ui" file and tells the sensor about the   *)
(* finger once the panel is lit.  All shared fields are guarded by mMutex: *)
(* a step of this module is what one thread does while it holds the mutex, *)
(* and the worker gives the mutex up only in its two waits.                *)
(***************************************************************************)
EXTENDS Naturals

CONSTANTS
    MaxRequestId,   \* bound on the number of touch reports
    WaitTicks       \* the 500 ms the worker waits for the panel, in ticks

ASSUME UdfpsAssumption == MaxRequestId \in Nat /\ WaitTicks \in Nat \ {0}

VARIABLES
    mStopped, mFingerDown, mPending, mRequestId,    \* the fields of the class
    pc,         \* where the worker is: see Locations
    woken,      \* the worker's wait was notified
    requestId,  \* the worker's copy of mRequestId
    left,       \* ticks to the worker's deadline
    age,        \* ticks since the current touch was reported (saturating)
    told,       \* argument of the last mSetFingerDown call
    life        \* the object: "alive", "joining" (in ~UdfpsHandler), "gone"

fields == <<mStopped, mFingerDown, mPending, mRequestId>>
worker == <<pc, woken, requestId>>
clocks == <<left, age>>
vars == <<fields, worker, clocks, told, life>>

\* "start" not yet at the mutex; "outer" evaluating the predicate of the
\* outer wait; "wait" inside that wait; "poll" at the head of the inner loop;
\* "sleep" inside wait_for(10ms); "done" after run() returned.
Locations == {"start", "outer", "wait", "poll", "sleep", "done"}

\* The worker owns mMutex: no other thread can be inside a method.
WorkerOwnsMutex == pc \in {"outer", "poll"}

TypeOK ==
    /\ mStopped \in BOOLEAN /\ mFingerDown \in BOOLEAN /\ mPending \in BOOLEAN
    /\ mRequestId \in 0 .. MaxRequestId
    /\ pc \in Locations /\ woken \in BOOLEAN
    /\ requestId \in 0 .. MaxRequestId
    /\ left \in 0 .. WaitTicks /\ age \in 0 .. WaitTicks
    /\ told \in BOOLEAN
    /\ life \in {"alive", "joining", "gone"}

Init ==
    /\ mStopped = FALSE /\ mFingerDown = FALSE /\ mPending = FALSE
    /\ mRequestId = 0 /\ requestId = 0
    /\ pc = "start" /\ woken = FALSE
    /\ left = 0 /\ age = 0
    /\ told = FALSE
    /\ life = "alive"

-----------------------------------------------------------------------------
(* The session's threads *)

\* Mutant: nobody is notified.
NotifyAll_lost == UNCHANGED woken

\* mCondition.notify_all(): a notification reaches the worker only if it is
\* inside one of its two waits.
NotifyAll == woken' = (woken \/ pc \in {"wait", "sleep"})

CallerEnters == life = "alive" /\ ~WorkerOwnsMutex

\* A report while a finger is down returns at once.
onUiReady(waitForIllumination) ==
    /\ CallerEnters
    /\ ~mFingerDown
    /\ mRequestId < MaxRequestId
    /\ mFingerDown' = TRUE
    /\ mRequestId' = mRequestId + 1
    /\ age' = 0
    /\ IF waitForIllumination
       THEN mPending' = TRUE /\ NotifyAll /\ UNCHANGED told
       ELSE told' = TRUE /\ UNCHANGED <<mPending, woken>>
    /\ UNCHANGED <<mStopped, pc, requestId, left, life>>

\* Mutant: the request survives the finger.
onFingerUp_keepsPending ==
    /\ CallerEnters
    /\ mRequestId < MaxRequestId
    /\ mFingerDown' = FALSE
    /\ mRequestId' = mRequestId + 1
    /\ NotifyAll
    /\ told' = FALSE
    /\ UNCHANGED <<mStopped, mPending, pc, requestId, clocks, life>>

onFingerUp ==
    /\ CallerEnters
    /\ mRequestId < MaxRequestId
    /\ mFingerDown' = FALSE
    /\ mPending' = FALSE
    /\ mRequestId' = mRequestId + 1
    /\ NotifyAll
    /\ told' = FALSE
    /\ UNCHANGED <<mStopped, pc, requestId, clocks, life>>

\* ~UdfpsHandler, up to the join ...
Destroy ==
    /\ CallerEnters
    /\ mStopped' = TRUE
    /\ NotifyAll
    /\ life' = "joining"
    /\ UNCHANGED <<mFingerDown, mPending, mRequestId, pc, requestId, clocks, told>>

\* ... which returns once run() has.
Join ==
    /\ life = "joining" /\ pc = "done"
    /\ life' = "gone"
    /\ UNCHANGED <<fields, worker, clocks, told>>

-----------------------------------------------------------------------------
(* The worker thread: run() *)

\* Taking the mutex: at the start of run(), and when a wait ends.
Lock ==
    /\ \/ pc = "start" /\ pc' = IF mStopped THEN "done" ELSE "outer"
       \/ pc = "wait" /\ woken /\ pc' = "outer"
       \/ pc = "sleep" /\ pc' = "poll"      \* notified, or the 10 ms passed
    /\ woken' = FALSE
    /\ UNCHANGED <<fields, requestId, clocks, told, life>>

\* A wait may also end with no notification.
SpuriousWakeup ==
    /\ pc = "wait" /\ ~woken
    /\ pc' = "outer"
    /\ UNCHANGED <<fields, woken, requestId, clocks, told, life>>

\* The predicate of the outer wait: sleep on, leave, or take the request.
Outer ==
    /\ pc = "outer"
    /\ pc' = CASE mStopped -> "done"
               [] ~mStopped /\ mPending -> "poll"
               [] OTHER -> "wait"
    /\ IF ~mStopped /\ mPending
       THEN requestId' = mRequestId /\ left' = WaitTicks
       ELSE UNCHANGED <<requestId, left>>
    /\ UNCHANGED <<fields, woken, age, told, life>>

\* Mutant: the request number is not compared.
Current_anyRequest == ~mStopped /\ mPending

\* The guard of the inner loop.
Current == ~mStopped /\ mPending /\ requestId = mRequestId

\* The request is no longer the worker's: back to the outer loop.
Superseded ==
    /\ pc = "poll" /\ ~Current
    /\ pc' = IF mStopped THEN "done" ELSE "outer"
    /\ UNCHANGED <<fields, woken, requestId, clocks, told, life>>

\* The file could not be read.
ReadFails ==
    /\ pc = "poll" /\ Current
    /\ mPending' = FALSE
    /\ pc' = "outer"
    /\ UNCHANGED <<mStopped, mFingerDown, mRequestId, woken, requestId, clocks, told, life>>

\* Mutant: the request stays pending once answered.
Illuminated_staysPending ==
    /\ pc = "poll" /\ Current
    /\ told' = TRUE
    /\ pc' = "outer"
    /\ UNCHANGED <<fields, woken, requestId, clocks, life>>

\* The file says 1: the panel is lit.
Illuminated ==
    /\ pc = "poll" /\ Current
    /\ mPending' = FALSE
    /\ told' = TRUE
    /\ pc' = "outer"
    /\ UNCHANGED <<mStopped, mFingerDown, mRequestId, woken, requestId, clocks, life>>

\* The file says otherwise, and the deadline has passed.
TimedOut ==
    /\ pc = "poll" /\ Current /\ left = 0
    /\ mPending' = FALSE
    /\ pc' = "outer"
    /\ UNCHANGED <<mStopped, mFingerDown, mRequestId, woken, requestId, clocks, told, life>>

\* Mutant: polling goes on after the deadline.
PollAgain_forever ==
    /\ pc = "poll" /\ Current
    /\ pc' = "sleep"
    /\ UNCHANGED <<fields, woken, requestId, clocks, told, life>>

\* The file says otherwise: release the mutex for 10 ms.
PollAgain ==
    /\ pc = "poll" /\ Current /\ left > 0
    /\ pc' = "sleep"
    /\ UNCHANGED <<fields, woken, requestId, clocks, told, life>>

-----------------------------------------------------------------------------
\* Time passes, whoever holds the mutex.
Tick ==
    /\ left > 0 \/ age < WaitTicks
    /\ left' = IF left > 0 THEN left - 1 ELSE 0
    /\ age' = IF age < WaitTicks THEN age + 1 ELSE WaitTicks
    /\ UNCHANGED <<fields, worker, told, life>>

Worker ==
    \/ Lock \/ Outer \/ Superseded
    \/ ReadFails \/ Illuminated \/ TimedOut \/ PollAgain

\* The callers' threads end with the object; the final state may stutter.
Finished == life = "gone" /\ UNCHANGED vars

Next ==
    \/ \E w \in BOOLEAN : onUiReady(w)
    \/ onFingerUp
    \/ Destroy
    \/ Join
    \/ Worker
    \/ SpuriousWakeup
    \/ Tick
    \/ Finished

\* The scheduler runs the worker and the joining thread, and time passes.
\* Nothing obliges a caller to call, and nothing lights the panel.
Fairness == WF_vars(Worker) /\ WF_vars(Join) /\ WF_vars(Tick)

Spec == Init /\ [][Next]_vars

FairSpec == Spec /\ Fairness

-----------------------------------------------------------------------------
(* Properties *)

\* The sensor is never left believing in a finger that has been lifted: what
\* it was last told is "down" only while the touch it was told about is the
\* one in progress.  onFingerUp must win against a worker that was asleep
\* between two polls (lines 45-52 against 62-83).
ToldDownOnlyDuringTouch == told => mFingerDown

\* A touch that still waits for the panel has not been announced, so it is
\* announced at most once (lines 33, 67, 72, 79).
PendingNotAnnounced == mPending => mFingerDown /\ ~told

SafetyInv == ToldDownOnlyDuringTouch /\ PendingNotAnnounced

\* A touch is given up only when it itself has waited the full 500 ms, never
\* on the deadline of an earlier touch the worker was still polling for: what
\* the request number at lines 61-62 is there for.
FullWait == [][TimedOut => age = WaitTicks]_vars

\* Every touch that waits for the panel is resolved: announced, abandoned or
\* lifted (lines 57, 62-83).
RequestResolved == mPending /\ life = "alive" ~> ~mPending \/ life # "alive"

\* The destructor's join returns: the worker sees mStopped in every wait
\* (lines 22-29, 57, 62).
DestructorReturns == life = "joining" ~> life = "gone"

\* The touch as the session sees it.
touchBar ==
    CASE ~mFingerDown -> "up"
      [] mFingerDown /\ mPending -> "waiting"
      [] mFingerDown /\ ~mPending /\ told -> "down"
      [] OTHER -> "abandoned"

Touch == INSTANCE UdfpsTouch WITH touch <- touchBar, told <- told

\* The handler implements the promise of UdfpsTouch: every step of a thread
\* is a step of the abstract touch or changes nothing the session can see.
ImplementsTouch == Touch!TouchSafety

=============================================================================
