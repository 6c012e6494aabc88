--------------------------- MODULE OneShotSensor ---------------------------
(***************************************************************************)
(* A one-shot wake-up sensor of sensors/Sensor.cpp (UdfpsSensor and        *)
(* SingleTapSensor, which differ only in the file they poll): a thread     *)
(* that polls a sysfs file and a pipe with mRunMutex released, and the     *)
(* callers of activate, setOperationMode and the destructor, who all come  *)
(* from one binder thread.  A step is what a thread does while it holds    *)
(* mRunMutex, or one system call without it.                               *)
(***************************************************************************)
EXTENDS Naturals

CONSTANTS
    MaxActivations, \* bound on the calls activate(true)
    MaxPipe         \* bound on the bytes in the pipe (the kernel's is 64 KiB)

ASSUME SensorAssumption == MaxActivations \in Nat /\ MaxPipe \in Nat \ {0}

VARIABLES
    mIsEnabled, mMode, mStopThread,
    pipe,           \* bytes in mWaitPipeFd
    node,           \* the polled file: unread change, finger down (external)
    thread,         \* mRunThread: location and the revents of its last poll
    body,           \* the run() that the thread executes, see Init
    caller,         \* where the binder thread is inside a call
    activations,    \* history: how often the sensor was enabled
    posts           \* history: how often it posted an event, counted up to
                    \* one more than MaxActivations

flags == <<mIsEnabled, mMode, mStopThread>>
history == <<activations, posts>>
sensorVars == <<flags, pipe, node, thread, body, caller, history>>

Modes == {"NORMAL", "DATA_INJECTION"}

\* "held" and "post": mRunMutex is held, at the top of the loop and inside
\* postEvents; "wait": blocked on mWaitCV; "woken": notified; "poll": in
\* poll(); "polled": back from it, before the mutex.
Locations == {"held", "post", "wait", "woken", "poll", "polled", "done"}

TypeOK ==
    /\ mIsEnabled \in BOOLEAN /\ mMode \in Modes /\ mStopThread \in BOOLEAN
    /\ pipe \in 0 .. MaxPipe
    /\ node \in [event: BOOLEAN, down: BOOLEAN]
    /\ thread \in [at: Locations, revents: SUBSET {"pipe", "node", "error"}]
    /\ body \in {"derived", "base"}
    /\ caller \in {"idle", "interrupt", "dtor", "join", "gone"}
    /\ activations \in 0 .. MaxActivations
    /\ posts \in 0 .. MaxActivations + 1

\* The constructors.  mStopThread is not initialised, and set if a file
\* cannot be opened.  The base constructor starts the thread, which executes
\* the base class's run() if it gets that far before the derived constructor
\* has begun.  A sysfs file not read yet polls as changed.
Init ==
    /\ mIsEnabled = FALSE /\ mMode = "NORMAL" /\ mStopThread \in BOOLEAN
    /\ pipe = 0 /\ node = [event |-> TRUE, down |-> FALSE]
    /\ thread = [at |-> "held", revents |-> {}]
    /\ body \in {"derived", "base"}
    /\ caller = "idle"
    /\ activations = 0 /\ posts = 0

-----------------------------------------------------------------------------
(* The sensor's thread: run() *)

ThreadAt(loc) == thread' = [at |-> loc, revents |-> {}]

Active == mIsEnabled /\ mMode = "NORMAL"

\* The top of the loop: stop, wait, poll with the mutex released, or (base
\* class) post at once, the sampling period being zero.
Loop ==
    /\ thread.at = "held"
    /\ \/ mStopThread /\ ThreadAt("done")
       \/ ~mStopThread /\ ~Active /\ ThreadAt("wait")
       \/ ~mStopThread /\ Active /\ ThreadAt(IF body = "derived" THEN "poll" ELSE "post")
    /\ UNCHANGED <<flags, pipe, node, body, caller, history>>

Wakes ==
    /\ thread.at = "woken"
    /\ ThreadAt("held")
    /\ UNCHANGED <<flags, pipe, node, body, caller, history>>

PollReturns ==
    /\ thread.at = "poll" /\ (pipe > 0 \/ node.event)
    /\ thread' = [at |-> "polled",
                  revents |-> (IF pipe > 0 THEN {"pipe"} ELSE {})
                                \cup (IF node.event THEN {"node"} ELSE {})]
    /\ UNCHANGED <<flags, pipe, node, body, caller, history>>

PollFails ==
    /\ thread.at = "poll"
    /\ thread' = [at |-> "polled", revents |-> {"error"}]
    /\ UNCHANGED <<flags, pipe, node, body, caller, history>>

\* With the mutex: a failed poll ends the thread.
Failed ==
    /\ thread.at = "polled" /\ "error" \in thread.revents
    /\ mStopThread' = TRUE
    /\ ThreadAt("held")
    /\ UNCHANGED <<mIsEnabled, mMode, pipe, node, body, caller, history>>

\* Mutant: the sensor stays enabled after its event.
Detected_again ==
    /\ thread.at = "polled" /\ "node" \in thread.revents /\ node.down
    /\ node' = [node EXCEPT !.event = FALSE]
    /\ ThreadAt("post")
    /\ UNCHANGED <<flags, pipe, body, caller, history>>

\* ... the file says that a finger is down: readFpState or readBool.
Detected ==
    /\ thread.at = "polled" /\ "node" \in thread.revents /\ node.down
    /\ node' = [node EXCEPT !.event = FALSE]
    /\ mIsEnabled' = FALSE
    /\ ThreadAt("post")
    /\ UNCHANGED <<mMode, mStopThread, pipe, body, caller, history>>

\* ... or it does not, or cannot be read; a byte is taken from the pipe.
NotDetected ==
    /\ thread.at = "polled" /\ "error" \notin thread.revents
    /\ node' = [node EXCEPT !.event = @ /\ "node" \notin thread.revents]
    /\ pipe' = IF "pipe" \in thread.revents THEN pipe - 1 ELSE pipe
    /\ ThreadAt("held")
    /\ UNCHANGED <<flags, body, caller, history>>

\* mCallback->postEvents; the base class then waits for no time at all.
Post ==
    /\ thread.at = "post"
    /\ posts' = IF posts <= MaxActivations THEN posts + 1 ELSE posts
    /\ ThreadAt(IF body = "derived" THEN "held" ELSE "woken")
    /\ UNCHANGED <<flags, pipe, node, body, caller, activations>>

Thread ==
    \/ Loop \/ Wakes \/ PollReturns \/ Failed \/ Detected \/ NotDetected \/ Post

-----------------------------------------------------------------------------
(* The binder thread *)

MutexFree == thread.at \notin {"held", "post"}

\* Mutant: nobody is notified.
NotifyAll_lost == UNCHANGED thread

\* mWaitCV.notify_all()
NotifyAll == thread' = [thread EXCEPT !.at = IF @ = "wait" THEN "woken" ELSE @]

\* Mutant: the thread is not taken out of poll().
activate_quiet(enable) ==
    /\ caller = "idle" /\ MutexFree
    /\ mIsEnabled # enable
    /\ mIsEnabled' = enable
    /\ activations' = IF enable THEN activations + 1 ELSE activations
    /\ activations' <= MaxActivations
    /\ NotifyAll
    /\ UNCHANGED <<mMode, mStopThread, pipe, node, body, caller, posts>>

activate(enable) ==
    /\ caller = "idle" /\ MutexFree
    /\ mIsEnabled # enable /\ pipe < MaxPipe
    /\ mIsEnabled' = enable
    /\ activations' = IF enable THEN activations + 1 ELSE activations
    /\ activations' <= MaxActivations
    /\ pipe' = pipe + 1
    /\ NotifyAll
    /\ UNCHANGED <<mMode, mStopThread, node, body, caller, posts>>

\* Sensor::setOperationMode ...
setOperationMode(mode) ==
    /\ caller = "idle" /\ MutexFree
    /\ mMode' = mode
    /\ IF mMode # mode THEN NotifyAll ELSE UNCHANGED thread
    /\ caller' = "interrupt"
    /\ UNCHANGED <<mIsEnabled, mStopThread, pipe, node, body, history>>

\* ... then, without the mutex, interruptPoll.
interruptPoll ==
    /\ caller = "interrupt" /\ pipe < MaxPipe
    /\ pipe' = pipe + 1
    /\ caller' = "idle"
    /\ UNCHANGED <<flags, node, thread, body, history>>

\* The destructor of the derived class ...
Destroy ==
    /\ caller = "idle" /\ pipe < MaxPipe
    /\ pipe' = pipe + 1
    /\ caller' = "dtor"
    /\ UNCHANGED <<flags, node, thread, body, history>>

\* ... then the one of the base class, which joins the thread.
\* Mutant: a waiting thread is not notified.
DestroyBase_quiet ==
    /\ caller = "dtor" /\ MutexFree
    /\ mStopThread' = TRUE /\ mIsEnabled' = FALSE
    /\ caller' = "join"
    /\ UNCHANGED <<mMode, pipe, node, thread, body, history>>

DestroyBase ==
    /\ caller = "dtor" /\ MutexFree
    /\ mStopThread' = TRUE /\ mIsEnabled' = FALSE
    /\ NotifyAll
    /\ caller' = "join"
    /\ UNCHANGED <<mMode, pipe, node, body, history>>

Join ==
    /\ caller = "join" /\ thread.at = "done"
    /\ caller' = "gone"
    /\ UNCHANGED <<flags, pipe, node, thread, body, history>>

CallerSteps == interruptPoll \/ DestroyBase \/ Join

-----------------------------------------------------------------------------
\* The touch controller changes the file (external).
Finger(down) ==
    /\ node' = [event |-> TRUE, down |-> down]
    /\ node' # node
    /\ UNCHANGED <<flags, pipe, thread, body, caller, history>>

Next ==
    \/ Thread \/ PollFails
    \/ \E e \in BOOLEAN : activate(e)
    \/ \E m \in Modes : setOperationMode(m)
    \/ CallerSteps \/ Destroy
    \/ \E d \in BOOLEAN : Finger(d)

\* The thread runs, and the binder thread finishes a call that it began.
Fairness == WF_sensorVars(Thread) /\ SF_sensorVars(CallerSteps)

Spec == Init /\ [][Next]_sensorVars

FairSpec == Spec /\ Fairness

-----------------------------------------------------------------------------
(* Properties *)

\* One event per activation, however activate, the poll and the detection
\* overlap: an event that was polled before activate(false) is still posted
\* after it, but never a second one (Sensor.cpp 290-299, 317-328, 403-441).
OneShot == body = "derived" => posts <= activations

\* A sensor that is switched off, or into data injection, leaves poll():
\* no order of the mutex, the pipe and the condition variable leaves it
\* there; its destruction is the subject of DestructorReturns (296, 303, 349-354).
PollInterrupted ==
    thread.at = "poll" /\ ~Active ~> thread.at # "poll" \/ Active \/ caller = "join"

\* A change of the file is looked at while the sensor is on: nothing that
\* the callers do leaves the thread asleep (309-332).
ChangeSeen ==
    body = "derived" /\ Active /\ node.event
      ~> ~node.event \/ ~Active \/ mStopThread

\* The destructor returns.  The one exception is a thread that enters poll()
\* with the pipe drained, between the two destructors (109-119, 286-288).
DestructorReturns ==
    caller = "join" ~> caller = "gone" \/ (thread.at = "poll" /\ pipe = 0)

=============================================================================
