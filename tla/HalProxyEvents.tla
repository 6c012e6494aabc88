--------------------------- MODULE HalProxyEvents ---------------------------
(***************************************************************************)
(* sensors/HalProxy.cpp and HalProxyCallback.cpp while the proxy runs: how *)
(* the sub-HALs' events reach the framework and how long the shared        *)
(* wakelock is held for those that may wake the device.                    *)
(*   - sub-HAL threads post batches (postEvents), each under a             *)
(*     ScopedWakelock if the batch comes from a wake-up sensor;            *)
(*   - the pending-writes thread (handlePendingWrites) moves what did not  *)
(*     fit into the event queue, with the mutex released while it writes;  *)
(*   - the wakelock thread (handleWakelocks) takes the framework's         *)
(*     acknowledgements and enforces the timeout;                          *)
(*   - the framework reads events and acknowledges the wake-up ones.       *)
(* A step is what a thread does under mEventQueueWriteMutex or             *)
(* mWakelockMutex, or one call of a message queue.  Stopping and starting  *)
(* the threads is in HalProxyRestart.                                      *)
(***************************************************************************)
EXTENDS Naturals, Sequences, SequencesExt, FiniteSets

CONSTANTS
    SubHals,        \* sub-HAL threads
    Batches,        \* what they may post: sequences of Kinds
    QueueSize,      \* mEventQueue->getQuantumCount()
    MaxPending,     \* kMaxSizePendingWriteEventsQueue
    MaxEvents,      \* bound on the number of events posted
    MaxAcks         \* bound on the acknowledgements in mWakeLockQueue

\* "wake" and "plain" events of wake-up and other sensors; "still", an event
\* of the (wake-up) pick-up sensor whose scalar is not 1.
Kinds == {"wake", "plain", "still"}

ASSUME EventsAssumption ==
    /\ IsFiniteSet(SubHals)
    /\ Batches \subseteq Seq(Kinds)
    /\ QueueSize \in Nat \ {0} /\ MaxPending \in Nat
    /\ MaxEvents \in Nat /\ MaxAcks \in Nat

VARIABLES
    eventQueue,     \* mEventQueue: events written and not yet read
    pending,        \* mPendingWriteEventsQueue
    sizePending,    \* mSizePendingWriteEventsQueue
    refCount,       \* mWakelockRefCount
    held,           \* the kernel's wakelock
    expired,        \* now - mWakelockTimeoutStartTime > kWakelockTimeoutNs
    poster,         \* each sub-HAL thread: location, batch, wakelock it holds
    writer,         \* the pending-writes thread: location and locals
    waker,          \* the wakelock thread: location
    wakeLockQueue,  \* mWakeLockQueue: acknowledgements not yet read
    unacked,        \* wake-up events the framework has read, not acknowledged
    posted,         \* events posted so far; they are numbered in that order
    overReleased    \* the count was cut below what it stands for, and that is not
                    \* over yet: see Settled

queues == <<eventQueue, pending, sizePending>>
lock == <<refCount, held, expired>>
framework == <<wakeLockQueue, unacked>>
vars == <<queues, lock, poster, writer, waker, framework, posted, overReleased>>

Event == [id: 1 .. MaxEvents, wake: BOOLEAN]

\* The sum of a sequence of numbers.
Total(s) ==
    LET sum[i \in 0 .. Len(s)] == IF i = 0 THEN 0 ELSE sum[i - 1] + s[i]
    IN  sum[Len(s)]

\* Number of wake-up events in a sequence of events.
Wakes(s) == Total([i \in DOMAIN s |-> IF s[i].wake THEN 1 ELSE 0])

\* All events still in the pending queue, oldest first.
AllPending == FlattenSeq([i \in DOMAIN pending |-> pending[i].events])

Smaller(a, b) == IF a < b THEN a ELSE b

Idle == [at |-> "idle", batch |-> <<>>, locked |-> FALSE, valid |-> FALSE]
WriterIdle == [at |-> "wait", n |-> 0, wakeups |-> 0]

TypeOK ==
    /\ eventQueue \in Seq(Event) /\ Len(eventQueue) <= QueueSize
    /\ pending \in Seq([events: Seq(Event), wakeups: Nat])
    /\ sizePending \in 0 .. MaxPending
    /\ refCount \in Nat /\ held \in BOOLEAN /\ expired \in BOOLEAN
    /\ poster \in [SubHals -> [at: {"idle", "ready", "posted"}, batch: Batches \cup {<<>>},
                               locked: BOOLEAN, valid: BOOLEAN]]
    /\ writer \in [at: {"wait", "write", "written"}, n: 0 .. QueueSize, wakeups: Nat]
    /\ waker \in {"wait", "read"}
    /\ wakeLockQueue \in Seq(Nat) /\ unacked \in Nat
    /\ posted \in 0 .. MaxEvents
    /\ overReleased \in BOOLEAN

Init ==
    /\ eventQueue = <<>> /\ pending = <<>> /\ sizePending = 0
    /\ refCount = 0 /\ held = FALSE /\ expired = TRUE
    /\ poster = [s \in SubHals |-> Idle]
    /\ writer = WriterIdle /\ waker = "wait"
    /\ wakeLockQueue = <<>> /\ unacked = 0
    /\ posted = 0
    /\ overReleased = FALSE

-----------------------------------------------------------------------------
(* The reference count *)

\* Wake-up events that the framework has not acknowledged, wherever they are.
FromPending == IF writer.at = "written"
               THEN SubSeq(AllPending, writer.n + 1, Len(AllPending))
               ELSE AllPending
Outstanding == Wakes(eventQueue) + Wakes(FromPending) + unacked
                 + Total(wakeLockQueue)

\* The threads whose ScopedWakelock still has its count.
Counted == {s \in SubHals : poster[s].locked /\ poster[s].valid}

\* Nothing is left that the count should stand for.
Settled == Outstanding = 0 /\ Counted = {}

\* incrementRefCountAndMaybeAcquireWakelock
Increment(delta) ==
    /\ held' = (held \/ refCount = 0)
    /\ expired' = FALSE
    /\ refCount' = refCount + delta

\* Mutant: the wakelock is released one count too early.
Decrement_early(delta, valid) ==
    /\ IF refCount = 0 \/ ~valid
       THEN UNCHANGED <<refCount, held>>
       ELSE /\ refCount' = IF delta < refCount THEN refCount - delta ELSE 0
            /\ held' = (held /\ refCount' > 1)
    /\ UNCHANGED expired

\* decrementRefCountAndMaybeReleaseWakelock: valid is FALSE for a count taken
\* before the last reset (timeoutStart < mWakelockTimeoutResetTime).
Decrement(delta, valid) ==
    /\ IF refCount = 0 \/ ~valid
       THEN UNCHANGED <<refCount, held>>
       ELSE /\ refCount' = IF delta < refCount THEN refCount - delta ELSE 0
            /\ held' = (held /\ refCount' > 0)
    /\ UNCHANGED expired

-----------------------------------------------------------------------------
(* A sub-HAL's thread *)

\* createScopedWakelock: one count of its own for a batch of a wake-up
\* sensor (the class is external).
Begin(s) ==
    /\ poster[s].at = "idle"
    /\ \E b \in Batches :
         LET wakeup == \E i \in DOMAIN b : b[i] # "plain" IN
         /\ posted + Len(b) <= MaxEvents
         /\ poster' = [poster EXCEPT ![s] =
                         [at |-> "ready", batch |-> b, locked |-> wakeup, valid |-> wakeup]]
         /\ IF wakeup THEN Increment(1) ELSE UNCHANGED lock
    /\ UNCHANGED <<queues, writer, waker, framework, posted, overReleased>>

\* processEvents: "still" is dropped; the rest is numbered for the model.
processEvents(b) ==
    LET kept == FlattenSeq([i \in DOMAIN b |-> IF b[i] = "still" THEN <<>> ELSE <<b[i]>>]) IN
    [i \in DOMAIN kept |-> [id |-> posted + i, wake |-> kept[i] = "wake"]]

\* How many events are written at once: none while others are pending.
\* Mutant: events go straight to the queue although others are pending.
Direct_overtakes(events) == Smaller(Len(events), QueueSize - Len(eventQueue))

Direct(events) ==
    IF pending # <<>> THEN 0 ELSE Smaller(Len(events), QueueSize - Len(eventQueue))

\* Whether what is left is queued; if not, it is dropped.
Queued(left) == left # <<>> /\ sizePending + Len(left) <= MaxPending

\* postEvents and postEventsToMessageQueue: count, write what fits if nothing
\* is pending, queue the rest if there is room for all of it, else drop it.
postEvents(s) ==
    LET events == processEvents(poster[s].batch)
        n == Direct(events)
        left == SubSeq(events, n + 1, Len(events))
    IN
    /\ poster[s].at = "ready" /\ posted + Len(poster[s].batch) <= MaxEvents
    /\ IF poster[s].locked THEN Increment(Wakes(events)) ELSE UNCHANGED lock
    /\ eventQueue' = eventQueue \o SubSeq(events, 1, n)
    /\ IF Queued(left)
       THEN /\ pending' = Append(pending, [events |-> left, wakeups |-> Wakes(events)])
            /\ sizePending' = sizePending + Len(left)
       ELSE UNCHANGED <<pending, sizePending>>
    /\ posted' = posted + Len(poster[s].batch)
    /\ poster' = [poster EXCEPT ![s].at = "posted", ![s].batch = <<>>]
    /\ UNCHANGED <<writer, waker, framework, overReleased>>

\* The ScopedWakelock goes out of scope.
End(s) ==
    /\ poster[s].at = "posted"
    /\ IF poster[s].locked THEN Decrement(1, poster[s].valid) ELSE UNCHANGED lock
    /\ poster' = [poster EXCEPT ![s] = Idle]
    /\ UNCHANGED <<queues, writer, waker, framework, posted>>
    /\ overReleased' = (overReleased /\ ~Settled')

-----------------------------------------------------------------------------
(* The pending-writes thread: handlePendingWrites *)

front == Head(pending)

\* With the mutex: look at the front of the queue, then unlock.
writerTake ==
    /\ writer.at = "wait" /\ pending # <<>>
    /\ writer' = [at |-> "write", wakeups |-> front.wakeups,
                  n |-> Smaller(Len(front.events), QueueSize)]
    /\ UNCHANGED <<queues, lock, poster, waker, framework, posted, overReleased>>

\* writeBlocking finds room in time.
writerWrites ==
    /\ writer.at = "write" /\ Len(eventQueue) + writer.n <= QueueSize
    /\ eventQueue' = eventQueue \o SubSeq(front.events, 1, writer.n)
    /\ writer' = [writer EXCEPT !.at = "written"]
    /\ UNCHANGED <<pending, sizePending, lock, poster, waker, framework, posted, overReleased>>

\* What a failed write takes off the count: the wake-up events among the
\* dropped ones when the batch is longer than the queue, else the count the
\* whole batch was posted with.
Released == IF Len(front.events) > QueueSize
            THEN Wakes(SubSeq(front.events, 1, QueueSize))
            ELSE writer.wakeups

\* writeBlocking times out: the events are dropped.
writerDrops ==
    /\ writer.at = "write" /\ Len(eventQueue) + writer.n > QueueSize
    /\ IF writer.wakeups > 0 THEN Decrement(Released, TRUE) ELSE UNCHANGED lock
    /\ overReleased' = (overReleased
                          \/ Released > Wakes(SubSeq(front.events, 1, writer.n)))
    /\ writer' = [writer EXCEPT !.at = "written"]
    /\ UNCHANGED <<queues, poster, waker, framework, posted>>

\* Mutant: the batch leaves the queue, its size stays.
writerPops_sizeStays ==
    /\ writer.at = "written"
    /\ pending' = IF Len(front.events) > QueueSize
                  THEN [pending EXCEPT ![1].events = SubSeq(@, QueueSize + 1, Len(@))]
                  ELSE Tail(pending)
    /\ sizePending' = IF Len(front.events) > QueueSize THEN sizePending - writer.n ELSE sizePending
    /\ writer' = WriterIdle
    /\ UNCHANGED <<eventQueue, lock, poster, waker, framework, posted, overReleased>>

\* With the mutex again: the written (or dropped) events leave the queue.
writerPops ==
    /\ writer.at = "written"
    /\ sizePending' = sizePending - writer.n
    /\ pending' = IF Len(front.events) > QueueSize
                  THEN [pending EXCEPT ![1].events = SubSeq(@, QueueSize + 1, Len(@))]
                  ELSE Tail(pending)
    /\ writer' = WriterIdle
    /\ UNCHANGED <<eventQueue, lock, poster, waker, framework, posted, overReleased>>

Writer == writerTake \/ writerWrites \/ writerDrops \/ writerPops

-----------------------------------------------------------------------------
(* The wakelock thread: handleWakelocks *)

\* sharedWakelockDidTimeout: resetSharedWakelock drops every count, and the
\* scoped wakelocks in use lose theirs.
wakerTimeout ==
    /\ waker = "wait" /\ refCount > 0 /\ expired
    /\ Decrement(refCount, TRUE)
    /\ poster' = [s \in SubHals |-> [poster[s] EXCEPT !.valid = FALSE]]
    /\ overReleased' = (Outstanding # 0)
    /\ UNCHANGED <<queues, writer, waker, framework, posted>>

\* Otherwise wait for the framework, with the mutex released.
wakerUnlocks ==
    /\ waker = "wait" /\ refCount > 0 /\ ~expired
    /\ waker' = "read"
    /\ UNCHANGED <<queues, lock, poster, writer, framework, posted, overReleased>>

wakerReads ==
    /\ waker = "read" /\ wakeLockQueue # <<>>
    /\ Decrement(Head(wakeLockQueue), TRUE)
    /\ wakeLockQueue' = Tail(wakeLockQueue)
    /\ waker' = "wait"
    /\ UNCHANGED <<queues, poster, writer, unacked, posted>>
    /\ overReleased' = (overReleased /\ ~Settled')

\* readBlocking gives up; the timeout may have been extended meanwhile.
wakerGivesUp ==
    /\ waker = "read" /\ wakeLockQueue = <<>>
    /\ waker' = "wait"
    /\ UNCHANGED <<queues, lock, poster, writer, framework, posted, overReleased>>

Waker == wakerTimeout \/ wakerUnlocks \/ wakerReads \/ wakerGivesUp

-----------------------------------------------------------------------------
(* The framework, and time (external) *)

ReadEvent ==
    /\ eventQueue # <<>>
    /\ unacked' = unacked + (IF Head(eventQueue).wake THEN 1 ELSE 0)
    /\ eventQueue' = Tail(eventQueue)
    /\ UNCHANGED <<pending, sizePending, lock, poster, writer, waker, wakeLockQueue, posted,
                   overReleased>>

Acknowledge ==
    /\ unacked > 0 /\ Len(wakeLockQueue) < MaxAcks
    /\ wakeLockQueue' = Append(wakeLockQueue, unacked)
    /\ unacked' = 0
    /\ UNCHANGED <<queues, lock, poster, writer, waker, posted, overReleased>>

Expire ==
    /\ ~expired
    /\ expired' = TRUE
    /\ UNCHANGED <<queues, refCount, held, poster, writer, waker, framework, posted, overReleased>>

Next ==
    \/ \E s \in SubHals : Begin(s) \/ postEvents(s) \/ End(s)
    \/ Writer \/ Waker
    \/ ReadEvent \/ Acknowledge \/ Expire

Spec == Init /\ [][Next]_vars

-----------------------------------------------------------------------------
(* Properties *)

\* The device stays awake for every wake-up event on its way to the
\* framework: the count covers them all and the wakelock is held, through
\* direct writes, the pending queue, failed writes, drops and late
\* acknowledgements.  Where the timeout or the failed write of a split batch
\* cuts the count, this is so again once everything the count should have
\* stood for is acknowledged or over (HalProxy.cpp 583-602, 636-638, 667-693,
\* 699-704, 720-723).
WakeEventsHoldLock ==
    ~overReleased /\ Outstanding > 0 => refCount >= Outstanding /\ held

\* The size that guards the limit is the size of the queue, while batches
\* are written outside the mutex, split and dropped (604, 608, 611, 685-688),
\* and the queues keep to their limits.
SizeExact == sizePending = Len(AllPending)
QueueInv == TypeOK /\ SizeExact

\* One thread writes events under the mutex, another without it, and either
\* may drop some; for the framework they are still one channel, which
\* reorders and repeats nothing, takes events in only when they are posted
\* and loses at most one queue full at a time (587-613, 671-692).
Channel == INSTANCE EventChannel WITH channel <- eventQueue \o FromPending
ImplementsChannel == Channel!ChannelSpec

\* HalProxyCallback.cpp lines 46-56, the two assertions of postEvents: a
\* batch carries a locked wakelock exactly if it has wake-up events.
AssertWakelockMatches ==
    \A s \in SubHals :
        poster[s].at = "ready"
          => (poster[s].locked <=> Wakes(processEvents(poster[s].batch)) > 0)

=============================================================================
