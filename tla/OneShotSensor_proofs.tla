----------------------- MODULE OneShotSensor_proofs -----------------------
(***************************************************************************)
(* Proofs about OneShotSensor: type correctness, and at most one event per *)
(* activation for any number of activations.                               *)
(***************************************************************************)
EXTENDS OneShotSensor, TLAPS

\* The byte that poll() announced is still in the pipe when it is read: only
\* this thread reads from it.
PipeInv == "pipe" \in thread.revents => pipe > 0

\* An activation that has not been used up: the sensor is enabled, or its
\* thread has left the loop for a poll that may still end in an event.
Unused == mIsEnabled \/ thread.at \in {"poll", "polled", "post"}

\* Inductive: the activations pay for every event posted and, if there is an
\* unused one, for one more; inside postEvents the sensor is already off.
OneShotInv ==
    body = "derived" =>
        /\ posts <= activations
        /\ Unused => posts + 1 <= activations
        /\ thread.at = "post" => ~mIsEnabled

-----------------------------------------------------------------------------
\* Every step leaves the announced byte in the pipe, or takes it.
LEMMA PipeStep == TypeOK /\ PipeInv /\ [Next]_sensorVars => PipeInv'
<1> SUFFICES ASSUME TypeOK, PipeInv, [Next]_sensorVars
             PROVE  PipeInv'
    OBVIOUS
<1>1. CASE Loop \/ Wakes \/ PollFails \/ Failed \/ Detected \/ NotDetected \/ Post
    BY <1>1 DEF PipeInv, Loop, Wakes, PollFails, Failed, Detected, NotDetected, Post, ThreadAt
<1>2. CASE PollReturns
    BY <1>2 DEF PipeInv, PollReturns
<1>3. ASSUME NEW e \in BOOLEAN, activate(e)
      PROVE  PipeInv'
    BY <1>3 DEF TypeOK, PipeInv, activate, NotifyAll
<1>4. ASSUME NEW m \in Modes, setOperationMode(m)
      PROVE  PipeInv'
    BY <1>4 DEF TypeOK, PipeInv, setOperationMode, NotifyAll
<1>5. CASE interruptPoll \/ Destroy \/ Join
    BY <1>5 DEF TypeOK, PipeInv, interruptPoll, Destroy, Join
<1>6. CASE DestroyBase
    BY <1>6 DEF TypeOK, PipeInv, DestroyBase, NotifyAll
<1>7. ASSUME NEW d \in BOOLEAN, Finger(d)
      PROVE  PipeInv'
    BY <1>7 DEF PipeInv, Finger
<1>8. CASE UNCHANGED sensorVars
    BY <1>8 DEF PipeInv, sensorVars
<1> QED
    BY <1>1, <1>2, <1>3, <1>4, <1>5, <1>6, <1>7, <1>8 DEF Next, Thread, CallerSteps

\* Every step keeps the types, among them the bounds of the counters.
LEMMA TypeStep == TypeOK /\ PipeInv /\ [Next]_sensorVars => TypeOK'
<1> SUFFICES ASSUME TypeOK, PipeInv, [Next]_sensorVars
             PROVE  TypeOK'
    OBVIOUS
<1> USE SensorAssumption
<1>1. CASE Loop
    BY <1>1 DEF TypeOK, Loop, ThreadAt, Locations, Modes, flags, history
<1>2. CASE Wakes
    BY <1>2 DEF TypeOK, Wakes, ThreadAt, Locations, Modes, flags, history
<1>3. CASE PollReturns
  <2>1. thread' \in [at: Locations, revents: SUBSET {"pipe", "node", "error"}]
      BY <1>3 DEF PollReturns, Locations
  <2> QED BY <1>3, <2>1 DEF TypeOK, PollReturns, flags, history
<1>4. CASE PollFails
    BY <1>4 DEF TypeOK, PollFails, Locations, Modes, flags, history
<1>5. CASE Failed
    BY <1>5 DEF TypeOK, Failed, ThreadAt, Locations, Modes, history
<1>6. CASE Detected
    BY <1>6 DEF TypeOK, Detected, ThreadAt, Locations, Modes, history
<1>7. CASE NotDetected
  <2>1. node' \in [event: BOOLEAN, down: BOOLEAN]
    <3> DEFINE still == node.event /\ "node" \notin thread.revents
    <3>1. still \in BOOLEAN
        BY Zenon
    <3>2. node' = [node EXCEPT !.event = still]
        BY <1>7 DEF NotDetected
    <3> HIDE DEF still
    <3> QED BY <3>1, <3>2 DEF TypeOK
  <2>2. pipe' \in 0 .. MaxPipe
      BY <1>7 DEF TypeOK, PipeInv, NotDetected
  <2> QED BY <1>7, <2>1, <2>2 DEF TypeOK, NotDetected, ThreadAt, Locations, flags, history
<1>8. CASE Post
    BY <1>8 DEF TypeOK, Post, ThreadAt, Locations, Modes, flags
<1>9. ASSUME NEW e \in BOOLEAN, activate(e)
      PROVE  TypeOK'
    BY <1>9 DEF TypeOK, activate, NotifyAll, Locations, Modes
<1>10. ASSUME NEW m \in Modes, setOperationMode(m)
       PROVE  TypeOK'
    BY <1>10 DEF TypeOK, setOperationMode, NotifyAll, Locations, Modes, history
<1>11. CASE interruptPoll
    BY <1>11 DEF TypeOK, interruptPoll, flags, history
<1>12. CASE Destroy
    BY <1>12 DEF TypeOK, Destroy, flags, history
<1>13. CASE DestroyBase
    BY <1>13 DEF TypeOK, DestroyBase, NotifyAll, Locations, Modes, history
<1>14. CASE Join
    BY <1>14 DEF TypeOK, Join, flags, history
<1>15. ASSUME NEW d \in BOOLEAN, Finger(d)
       PROVE  TypeOK'
    BY <1>15 DEF TypeOK, Finger, flags, history
<1>16. CASE UNCHANGED sensorVars
    BY <1>16 DEF TypeOK, sensorVars, flags, history
<1> QED
    BY <1>1, <1>2, <1>3, <1>4, <1>5, <1>6, <1>7, <1>8, <1>9, <1>10, <1>11, <1>12, <1>13,
       <1>14, <1>15, <1>16 DEF Next, Thread, CallerSteps

\* The variables of a sensor and of its thread keep their types.
THEOREM TypeCorrect == Spec => []TypeOK
<1>1. Init => TypeOK
  <2> SUFFICES ASSUME Init PROVE TypeOK
      OBVIOUS
  <2>1. mIsEnabled \in BOOLEAN /\ mMode \in Modes /\ mStopThread \in BOOLEAN
      BY Zenon DEF Init, Modes
  <2>2. /\ pipe \in 0 .. MaxPipe /\ activations \in 0 .. MaxActivations
        /\ posts \in 0 .. MaxActivations + 1
      BY SensorAssumption DEF Init
  <2>3. /\ node \in [event: BOOLEAN, down: BOOLEAN]
        /\ thread \in [at: Locations, revents: SUBSET {"pipe", "node", "error"}]
        /\ body \in {"derived", "base"}
        /\ caller \in {"idle", "interrupt", "dtor", "join", "gone"}
      BY DEF Init, Locations
  <2> QED BY <2>1, <2>2, <2>3 DEF TypeOK
<1>2. Init => PipeInv
    BY DEF Init, PipeInv
<1> QED BY <1>1, <1>2, PipeStep, TypeStep, PTL DEF Spec

-----------------------------------------------------------------------------
\* A step pays for what it posts: one action at a time.
LEMMA OneShotStep == TypeOK /\ OneShotInv /\ [Next]_sensorVars => OneShotInv'
<1> SUFFICES ASSUME TypeOK, OneShotInv, [Next]_sensorVars, body' = "derived"
             PROVE  OneShotInv'
    BY DEF OneShotInv
<1> USE SensorAssumption
<1>0. body = "derived"
    BY DEF Next, Thread, CallerSteps, sensorVars, Loop, Wakes, PollReturns, PollFails, Failed,
           Detected, NotDetected, Post, activate, setOperationMode, interruptPoll, Destroy,
           DestroyBase, Join, Finger
<1> USE <1>0
<1>1. CASE Loop
    BY <1>1 DEF TypeOK, OneShotInv, Unused, Loop, Active, ThreadAt, flags, history
<1>2. CASE Wakes
    BY <1>2 DEF TypeOK, OneShotInv, Unused, Wakes, ThreadAt, flags, history
<1>3. CASE PollReturns
    BY <1>3 DEF TypeOK, OneShotInv, Unused, PollReturns, flags, history
<1>4. CASE PollFails
    BY <1>4 DEF TypeOK, OneShotInv, Unused, PollFails, flags, history
<1>5. CASE Failed
    BY <1>5 DEF TypeOK, OneShotInv, Unused, Failed, ThreadAt, history
<1>6. CASE Detected
    BY <1>6 DEF TypeOK, OneShotInv, Unused, Detected, ThreadAt, history
<1>7. CASE NotDetected
    BY <1>7 DEF TypeOK, OneShotInv, Unused, NotDetected, ThreadAt, flags, history
<1>8. CASE Post
    BY <1>8 DEF TypeOK, OneShotInv, Unused, Post, ThreadAt, flags
<1>9. ASSUME NEW e \in BOOLEAN, activate(e)
      PROVE  OneShotInv'
    BY <1>9 DEF TypeOK, OneShotInv, Unused, activate, NotifyAll, MutexFree
<1>10. ASSUME NEW m \in Modes, setOperationMode(m)
       PROVE  OneShotInv'
    BY <1>10 DEF TypeOK, OneShotInv, Unused, setOperationMode, NotifyAll, history
<1>11. CASE interruptPoll
    BY <1>11 DEF TypeOK, OneShotInv, Unused, interruptPoll, flags, history
<1>12. CASE Destroy
    BY <1>12 DEF TypeOK, OneShotInv, Unused, Destroy, flags, history
<1>13. CASE DestroyBase
    BY <1>13 DEF TypeOK, OneShotInv, Unused, DestroyBase, NotifyAll, history
<1>14. CASE Join
    BY <1>14 DEF TypeOK, OneShotInv, Unused, Join, flags, history
<1>15. ASSUME NEW d \in BOOLEAN, Finger(d)
       PROVE  OneShotInv'
    BY <1>15 DEF TypeOK, OneShotInv, Unused, Finger, flags, history
<1>16. CASE UNCHANGED sensorVars
    BY <1>16 DEF TypeOK, OneShotInv, Unused, sensorVars, flags, history
<1> QED
    BY <1>1, <1>2, <1>3, <1>4, <1>5, <1>6, <1>7, <1>8, <1>9, <1>10, <1>11, <1>12, <1>13,
       <1>14, <1>15, <1>16 DEF Next, Thread, CallerSteps

\* For any number of activations, calls and fingers, and any order of the
\* poll, activate and the detection, a sensor whose thread executes the
\* derived run() posts at most one event per activation (Sensor.cpp 273-329).
THEOREM OneShotHolds == Spec => []OneShot
<1>1. Init => OneShotInv
    BY DEF Init, OneShotInv, Unused
<1>2. OneShotInv => OneShot
    BY DEF OneShotInv, OneShot
<1> QED BY <1>1, <1>2, OneShotStep, TypeCorrect, PTL DEF Spec

=============================================================================
