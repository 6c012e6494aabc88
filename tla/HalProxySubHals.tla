-------------------------- MODULE HalProxySubHals --------------------------
(***************************************************************************)
(* The sensors proxy between the framework and its sub-HALs: the encoding  *)
(* of sensor handles, operation modes with their roll-back, direct         *)
(* channels, sensors that come and go, and what initialize does to all of  *)
(* them.  The framework's calls come one at a time (service.cpp has one    *)
(* binder thread); sub-HALs with dynamic sensors announce them on threads  *)
(* of their own, of which mDynamicSensorsMutex covers the map and not the  *)
(* callback.  Events, threads and queues are in HalProxyEvents and         *)
(* HalProxyRestart.  batch and flush change nothing in the proxy or in     *)
(* this device's sub-HAL, whose sensors are all one-shot, and are left     *)
(* out.  A call that is refused before it reaches a sub-HAL is no step.    *)
(***************************************************************************)
EXTENDS Integers, FiniteSetsExt

CONSTANTS
    N,              \* number of sub-HALs in hals.conf
    Own,            \* the one of this repository, SensorsSubHal
    Base,           \* 2^24, scaled: a handle is index * Base + the sub-HAL's own
    VendorLists,    \* the sensor lists that the other sub-HALs may have
    Hotplug,        \* the sub-HALs with dynamic sensors ...
    PlugHandles     \* ... and the handles those sub-HALs give them

SubHals == 0 .. N - 1
Info == [handle: Nat, direct: BOOLEAN]

ASSUME SubHalAssumption ==
    /\ N \in Nat /\ Own \in SubHals /\ Base \in Nat \ {0, 1}
    /\ VendorLists \subseteq SUBSET Info
    /\ Hotplug \subseteq SubHals \ {Own} /\ PlugHandles \subseteq Nat

\* The handles of one sub-HAL are its own sensors' and different; the proxy
\* relies on that and does not check it.
ASSUME HandleAssumption ==
    \A infos \in VendorLists :
      /\ \A s, t \in infos : s.handle = t.handle => s = t
      /\ \A s \in infos : s.handle < Base => s.handle \notin PlugHandles

VARIABLES
    lists,          \* what each sub-HAL lists; fixed
    mSensors,       \* the static sensors, with the place where each one lives
    mDirectChannelSubHal,
    mDynamicSensors,
    mCurrentOperationMode,
    subMode,        \* the sub-HALs' modes
    apart,          \* sub-HALs whose last change of mode was refused or left out
    stray,          \* sub-HALs that took injected data in normal mode, not being apart
    plugged,        \* the dynamic sensors that a sub-HAL has announced
    enabled,        \* the sensors that the sub-HALs have enabled
    channel,        \* a direct channel is registered
    reports,        \* direct reports: the sensor meant and the place that got the call
    ready,          \* sub-HALs that were given a callback
    plug,           \* what a sub-HAL's thread has still to tell the framework
    known,          \* the dynamic sensors that the framework knows of
    doubtful,       \* handles whose announcement met a change of the callback, or
                    \* that were still enabled then
    binder          \* where the binder thread is inside initialize

sensorVars == <<lists, mSensors, mDirectChannelSubHal>>
modeVars == <<mCurrentOperationMode, subMode, apart, stray>>
plugVars == <<mDynamicSensors, plugged, plug, known, doubtful>>
directVars == <<channel, reports>>
useVars == <<enabled, directVars>>
vars == <<sensorVars, modeVars, plugVars, useVars, ready, binder>>

-----------------------------------------------------------------------------
(* Handles *)

\* The shift of a negative handle is negative, and as a size_t too large.
extractSubHalIndex(h) == h \div Base
isSubHalIndexValid(h) == extractSubHalIndex(h) \in SubHals
clearSubHalIndex(h) == h % Base
subHalIndexIsClear(h) == h < Base
setSubHalIndex(h, i) == h + i * Base     \* an "or", of a handle whose index is clear

\* getSubHalForSensorHandle: where a call for this handle goes.
Route(h) == <<extractSubHalIndex(h), clearSubHalIndex(h)>>

\* A sensor as the framework sees it, with the place where it lives.
Entry(i, h, direct) == [handle |-> setSubHalIndex(h, i), home |-> <<i, h>>, direct |-> direct]

\* The sensors of a list that the proxy takes; others are logged.
Accepted(infos) == {s \in infos : subHalIndexIsClear(s.handle)}

\* Dynamic sensors keep the flags that the sub-HAL gives them.
Dynamic(i, h) ==
    {Entry(i, s.handle, s.direct) : s \in Accepted({[handle |-> h, direct |-> TRUE]})}

\* The sensors that sub-HAL i has now.
Has(i) == {s.handle : s \in lists[i]} \cup plugged[i]

Reaches(h) == isSubHalIndexValid(h) /\ Route(h)[2] \in Has(Route(h)[1])

-----------------------------------------------------------------------------

TypeOK ==
    /\ lists \in [SubHals -> SUBSET Info]
    /\ mDirectChannelSubHal \in SubHals \cup {-1}
    /\ mCurrentOperationMode \in {"NORMAL", "DATA_INJECTION"}
    /\ subMode \in [SubHals -> {"NORMAL", "DATA_INJECTION"}]
    /\ apart \subseteq SubHals /\ stray \subseteq SubHals /\ ready \subseteq SubHals
    /\ \A i \in SubHals : plugged[i] \subseteq PlugHandles /\ (i \notin Hotplug => plugged[i] = {})
    /\ channel \in BOOLEAN /\ (reports # {} => channel)
    /\ \A p \in enabled : p[1] \in SubHals /\ p[2] \in Has(p[1])
    /\ \A i \in Hotplug : plug[i].at \in {"idle", "connect", "disconnect"}
    /\ binder \in [at: {"idle", "dynamic", "clear", "callback", "subhals"}, next: SubHals]

\* SensorsSubHal's constructor adds UdfpsSensor and SingleTapSensor as 1 and
\* 2; one stands for both.
OwnList == {[handle |-> 1, direct |-> FALSE]}

\* Mutant: the flags of every sensor are kept.
DirectFlag_kept(i, s, first) == s.direct

\* setDirectChannelFlags: only the first sub-HAL with a sensor for direct
\* channels serves them, the others' sensors lose the flags.
DirectFlag(i, s, first) == s.direct /\ i = first

\* initializeSensorList
Init ==
    /\ \E vendor \in [SubHals -> VendorLists] : lists = [vendor EXCEPT ![Own] = OwnList]
    /\ LET direct == {i \in SubHals : \E s \in Accepted(lists[i]) : s.direct}
           first == IF direct = {} THEN -1 ELSE Min(direct)
       IN /\ mDirectChannelSubHal = first
          /\ mSensors = UNION {{Entry(i, s.handle, DirectFlag(i, s, first)) :
                                  s \in Accepted(lists[i])} : i \in SubHals}
    /\ mDynamicSensors = {} /\ known = {} /\ doubtful = {}
    /\ mCurrentOperationMode = "NORMAL" /\ subMode = [i \in SubHals |-> "NORMAL"]
    /\ apart = {} /\ stray = {} /\ ready = {}
    /\ plugged = [i \in SubHals |-> {}]
    /\ enabled = {} /\ channel = FALSE /\ reports = {}
    /\ plug = [i \in Hotplug |-> [at |-> "idle", sensors |-> {}]]
    /\ binder = [at |-> "idle", next |-> 0]

-----------------------------------------------------------------------------
(* Calls of the framework, about the sensors it was told of *)

BinderIdle == binder.at = "idle"
BinderAt(place) == binder' = [at |-> place, next |-> 0]

Handles(entries) == {s.handle : s \in entries}

\* Mutant: the roll-back leaves out the first sub-HAL.
setOperationMode_rollback(mode) ==
    /\ BinderIdle
    /\ \/ /\ subMode' = [i \in SubHals |-> mode]
          /\ apart' = {} /\ mCurrentOperationMode' = mode
       \/ \E f \in SubHals \ {Own} : \E stuck \in SUBSET ((0 .. f - 1) \ {Own}) :
            /\ subMode' = [i \in SubHals |-> IF i \in stuck \cup {0} /\ i < f THEN mode
                             ELSE IF i < f THEN mCurrentOperationMode ELSE subMode[i]]
            /\ apart' = stuck \cup {i \in apart : i >= f}
            /\ UNCHANGED mCurrentOperationMode
    /\ UNCHANGED <<sensorVars, plugVars, useVars, ready, binder, stray>>

\* All sub-HALs accept, or f is the first that refuses and those before it are
\* set back, which some of them refuse too; that is not looked at.
setOperationMode(mode) ==
    /\ BinderIdle
    /\ \/ /\ subMode' = [i \in SubHals |-> mode]
          /\ apart' = {} /\ mCurrentOperationMode' = mode
       \/ \E f \in SubHals \ {Own} : \E stuck \in SUBSET ((0 .. f - 1) \ {Own}) :
            /\ subMode' = [i \in SubHals |-> IF i \in stuck THEN mode
                             ELSE IF i < f THEN mCurrentOperationMode ELSE subMode[i]]
            /\ apart' = stuck \cup {i \in apart : i >= f}
            /\ UNCHANGED mCurrentOperationMode
    /\ UNCHANGED <<sensorVars, plugVars, useVars, ready, binder, stray>>

\* The sub-HALs enable or disable the sensors with these handles.
Activated(handles, enable) ==
    LET places == {Route(h) : h \in {k \in handles : Reaches(k)}}
    IN IF enable THEN enabled \cup places ELSE enabled \ places

activate(h, enable) ==
    /\ BinderIdle
    /\ Reaches(h)
    /\ enabled' = Activated({h}, enable)
    /\ UNCHANGED <<sensorVars, modeVars, plugVars, directVars, ready, binder>>

\* Sensor::injectEvent: the sensors of this repository support no injection.
TakesData(i) == i # Own

\* An event of type ADDITIONAL_INFO passes in every mode and changes nothing.
injectSensorData(h) ==
    /\ BinderIdle
    /\ mCurrentOperationMode # "NORMAL"
    /\ Reaches(h)
    /\ LET i == extractSubHalIndex(h)
       IN stray' = IF TakesData(i) /\ subMode[i] = "NORMAL" /\ i \notin apart
                   THEN stray \cup {i} ELSE stray
    /\ UNCHANGED <<sensorVars, mCurrentOperationMode, subMode, apart, plugVars, useVars, ready,
                   binder>>

\* The sub-HAL may refuse.
registerDirectChannel ==
    /\ BinderIdle
    /\ mDirectChannelSubHal # -1 /\ ~channel
    /\ channel' = TRUE
    /\ UNCHANGED <<sensorVars, modeVars, plugVars, enabled, reports, ready, binder>>

unregisterDirectChannel ==
    /\ BinderIdle
    /\ channel
    /\ channel' = FALSE /\ reports' = {}
    /\ UNCHANGED <<sensorVars, modeVars, plugVars, enabled, ready, binder>>

\* The handle -1 stands for all sensors and is for stopping only.
configDirectReport(h, stop) ==
    /\ BinderIdle
    /\ channel
    /\ IF h = -1 THEN stop /\ reports' = {}
       ELSE /\ clearSubHalIndex(h) \in Has(mDirectChannelSubHal)
            /\ LET place == <<mDirectChannelSubHal, clearSubHalIndex(h)>>
               IN reports' = IF stop THEN {r \in reports : r.at # place}
                                     ELSE reports \cup {[handle |-> h, at |-> place]}
    /\ UNCHANGED <<sensorVars, modeVars, plugVars, enabled, channel, ready, binder>>

-----------------------------------------------------------------------------
(* initialize, by a framework that starts anew *)

\* disableAllSensors, static sensors.
initialize ==
    /\ BinderIdle
    /\ enabled' = Activated(Handles(mSensors), FALSE)
    /\ BinderAt("dynamic")
    /\ UNCHANGED <<sensorVars, modeVars, plugVars, directVars, ready>>

\* Mutant: the dynamic sensors are left as they are.
disableDynamic_skipped ==
    /\ binder.at = "dynamic"
    /\ BinderAt("clear")
    /\ UNCHANGED <<sensorVars, modeVars, plugVars, useVars, ready>>

\* ... and dynamic ones, with mDynamicSensorsMutex.
disableDynamic ==
    /\ binder.at = "dynamic"
    /\ enabled' = Activated(Handles(mDynamicSensors), FALSE)
    /\ BinderAt("clear")
    /\ UNCHANGED <<sensorVars, modeVars, plugVars, directVars, ready>>

\* mDynamicSensors.clear(), without the mutex: an announcement comes before
\* or after it.
clearDynamic ==
    /\ binder.at = "clear"
    /\ mDynamicSensors' = {}
    /\ BinderAt("callback")
    /\ UNCHANGED <<sensorVars, modeVars, plugged, plug, known, doubtful, useVars, ready>>

replaceCallback ==
    /\ binder.at = "callback"
    /\ known' = {}
    /\ doubtful' = Handles(mDynamicSensors \cup UNION {plug[i].sensors : i \in Hotplug})
                     \cup {setSubHalIndex(p[2], p[1]) : p \in enabled}
    /\ BinderAt("subhals")
    /\ UNCHANGED <<sensorVars, modeVars, mDynamicSensors, plugged, plug, useVars, ready>>

\* A sub-HAL's initialize.  This repository's never fails and leaves its
\* sensors as they are; the others start anew with their dynamic sensors and
\* direct reports (external).  A failure ends the loop.
initializeSubHal ==
    /\ binder.at = "subhals"
    /\ LET i == binder.next
       IN \/ /\ subMode' = [subMode EXCEPT ![i] = "NORMAL"]
             /\ apart' = apart \ {i}
             /\ plugged' = [plugged EXCEPT ![i] = {}]
             /\ enabled' = {p \in enabled : p[1] # i \/ p[2] \notin plugged[i]}
             /\ IF i = mDirectChannelSubHal THEN channel' = FALSE /\ reports' = {}
                                            ELSE UNCHANGED directVars
             /\ ready' = ready \cup {i}
             /\ IF i = N - 1 THEN BinderAt("idle") ELSE binder' = [binder EXCEPT !.next = i + 1]
          \/ /\ i # Own
             /\ apart' = apart \cup i .. N - 1
             /\ BinderAt("idle")
             /\ UNCHANGED <<subMode, plugged, useVars, ready>>
    /\ mCurrentOperationMode' = IF binder'.at = "idle" THEN "NORMAL" ELSE mCurrentOperationMode
    /\ UNCHANGED <<sensorVars, stray, mDynamicSensors, plug, known, doubtful>>

-----------------------------------------------------------------------------
(* The thread of a sub-HAL with dynamic sensors *)

\* onDynamicSensorsConnected, with the mutex ...
connect(i, h) ==
    /\ plug[i].at = "idle" /\ i \in ready /\ h \notin plugged[i]
    /\ plugged' = [plugged EXCEPT ![i] = @ \cup {h}]
    /\ mDynamicSensors' = mDynamicSensors \cup Dynamic(i, h)
    /\ plug' = [plug EXCEPT ![i] = [at |-> "connect", sensors |-> Dynamic(i, h)]]
    /\ doubtful' = doubtful \ Handles(Dynamic(i, h))
    /\ UNCHANGED <<sensorVars, modeVars, known, useVars, ready, binder>>

\* Mutant: the sensor stays in the map.
disconnect_keeps(i, h) ==
    /\ plug[i].at = "idle" /\ h \in plugged[i]
    /\ LET gone == Dynamic(i, h) \cap mDynamicSensors
       IN /\ plug' = [plug EXCEPT ![i] = [at |-> "disconnect", sensors |-> gone]]
          /\ doubtful' = doubtful \ Handles(gone)
    /\ plugged' = [plugged EXCEPT ![i] = @ \ {h}]
    /\ enabled' = enabled \ {<<i, h>>}
    /\ reports' = {r \in reports : r.at # <<i, h>>}
    /\ UNCHANGED <<sensorVars, modeVars, mDynamicSensors, known, channel, ready, binder>>

\* onDynamicSensorsDisconnected: only sensors that are in the map are told of.
disconnect(i, h) ==
    /\ plug[i].at = "idle" /\ h \in plugged[i]
    /\ LET gone == Dynamic(i, h) \cap mDynamicSensors
       IN /\ mDynamicSensors' = mDynamicSensors \ gone
          /\ plug' = [plug EXCEPT ![i] = [at |-> "disconnect", sensors |-> gone]]
          /\ doubtful' = doubtful \ Handles(gone)
    /\ plugged' = [plugged EXCEPT ![i] = @ \ {h}]
    /\ enabled' = enabled \ {<<i, h>>}
    /\ reports' = {r \in reports : r.at # <<i, h>>}
    /\ UNCHANGED <<sensorVars, modeVars, known, channel, ready, binder>>

\* ... and the call of the framework, without it.
tellConnected(i) ==
    /\ plug[i].at = "connect"
    /\ known' = known \cup plug[i].sensors
    /\ plug' = [plug EXCEPT ![i] = [at |-> "idle", sensors |-> {}]]
    /\ UNCHANGED <<sensorVars, modeVars, mDynamicSensors, plugged, doubtful, useVars, ready, binder>>

tellDisconnected(i) ==
    /\ plug[i].at = "disconnect"
    /\ known' = known \ plug[i].sensors
    /\ plug' = [plug EXCEPT ![i] = [at |-> "idle", sensors |-> {}]]
    /\ UNCHANGED <<sensorVars, modeVars, mDynamicSensors, plugged, doubtful, useVars, ready, binder>>

-----------------------------------------------------------------------------

Next ==
    \/ \E mode \in {"NORMAL", "DATA_INJECTION"} : setOperationMode(mode)
    \/ \E h \in Handles(mSensors \cup known) : \/ \E e \in BOOLEAN : activate(h, e)
                                              \/ injectSensorData(h)
    \/ registerDirectChannel \/ unregisterDirectChannel
    \/ configDirectReport(-1, TRUE)
    \/ \E s \in mSensors \cup known, stop \in BOOLEAN : s.direct /\ configDirectReport(s.handle, stop)
    \/ initialize \/ disableDynamic \/ clearDynamic \/ replaceCallback \/ initializeSubHal
    \/ \E i \in Hotplug : \/ \E h \in PlugHandles : connect(i, h) \/ disconnect(i, h)
                          \/ tellConnected(i) \/ tellDisconnected(i)

Spec == Init /\ [][Next]_vars

-----------------------------------------------------------------------------
(* Properties *)

\* The sub-HALs are in the mode that the proxy believes in, also after a
\* change that one of them refused half way (133-154), and injected data never
\* reaches a sub-HAL in normal mode (288-310).  The exceptions are sub-HALs
\* that refused the roll-back, whose result is ignored (148), and those that a
\* failed initialize did not reach (258-267).
ModesAgree ==
    /\ BinderIdle => \A i \in SubHals \ apart : subMode[i] = mCurrentOperationMode
    /\ stray = {}

\* Every handle that the framework was given leads to the sensor it was given
\* for, and to no other: calls go by its first byte (742-763), direct reports
\* drop that byte and go to the one sub-HAL that serves direct channels
\* (332-347), so no static sensor of another may keep its flags (727-740).
\* Dynamic sensors keep theirs (401-403): their reports may go astray.
RoutedHome ==
    /\ TypeOK
    /\ \A s \in mSensors \cup mDynamicSensors \cup known : Route(s.handle) = s.home
    /\ \A s, t \in mSensors \cup mDynamicSensors : s.handle = t.handle => s = t
    /\ \A r \in reports, s \in mSensors : r.handle = s.handle => r.at = s.home

\* The framework knows the dynamic sensors that the proxy has, but for those
\* whose announcement is under way, or met a restart: inserted before the map
\* is cleared and told to the new callback, or inserted after and told to the
\* old one (224-228 against 391-431).
DynamicAgreed ==
    \A i \in Hotplug, h \in {k \in PlugHandles : subHalIndexIsClear(k)} :
      LET s == setSubHalIndex(h, i)
      IN binder.at # "callback" /\ plug[i].at = "idle" /\ s \notin doubtful
           => (s \in Handles(mDynamicSensors) <=> s \in Handles(known))

\* A restarted framework finds every sensor off: what disableAllSensors leaves
\* enabled are dynamic sensors that are not in the map since their
\* announcement met an earlier restart (217-228, 559-569); the sub-HALs'
\* initialize turns nothing off (SensorsSubHal.cpp 141-145).
RestartDisables ==
    binder.at \in {"clear", "callback", "subhals"}
      => \A p \in enabled : setSubHalIndex(p[2], p[1]) \in doubtful

=============================================================================
