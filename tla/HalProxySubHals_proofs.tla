----------------------- MODULE HalProxySubHals_proofs -----------------------
(***************************************************************************)
(* Proofs about HalProxySubHals: handles lead home, the sub-HALs' modes    *)
(* agree with the proxy's, the framework and the proxy agree about dynamic *)
(* sensors, and a restart disables every sensor; for any number of         *)
(* sub-HALs, any lists of sensors and any dynamic sensors.                 *)
(***************************************************************************)
EXTENDS HalProxySubHals, WellFoundedInduction, TLAPS

-----------------------------------------------------------------------------
(* Handles *)

\* The handles that a sub-HAL may give its sensors: the first byte is clear.
Clear == 0 .. Base - 1

\* The encoding of a handle can be undone: its first byte is the sub-HAL, the
\* rest is the handle that the sub-HAL gave.
LEMMA RouteBack ==
    ASSUME NEW i \in SubHals, NEW h \in Clear
    PROVE  /\ setSubHalIndex(h, i) \in Nat
           /\ extractSubHalIndex(setSubHalIndex(h, i)) = i
           /\ clearSubHalIndex(setSubHalIndex(h, i)) = h
<1>1. Base \in Nat /\ Base > 1 /\ i \in Nat /\ h \in Nat /\ h < Base
    BY SubHalAssumption DEF SubHals, Clear
<1>2. i * Base \in Nat
    BY <1>1
<1>3. (h + i * Base) \div Base = i /\ (h + i * Base) % Base = h
    BY <1>1, <1>2
<1> QED BY <1>1, <1>2, <1>3 DEF setSubHalIndex, extractSubHalIndex, clearSubHalIndex

\* There is a first sub-HAL with a sensor for direct channels.
LEMMA MinOfSubHals ==
    ASSUME NEW S \in SUBSET SubHals, S # {}
    PROVE  Min(S) \in S
<1>1. S \subseteq Nat
    BY SubHalAssumption DEF SubHals
<1> DEFINE R == {ss \in Nat \X Nat : ss[1] < ss[2]}
<1>2. IsWellFoundedOn(R, Nat)
    BY NatLessThanWellFounded DEF OpToRel
<1>3. R = {ss \in Nat \X Nat : ss[1] < ss[2]}
    OBVIOUS
<1> HIDE DEF R
<1>4. \E x \in S : \A y \in S : ~(<<y, x>> \in R)
    BY <1>1, <1>2, WFMin, Zenon
<1>5. PICK x \in S : \A y \in S : ~(<<y, x>> \in R)
    BY <1>4
<1>6. \A y \in S : x =< y
  <2> TAKE y \in S
  <2>1. <<y, x>> \in Nat \X Nat /\ <<y, x>> \notin R
      BY <1>1, <1>5
  <2>2. ~(<<y, x>>[1] < <<y, x>>[2])
      BY <1>3, <2>1, Zenon
  <2>3. ~(y < x)
      BY <2>2
  <2> QED BY <1>1, <2>3
<1> QED BY <1>6 DEF Min

\* Two sensors with the same handle are the same sensor of the same sub-HAL.
LEMMA HandleInjective ==
    ASSUME NEW i \in SubHals, NEW j \in SubHals, NEW h \in Clear, NEW k \in Clear,
           setSubHalIndex(h, i) = setSubHalIndex(k, j)
    PROVE  i = j /\ h = k
<1>1. /\ extractSubHalIndex(setSubHalIndex(h, i)) = i
      /\ clearSubHalIndex(setSubHalIndex(h, i)) = h
    BY RouteBack
<1>2. /\ extractSubHalIndex(setSubHalIndex(k, j)) = j
      /\ clearSubHalIndex(setSubHalIndex(k, j)) = k
    BY RouteBack
<1> QED BY <1>1, <1>2, Zenon

\* What an entry of the proxy's maps holds.
LEMMA EntryFields ==
    ASSUME NEW i, NEW h, NEW d
    PROVE  /\ Entry(i, h, d).handle = setSubHalIndex(h, i)
           /\ Entry(i, h, d).home = <<i, h>> /\ Entry(i, h, d).direct = d
    BY DEF Entry

\* A call for a sensor goes to its sub-HAL, if it still has the sensor.
LEMMA ReachesHome ==
    ASSUME NEW i \in SubHals, NEW h \in Clear
    PROVE  /\ Route(setSubHalIndex(h, i)) = <<i, h>>
           /\ Reaches(setSubHalIndex(h, i)) <=> h \in Has(i)
<1>1. /\ extractSubHalIndex(setSubHalIndex(h, i)) = i
      /\ clearSubHalIndex(setSubHalIndex(h, i)) = h
    BY RouteBack
<1>2. Route(setSubHalIndex(h, i)) = <<i, h>>
    BY <1>1, Zenon DEF Route
<1>3. Route(setSubHalIndex(h, i))[1] = i /\ Route(setSubHalIndex(h, i))[2] = h
    BY <1>2
<1> QED BY <1>1, <1>2, <1>3, Zenon DEF Reaches, isSubHalIndexValid

-----------------------------------------------------------------------------
(* Dynamic sensors *)

\* The dynamic sensors that the proxy takes.
PlugClear == PlugHandles \cap Clear
PlugEntry(i, h) == Entry(i, h, TRUE)
PlugEntries == {PlugEntry(i, h) : i \in Hotplug, h \in PlugClear}

\* Their sub-HALs and handles.
LEMMA PlugPlaces ==
    /\ Hotplug \subseteq SubHals /\ PlugClear \subseteq Clear /\ PlugClear \subseteq PlugHandles
    /\ PlugClear = {k \in PlugHandles : subHalIndexIsClear(k)}
<1>1. \A k \in PlugHandles : k \in Clear <=> subHalIndexIsClear(k)
    BY SubHalAssumption DEF Clear, subHalIndexIsClear
<1>2. Hotplug \subseteq SubHals
    BY SubHalAssumption
<1> QED BY <1>1, <1>2, Zenon DEF PlugClear

\* A dynamic sensor is taken exactly if its handle is clear.
LEMMA DynamicSensor ==
    ASSUME NEW i \in Hotplug, NEW h \in PlugHandles
    PROVE  /\ h \in PlugClear => Dynamic(i, h) = {PlugEntry(i, h)}
           /\ h \notin PlugClear => Dynamic(i, h) = {}
<1> DEFINE info == [handle |-> h, direct |-> TRUE]
<1>1. info.handle = h /\ info.direct = TRUE
    OBVIOUS
<1>2. h \in PlugClear <=> subHalIndexIsClear(info.handle)
    BY <1>1, PlugPlaces, Zenon
<1>3. Dynamic(i, h) = {Entry(i, s.handle, s.direct) : s \in {t \in {info} : subHalIndexIsClear(t.handle)}}
    BY Zenon DEF Dynamic, Accepted
<1> HIDE DEF info
<1>4. CASE h \in PlugClear
  <2>1. {t \in {info} : subHalIndexIsClear(t.handle)} = {info}
      BY <1>2, <1>4, Zenon
  <2>2. Dynamic(i, h) = {Entry(i, s.handle, s.direct) : s \in {info}}
      BY <1>3, <2>1, Zenon
  <2> QED BY <1>1, <1>4, <2>2, Zenon DEF PlugEntry
<1>5. CASE h \notin PlugClear
  <2>1. {t \in {info} : subHalIndexIsClear(t.handle)} = {}
      BY <1>2, <1>5, Zenon
  <2> QED BY <1>3, <1>5, <2>1, Zenon
<1> QED BY <1>4, <1>5

\* Dynamic sensors are told apart by their sub-HAL and its handle.
LEMMA PlugEntryInjective ==
    ASSUME NEW i, NEW j, NEW h, NEW k, PlugEntry(i, h) = PlugEntry(j, k)
    PROVE  i = j /\ h = k
<1>1. PlugEntry(i, h).home = <<i, h>> /\ PlugEntry(j, k).home = <<j, k>>
    BY EntryFields DEF PlugEntry
<1>2. <<i, h>> = <<j, k>>
    BY <1>1, Zenon
<1> QED BY <1>2

\* A handle is in a set of dynamic sensors if and only if the sensor is.
LEMMA PlugHandle ==
    ASSUME NEW S \in SUBSET PlugEntries, NEW i \in SubHals, NEW h \in Clear
    PROVE  setSubHalIndex(h, i) \in Handles(S) <=> PlugEntry(i, h) \in S
<1>1. PlugEntry(i, h).handle = setSubHalIndex(h, i)
    BY EntryFields DEF PlugEntry
<1>2. ASSUME setSubHalIndex(h, i) \in Handles(S) PROVE PlugEntry(i, h) \in S
  <2>1. PICK s \in S : s.handle = setSubHalIndex(h, i)
      BY <1>2 DEF Handles
  <2>2. PICK j \in Hotplug, k \in PlugClear : s = PlugEntry(j, k)
      BY DEF PlugEntries
  <2>3. setSubHalIndex(k, j) = setSubHalIndex(h, i)
      BY <2>1, <2>2, EntryFields DEF PlugEntry
  <2>4. j = i /\ k = h
      BY <2>3, HandleInjective, PlugPlaces
  <2> QED BY <2>2, <2>4
<1>3. ASSUME PlugEntry(i, h) \in S PROVE setSubHalIndex(h, i) \in Handles(S)
    BY <1>1, <1>3, Zenon DEF Handles
<1> QED BY <1>2, <1>3

-----------------------------------------------------------------------------
(* The inductive invariant, in parts *)

\* What initializeSensorList finds out, and nothing changes: handles are
\* unique, mSensors has the sensors with clear handles and no others, and only
\* those of one sub-HAL keep the flags for direct channels.
StaticInv ==
    /\ lists \in [SubHals -> SUBSET Info] /\ mDirectChannelSubHal \in SubHals \cup {-1}
    /\ \A i \in Hotplug : \A s \in lists[i] : s.handle \notin PlugClear
    /\ \A i \in SubHals : \A s, t \in lists[i] : s.handle = t.handle => s = t
    /\ \A s \in mSensors : \E i \in SubHals : \E t \in lists[i] :
         t.handle \in Clear /\ s = Entry(i, t.handle, t.direct /\ i = mDirectChannelSubHal)
    /\ \A i \in SubHals : \A t \in lists[i] :
         t.handle \in Clear => \E s \in mSensors : s.handle = setSubHalIndex(t.handle, i)

Modes == {"NORMAL", "DATA_INJECTION"}

BinderType == [at: {"idle", "dynamic", "clear", "callback", "subhals"}, next: SubHals]

\* Inside initialize, the sub-HALs before the next one are in normal mode, the
\* others where the proxy believes them to be.
ModeInv ==
    /\ mCurrentOperationMode \in Modes /\ subMode \in [SubHals -> Modes]
    /\ apart \subseteq SubHals /\ ready \subseteq SubHals /\ binder \in BinderType
    /\ stray = {}
    /\ \A i \in SubHals \ apart :
         subMode[i] = IF binder.at = "subhals" /\ i < binder.next THEN "NORMAL"
                                                                  ELSE mCurrentOperationMode

PlugType == [at: {"idle", "connect", "disconnect"}, sensors: SUBSET PlugEntries]

\* An announcement is about a sensor of its own sub-HAL; a sensor that has
\* been unplugged is not plugged.
PlugInv ==
    /\ plugged \in [SubHals -> SUBSET PlugHandles]
    /\ \A i \in SubHals \ Hotplug : plugged[i] = {}
    /\ plug \in [Hotplug -> PlugType]
    /\ mDynamicSensors \subseteq PlugEntries /\ known \subseteq PlugEntries
    /\ \A i \in Hotplug : plug[i].at = "idle" => plug[i].sensors = {}
    /\ \A i, j \in Hotplug, h \in PlugClear : PlugEntry(i, h) \in plug[j].sensors => i = j
    /\ \A i \in Hotplug, h \in PlugClear :
         plug[i].at = "disconnect" /\ PlugEntry(i, h) \in plug[i].sensors => h \notin plugged[i]

\* The framework and the proxy agree about a sensor that is not being
\* announced; of one that is, the proxy's map is ahead.
AgreedOn(i, h) ==
    IF PlugEntry(i, h) \in plug[i].sensors
    THEN PlugEntry(i, h) \in mDynamicSensors <=> plug[i].at = "connect"
    ELSE PlugEntry(i, h) \in mDynamicSensors <=> PlugEntry(i, h) \in known

AgreedInv ==
    binder.at # "callback"
      => \A i \in Hotplug, h \in PlugClear : setSubHalIndex(h, i) \in doubtful \/ AgreedOn(i, h)

Listed(i) == {s.handle : s \in lists[i]}

\* What is enabled can be disabled: it is in one of the maps, or doubtful.
Disablable(i, h) ==
    \/ setSubHalIndex(h, i) \in doubtful
    \/ binder.at \in {"idle", "dynamic"} /\ PlugEntry(i, h) \in mDynamicSensors
    \/ binder.at = "idle" /\ h \in Listed(i)

EnabledInv ==
    /\ enabled \subseteq SubHals \X Clear
    /\ \A i \in SubHals, h \in Clear :
         <<i, h>> \in enabled => h \in Has(i) /\ Disablable(i, h)

\* Direct reports are those of static sensors with the flags, or of dynamic
\* ones.
ReportInv ==
    /\ channel \in BOOLEAN /\ (reports # {} => channel)
    /\ \A r \in reports :
         /\ r.at = <<mDirectChannelSubHal, clearSubHalIndex(r.handle)>>
         /\ \/ \E s \in mSensors : s.direct /\ r.handle = s.handle
            \/ \E i \in Hotplug, h \in PlugClear : r.handle = setSubHalIndex(h, i)

-----------------------------------------------------------------------------
(* Operation modes *)

\* The places inside initialize.
LEMMA BinderMoves ==
    ASSUME NEW place \in {"idle", "dynamic", "clear", "callback", "subhals"}
    PROVE  [at |-> place, next |-> 0] \in BinderType
<1>1. 0 \in SubHals
    BY SubHalAssumption DEF SubHals
<1> QED BY <1>1 DEF BinderType

\* Every step keeps the modes agreed.
LEMMA ModeStep == ModeInv /\ [Next]_vars => ModeInv'
<1> SUFFICES ASSUME ModeInv, [Next]_vars PROVE ModeInv'
    OBVIOUS
<1>1. ASSUME UNCHANGED <<modeVars, ready, binder>> PROVE ModeInv'
    BY <1>1 DEF ModeInv, modeVars
<1>2. ASSUME NEW mode \in {"NORMAL", "DATA_INJECTION"}, setOperationMode(mode) PROVE ModeInv'
  <2>1. binder.at = "idle" /\ UNCHANGED <<ready, binder, stray>>
      BY <1>2 DEF setOperationMode, BinderIdle
  <2>2. CASE /\ subMode' = [i \in SubHals |-> mode]
             /\ apart' = {} /\ mCurrentOperationMode' = mode
      BY <2>1, <2>2 DEF ModeInv, Modes
  <2>3. ASSUME NEW f \in SubHals, NEW stuck \in SUBSET ((0 .. f - 1) \ {Own}),
               /\ subMode' = [i \in SubHals |-> IF i \in stuck THEN mode
                                ELSE IF i < f THEN mCurrentOperationMode ELSE subMode[i]]
               /\ apart' = stuck \cup {i \in apart : i >= f}
               /\ UNCHANGED mCurrentOperationMode
        PROVE  ModeInv'
    <3>1. subMode' \in [SubHals -> Modes]
        BY <2>3 DEF ModeInv, Modes
    <3>2. apart' \subseteq SubHals
      <4>1. 0 .. f - 1 \subseteq SubHals
          BY SubHalAssumption DEF SubHals
      <4>2. stuck \subseteq SubHals /\ apart \subseteq SubHals
          BY <4>1 DEF ModeInv
      <4> QED BY <2>3, <4>2, Zenon
    <3>3. ASSUME NEW i \in SubHals, i \notin apart' PROVE subMode'[i] = mCurrentOperationMode'
      <4>1. i \notin stuck /\ (i >= f => i \notin apart)
          BY <2>3, <3>3
      <4>2. i >= f => subMode[i] = mCurrentOperationMode
          BY <2>1, <4>1 DEF ModeInv
      <4>3. i < f \/ i >= f
          BY SubHalAssumption DEF SubHals
      <4> QED BY <2>3, <4>1, <4>2, <4>3
    <3> QED BY <2>1, <2>3, <3>1, <3>2, <3>3 DEF ModeInv
  <2> QED BY <1>2, <2>2, <2>3 DEF setOperationMode
<1>3. ASSUME NEW h, injectSensorData(h) PROVE ModeInv'
  <2>1. extractSubHalIndex(h) \in SubHals
      BY <1>3 DEF injectSensorData, Reaches, isSubHalIndexValid
  <2>2. /\ binder.at = "idle" /\ mCurrentOperationMode # "NORMAL"
        /\ UNCHANGED <<mCurrentOperationMode, subMode, apart, ready, binder>>
      BY <1>3 DEF injectSensorData, BinderIdle
  <2>3. extractSubHalIndex(h) \in apart \/ subMode[extractSubHalIndex(h)] # "NORMAL"
      BY <2>1, <2>2 DEF ModeInv
  <2>4. stray' = stray
      BY <1>3, <2>3 DEF injectSensorData
  <2> QED BY <2>2, <2>4 DEF ModeInv
<1>4. ASSUME NEW place \in {"dynamic", "clear", "callback"}, UNCHANGED <<modeVars, ready>>,
             BinderAt(place), binder.at # "subhals"
      PROVE  ModeInv'
    BY <1>4, BinderMoves DEF ModeInv, modeVars, BinderAt
<1>5. CASE initialize \/ disableDynamic \/ clearDynamic
    BY <1>4, <1>5 DEF initialize, disableDynamic, clearDynamic, BinderIdle
<1>6. CASE replaceCallback
  <2>1. binder.at = "callback" /\ UNCHANGED <<modeVars, ready>>
      BY <1>6 DEF replaceCallback
  <2>2. binder' = [at |-> "subhals", next |-> 0] /\ binder' \in BinderType
      BY <1>6, BinderMoves DEF replaceCallback, BinderAt
  <2>3. \A i \in SubHals : ~(i < 0)
      BY DEF SubHals
  <2> QED BY <2>1, <2>2, <2>3 DEF ModeInv, modeVars
<1>7. CASE initializeSubHal
  <2> DEFINE n == binder.next
  <2>1. binder.at = "subhals" /\ n \in SubHals /\ UNCHANGED stray
      BY <1>7 DEF initializeSubHal, ModeInv, BinderType
  <2>2. mCurrentOperationMode' = IF binder'.at = "idle" THEN "NORMAL" ELSE mCurrentOperationMode
      BY <1>7 DEF initializeSubHal
  <2>3. CASE /\ subMode' = [subMode EXCEPT ![n] = "NORMAL"]
             /\ apart' = apart \ {n} /\ ready' = ready \cup {n}
             /\ IF n = N - 1 THEN BinderAt("idle") ELSE binder' = [binder EXCEPT !.next = n + 1]
    <3>1. subMode' \in [SubHals -> Modes] /\ apart' \subseteq SubHals /\ ready' \subseteq SubHals
        BY <2>1, <2>3 DEF ModeInv, Modes
    <3>2. CASE n = N - 1
      <4>1. binder'.at = "idle" /\ binder' \in BinderType
          BY <2>3, <3>2, BinderMoves DEF BinderAt
      <4>2. \A i \in SubHals \ apart' : subMode'[i] = "NORMAL"
          BY <2>1, <2>3, <3>2, SubHalAssumption DEF ModeInv, SubHals
      <4> QED BY <2>1, <2>2, <3>1, <4>1, <4>2 DEF ModeInv, Modes
    <3>3. CASE n # N - 1
      <4>1. n + 1 \in SubHals /\ \A i \in SubHals : i < n + 1 <=> i < n \/ i = n
          BY <2>1, <3>3, SubHalAssumption DEF SubHals
      <4>2. binder' = [binder EXCEPT !.next = n + 1]
          BY <2>3, <3>3
      <4>3. binder' \in BinderType /\ binder'.at = "subhals" /\ binder'.next = n + 1
          BY <2>1, <4>1, <4>2 DEF ModeInv, BinderType
      <4>4. UNCHANGED mCurrentOperationMode
          BY <2>2, <4>3
      <4>5. ASSUME NEW i \in SubHals, i \notin apart'
            PROVE  subMode'[i] = IF i < n + 1 THEN "NORMAL" ELSE mCurrentOperationMode
          BY <2>1, <2>3, <4>1, <4>5 DEF ModeInv
      <4> QED BY <2>1, <3>1, <4>3, <4>4, <4>5 DEF ModeInv
    <3> QED BY <3>2, <3>3
  <2>4. CASE /\ apart' = apart \cup n .. N - 1 /\ BinderAt("idle") /\ UNCHANGED <<subMode, ready>>
    <3>1. binder'.at = "idle" /\ binder' \in BinderType
        BY <2>4, BinderMoves DEF BinderAt
    <3>2. apart' \subseteq SubHals
      <4>1. n .. N - 1 \subseteq SubHals
          BY <2>1, SubHalAssumption DEF SubHals
      <4> QED BY <2>4, <4>1, Zenon DEF ModeInv
    <3>3. \A i \in SubHals \ apart' : subMode'[i] = "NORMAL"
      <4>1. \A i \in SubHals \ apart' : i \notin apart /\ i < n
          BY <2>1, <2>4, SubHalAssumption DEF SubHals
      <4> QED BY <2>1, <2>4, <4>1 DEF ModeInv
    <3> QED BY <2>1, <2>2, <2>4, <3>1, <3>2, <3>3 DEF ModeInv, Modes
  <2> QED BY <1>7, <2>3, <2>4 DEF initializeSubHal
<1>8. CASE \E i \in Hotplug : \/ \E h \in PlugHandles : connect(i, h) \/ disconnect(i, h)
                              \/ tellConnected(i) \/ tellDisconnected(i)
    BY <1>1, <1>8 DEF connect, disconnect, tellConnected, tellDisconnected
<1>9. ASSUME NEW h, NEW e, activate(h, e) \/ configDirectReport(h, e) PROVE ModeInv'
    BY <1>1, <1>9 DEF activate, configDirectReport
<1>10. CASE registerDirectChannel \/ unregisterDirectChannel
    BY <1>1, <1>10 DEF registerDirectChannel, unregisterDirectChannel
<1>11. CASE UNCHANGED vars
    BY <1>1, <1>11 DEF vars
<1> QED BY <1>2, <1>3, <1>5, <1>6, <1>7, <1>8, <1>9, <1>10, <1>11 DEF Next

-----------------------------------------------------------------------------
(* The announcements of dynamic sensors *)

\* The sensor that is announced is the one that came or went, if any.
LEMMA DynamicType ==
    ASSUME NEW i \in Hotplug, NEW h \in PlugHandles
    PROVE  /\ Dynamic(i, h) \subseteq PlugEntries
           /\ \A j \in Hotplug, k \in PlugClear :
                PlugEntry(j, k) \in Dynamic(i, h) => j = i /\ k = h
<1>1. CASE h \in PlugClear
  <2>1. Dynamic(i, h) = {PlugEntry(i, h)}
      BY <1>1, DynamicSensor
  <2>2. PlugEntry(i, h) \in PlugEntries
      BY <1>1 DEF PlugEntries
  <2>3. ASSUME NEW j \in Hotplug, NEW k \in PlugClear, PlugEntry(j, k) = PlugEntry(i, h)
        PROVE  j = i /\ k = h
      BY <2>3, PlugEntryInjective
  <2> QED BY <2>1, <2>2, <2>3, Zenon
<1>2. CASE h \notin PlugClear
    BY <1>2, DynamicSensor, Zenon
<1> QED BY <1>1, <1>2

\* What a step of the thread of sub-HAL i does to plug, in general.
LEMMA PlugMoves ==
    ASSUME PlugInv, NEW i \in Hotplug, NEW place \in {"idle", "connect", "disconnect"},
           NEW S \in SUBSET PlugEntries,
           plug' = [plug EXCEPT ![i] = [at |-> place, sensors |-> S]]
    PROVE  /\ plug' \in [Hotplug -> PlugType]
           /\ plug'[i].at = place /\ plug'[i].sensors = S
           /\ \A j \in Hotplug : j # i => plug'[j] = plug[j]
<1>1. plug \in [Hotplug -> PlugType]
    BY DEF PlugInv
<1>2. [at |-> place, sensors |-> S] \in PlugType
    BY DEF PlugType
<1> QED BY <1>1, <1>2

\* Every step keeps what is said of announcements.
LEMMA PlugStep == ModeInv /\ PlugInv /\ [Next]_vars => PlugInv'
<1> SUFFICES ASSUME ModeInv, PlugInv, [Next]_vars PROVE PlugInv'
    OBVIOUS
<1>1. ASSUME UNCHANGED <<plugged, plug, mDynamicSensors, known>> PROVE PlugInv'
    BY <1>1 DEF PlugInv
<1>2. CASE \/ initialize \/ disableDynamic \/ registerDirectChannel \/ unregisterDirectChannel
           \/ UNCHANGED vars
    BY <1>1, <1>2 DEF initialize, disableDynamic, registerDirectChannel, unregisterDirectChannel,
       vars, plugVars
<1>3. ASSUME NEW h, NEW e, activate(h, e) \/ configDirectReport(h, e) \/ injectSensorData(h)
                           \/ setOperationMode(h)
      PROVE  PlugInv'
    BY <1>1, <1>3 DEF activate, configDirectReport, injectSensorData, setOperationMode, plugVars
<1>4. CASE clearDynamic
    BY <1>4 DEF clearDynamic, PlugInv
<1>5. CASE replaceCallback
    BY <1>5 DEF replaceCallback, PlugInv
<1>6. CASE initializeSubHal
  <2>1. /\ plugged' = plugged \/ plugged' = [plugged EXCEPT ![binder.next] = {}]
        /\ UNCHANGED <<plug, mDynamicSensors, known>>
      BY <1>6 DEF initializeSubHal
  <2>2. CASE plugged' = plugged
      BY <1>1, <2>1, <2>2
  <2>3. CASE plugged' = [plugged EXCEPT ![binder.next] = {}]
    <3>1. plugged' \in [SubHals -> SUBSET PlugHandles]
        BY <2>3 DEF PlugInv
    <3>2. \A i \in SubHals : plugged'[i] \subseteq plugged[i]
        BY <2>3 DEF PlugInv
    <3> QED BY <2>1, <3>1, <3>2, PlugPlaces DEF PlugInv
  <2> QED BY <2>1, <2>2, <2>3
<1>7. ASSUME NEW i \in Hotplug, NEW h \in PlugHandles, connect(i, h) PROVE PlugInv'
  <2> DEFINE D == Dynamic(i, h)
  <2>1. /\ D \subseteq PlugEntries
        /\ \A j \in Hotplug, k \in PlugClear : PlugEntry(j, k) \in D => j = i
      BY DynamicType
  <2>2. /\ plug' = [plug EXCEPT ![i] = [at |-> "connect", sensors |-> D]]
        /\ plugged' = [plugged EXCEPT ![i] = @ \cup {h}]
        /\ mDynamicSensors' = mDynamicSensors \cup D /\ UNCHANGED known
      BY <1>7 DEF connect
  <2> HIDE DEF D
  <2>3. /\ plug' \in [Hotplug -> PlugType] /\ plug'[i].at = "connect" /\ plug'[i].sensors = D
        /\ \A j \in Hotplug : j # i => plug'[j] = plug[j]
      BY <2>1, <2>2, PlugMoves
  <2>4. plugged' \in [SubHals -> SUBSET PlugHandles] /\ \A j \in SubHals : j # i => plugged'[j] = plugged[j]
      BY <2>2, PlugPlaces DEF PlugInv
  <2>5. \A j \in Hotplug, k \in PlugClear :
          plug'[j].at = "disconnect" /\ PlugEntry(j, k) \in plug'[j].sensors => k \notin plugged'[j]
      BY <2>3, <2>4, PlugPlaces DEF PlugInv
  <2>6. \A j, l \in Hotplug, k \in PlugClear : PlugEntry(j, k) \in plug'[l].sensors => j = l
      BY <2>1, <2>3 DEF PlugInv
  <2>7. \A j \in SubHals \ Hotplug : plugged'[j] = {}
      BY <2>4 DEF PlugInv
  <2>8. \A j \in Hotplug : plug'[j].at = "idle" => plug'[j].sensors = {}
      BY <2>3 DEF PlugInv
  <2>9. mDynamicSensors' \subseteq PlugEntries /\ known' \subseteq PlugEntries
      BY <2>1, <2>2 DEF PlugInv
  <2> QED BY <2>3, <2>4, <2>5, <2>6, <2>7, <2>8, <2>9 DEF PlugInv
<1>8. ASSUME NEW i \in Hotplug, NEW h \in PlugHandles, disconnect(i, h) PROVE PlugInv'
  <2> DEFINE D == Dynamic(i, h) \cap mDynamicSensors
  <2>1. /\ D \subseteq PlugEntries
        /\ \A j \in Hotplug, k \in PlugClear : PlugEntry(j, k) \in D => j = i /\ k = h
      BY DynamicType, Zenon
  <2>2. /\ plug' = [plug EXCEPT ![i] = [at |-> "disconnect", sensors |-> D]]
        /\ plugged' = [plugged EXCEPT ![i] = @ \ {h}]
        /\ mDynamicSensors' = mDynamicSensors \ D /\ UNCHANGED known
      BY <1>8 DEF disconnect
  <2> HIDE DEF D
  <2>3. /\ plug' \in [Hotplug -> PlugType] /\ plug'[i].at = "disconnect" /\ plug'[i].sensors = D
        /\ \A j \in Hotplug : j # i => plug'[j] = plug[j]
      BY <2>1, <2>2, PlugMoves
  <2>4. /\ plugged' \in [SubHals -> SUBSET PlugHandles] /\ h \notin plugged'[i]
        /\ \A j \in SubHals : plugged'[j] \subseteq plugged[j]
      BY <2>2, PlugPlaces DEF PlugInv
  <2>5. ASSUME NEW j \in Hotplug, NEW k \in PlugClear, plug'[j].at = "disconnect",
               PlugEntry(j, k) \in plug'[j].sensors
        PROVE  k \notin plugged'[j]
    <3>1. CASE j = i
        BY <2>1, <2>3, <2>4, <2>5, <3>1
    <3>2. CASE j # i
        BY <2>3, <2>4, <2>5, <3>2, PlugPlaces DEF PlugInv
    <3> QED BY <3>1, <3>2
  <2>6. \A j, l \in Hotplug, k \in PlugClear : PlugEntry(j, k) \in plug'[l].sensors => j = l
      BY <2>1, <2>3 DEF PlugInv
  <2>7. \A j \in SubHals \ Hotplug : plugged'[j] = {}
      BY <2>4 DEF PlugInv
  <2>8. \A j \in Hotplug : plug'[j].at = "idle" => plug'[j].sensors = {}
      BY <2>3 DEF PlugInv
  <2>9. mDynamicSensors' \subseteq PlugEntries /\ known' \subseteq PlugEntries
      BY <2>1, <2>2 DEF PlugInv
  <2> QED BY <2>3, <2>4, <2>5, <2>6, <2>7, <2>8, <2>9 DEF PlugInv
<1>9. ASSUME NEW i \in Hotplug, tellConnected(i) \/ tellDisconnected(i) PROVE PlugInv'
  <2>1. /\ plug' = [plug EXCEPT ![i] = [at |-> "idle", sensors |-> {}]]
        /\ known' \subseteq known \cup plug[i].sensors /\ UNCHANGED <<plugged, mDynamicSensors>>
      BY <1>9 DEF tellConnected, tellDisconnected
  <2>2. /\ plug' \in [Hotplug -> PlugType] /\ plug'[i].at = "idle" /\ plug'[i].sensors = {}
        /\ \A j \in Hotplug : j # i => plug'[j] = plug[j]
    <3>1. "idle" \in {"idle", "connect", "disconnect"} /\ {} \in SUBSET PlugEntries
        OBVIOUS
    <3> QED BY <2>1, <3>1, PlugMoves, Zenon
  <2>3. plug[i].sensors \subseteq PlugEntries
      BY DEF PlugInv, PlugType
  <2>4. known' \subseteq PlugEntries
      BY <2>1, <2>3 DEF PlugInv
  <2>5. \A j \in Hotplug : plug'[j] = plug[j] \/ (plug'[j].at = "idle" /\ plug'[j].sensors = {})
      BY <2>2
  <2>6. \A j \in Hotplug : plug'[j].at = "idle" => plug'[j].sensors = {}
      BY <2>5 DEF PlugInv
  <2>7. \A j, l \in Hotplug, k \in PlugClear : PlugEntry(j, k) \in plug'[l].sensors => j = l
      BY <2>5 DEF PlugInv
  <2>8. \A j \in Hotplug, k \in PlugClear :
          plug'[j].at = "disconnect" /\ PlugEntry(j, k) \in plug'[j].sensors => k \notin plugged'[j]
      BY <2>1, <2>5 DEF PlugInv
  <2> QED BY <2>1, <2>2, <2>4, <2>6, <2>7, <2>8 DEF PlugInv
<1> QED BY <1>2, <1>3, <1>4, <1>5, <1>6, <1>7, <1>8, <1>9 DEF Next

-----------------------------------------------------------------------------
(* Agreement about dynamic sensors *)

\* Handles of other sensors do not cease to be doubtful.
LEMMA StaysDoubtful ==
    ASSUME NEW S \in SUBSET PlugEntries, NEW i \in SubHals, NEW h \in Clear,
           setSubHalIndex(h, i) \in doubtful, PlugEntry(i, h) \notin S,
           doubtful' = doubtful \ Handles(S)
    PROVE  setSubHalIndex(h, i) \in doubtful'
<1>1. setSubHalIndex(h, i) \notin Handles(S)
    BY PlugHandle
<1> QED BY <1>1, Zenon

\* Every step keeps the agreement.
LEMMA AgreedStep == ModeInv /\ PlugInv /\ AgreedInv /\ [Next]_vars => AgreedInv'
<1> SUFFICES ASSUME ModeInv, PlugInv, AgreedInv, [Next]_vars, binder'.at # "callback",
                    NEW j \in Hotplug, NEW k \in PlugClear
             PROVE  setSubHalIndex(k, j) \in doubtful' \/ AgreedOn(j, k)'
    BY DEF AgreedInv
<1> DEFINE s == setSubHalIndex(k, j)
           e == PlugEntry(j, k)
           Goal == s \in doubtful' \/ AgreedOn(j, k)'
<1>0. j \in SubHals /\ k \in Clear /\ plug[j] \in PlugType
    BY PlugPlaces DEF PlugInv
<1>1. binder.at # "callback" => s \in doubtful \/ AgreedOn(j, k)
    BY DEF AgreedInv
<1>2. ASSUME UNCHANGED <<mDynamicSensors, plug, known, doubtful>>, binder.at # "callback" PROVE Goal
    BY <1>1, <1>2 DEF AgreedOn
<1>3. CASE initialize \/ disableDynamic \/ initializeSubHal
    BY <1>2, <1>3 DEF initialize, disableDynamic, initializeSubHal, BinderIdle, plugVars
<1>4. CASE registerDirectChannel \/ unregisterDirectChannel \/ UNCHANGED vars
    BY <1>2, <1>4 DEF registerDirectChannel, unregisterDirectChannel, vars, plugVars
<1>5. ASSUME NEW h, NEW d, activate(h, d) \/ configDirectReport(h, d) \/ injectSensorData(h)
                           \/ setOperationMode(h)
      PROVE  Goal
    BY <1>2, <1>5 DEF activate, configDirectReport, injectSensorData, setOperationMode, plugVars
<1>6. CASE clearDynamic
    BY <1>6 DEF clearDynamic, BinderAt
<1>7. CASE replaceCallback
  <2> DEFINE S == mDynamicSensors \cup UNION {plug[i].sensors : i \in Hotplug}
  <2>1. S \in SUBSET PlugEntries
      BY DEF PlugInv, PlugType
  <2>2. plug[j].sensors \subseteq S
      OBVIOUS
  <2>3. /\ Handles(S) \subseteq doubtful' /\ known' = {}
        /\ UNCHANGED <<mDynamicSensors, plug>>
      BY <1>7, Zenon DEF replaceCallback
  <2>4. mDynamicSensors \subseteq S
      OBVIOUS
  <2> HIDE DEF S
  <2>5. CASE e \in S
      BY <1>0, <2>1, <2>3, <2>5, PlugHandle
  <2>6. CASE e \notin S
      BY <2>2, <2>3, <2>4, <2>6 DEF AgreedOn
  <2> QED BY <2>5, <2>6
<1>8. ASSUME NEW i \in Hotplug, NEW h \in PlugHandles, connect(i, h) PROVE Goal
  <2> DEFINE D == Dynamic(i, h)
  <2>1. D \in SUBSET PlugEntries /\ (e \in D => j = i /\ k = h)
      BY DynamicType
  <2>2. /\ plug' = [plug EXCEPT ![i] = [at |-> "connect", sensors |-> D]] /\ plug[i].at = "idle"
        /\ mDynamicSensors' = mDynamicSensors \cup D /\ doubtful' = doubtful \ Handles(D)
        /\ UNCHANGED <<known, binder>>
      BY <1>8 DEF connect
  <2> HIDE DEF D
  <2>3. /\ plug'[i].at = "connect" /\ plug'[i].sensors = D
        /\ \A l \in Hotplug : l # i => plug'[l] = plug[l]
      BY <2>1, <2>2, PlugMoves
  <2>4. plug[i].sensors = {}
      BY <2>2 DEF PlugInv
  <2>5. CASE e \in D
      BY <2>1, <2>2, <2>3, <2>5 DEF AgreedOn
  <2>6. CASE e \notin D
    <3>1. s \in doubtful => s \in doubtful'
        BY <1>0, <2>1, <2>2, <2>6, StaysDoubtful
    <3>2. (e \in plug'[j].sensors <=> e \in plug[j].sensors) /\ (e \in plug[j].sensors => plug'[j] = plug[j])
        BY <2>3, <2>4, <2>6
    <3>3. e \in mDynamicSensors' <=> e \in mDynamicSensors
        BY <2>2, <2>6
    <3>4. AgreedOn(j, k) => AgreedOn(j, k)'
        BY <2>2, <3>2, <3>3 DEF AgreedOn
    <3> QED BY <1>1, <2>2, <3>1, <3>4
  <2> QED BY <2>5, <2>6
<1>9. ASSUME NEW i \in Hotplug, NEW h \in PlugHandles, disconnect(i, h) PROVE Goal
  <2> DEFINE D == Dynamic(i, h) \cap mDynamicSensors
  <2>1. D \in SUBSET PlugEntries /\ (e \in D => j = i /\ k = h)
      BY DynamicType
  <2>2. /\ plug' = [plug EXCEPT ![i] = [at |-> "disconnect", sensors |-> D]] /\ plug[i].at = "idle"
        /\ mDynamicSensors' = mDynamicSensors \ D /\ doubtful' = doubtful \ Handles(D)
        /\ UNCHANGED <<known, binder>>
      BY <1>9 DEF disconnect
  <2> HIDE DEF D
  <2>3. /\ plug'[i].at = "disconnect" /\ plug'[i].sensors = D
        /\ \A l \in Hotplug : l # i => plug'[l] = plug[l]
      BY <2>1, <2>2, PlugMoves
  <2>4. plug[i].sensors = {}
      BY <2>2 DEF PlugInv
  <2>5. CASE e \in D
      BY <2>1, <2>2, <2>3, <2>5 DEF AgreedOn
  <2>6. CASE e \notin D
    <3>1. s \in doubtful => s \in doubtful'
        BY <1>0, <2>1, <2>2, <2>6, StaysDoubtful
    <3>2. (e \in plug'[j].sensors <=> e \in plug[j].sensors) /\ (e \in plug[j].sensors => plug'[j] = plug[j])
        BY <2>3, <2>4, <2>6
    <3>3. e \in mDynamicSensors' <=> e \in mDynamicSensors
        BY <2>2, <2>6
    <3>4. AgreedOn(j, k) => AgreedOn(j, k)'
        BY <2>2, <3>2, <3>3 DEF AgreedOn
    <3> QED BY <1>1, <2>2, <3>1, <3>4
  <2> QED BY <2>5, <2>6
<1>10. ASSUME NEW i \in Hotplug, tellConnected(i) \/ tellDisconnected(i) PROVE Goal
  <2>1. /\ plug' = [plug EXCEPT ![i] = [at |-> "idle", sensors |-> {}]]
        /\ \/ plug[i].at = "connect" /\ known' = known \cup plug[i].sensors
           \/ plug[i].at = "disconnect" /\ known' = known \ plug[i].sensors
        /\ UNCHANGED <<binder, doubtful, mDynamicSensors>>
      BY <1>10 DEF tellConnected, tellDisconnected
  <2>2. /\ plug'[i].sensors = {} /\ \A l \in Hotplug : l # i => plug'[l] = plug[l]
    <3>1. "idle" \in {"idle", "connect", "disconnect"} /\ {} \in SUBSET PlugEntries
        OBVIOUS
    <3> QED BY <2>1, <3>1, PlugMoves, Zenon
  <2>3. e \in plug[i].sensors => j = i
      BY DEF PlugInv
  <2>4. CASE j = i
      BY <1>1, <2>1, <2>2, <2>4 DEF AgreedOn
  <2>5. CASE j # i
    <3>1. e \in known' <=> e \in known
        BY <2>1, <2>3, <2>5
    <3> QED BY <1>1, <2>1, <2>2, <2>5, <3>1 DEF AgreedOn
  <2> QED BY <2>4, <2>5
<1> QED BY <1>3, <1>4, <1>5, <1>6, <1>7, <1>8, <1>9, <1>10 DEF Next

-----------------------------------------------------------------------------
(* Enabled sensors *)

\* The sub-HALs and their lists are fixed.
LEMMA SensorsFixed == [Next]_vars => UNCHANGED sensorVars
    BY DEF Next, vars, setOperationMode, activate, injectSensorData, registerDirectChannel,
       unregisterDirectChannel, configDirectReport, initialize, disableDynamic, clearDynamic,
       replaceCallback, initializeSubHal, connect, disconnect, tellConnected, tellDisconnected

\* Disabling sensors by their handles disables those that are there.
LEMMA Disables ==
    ASSUME NEW hs, NEW i \in SubHals, NEW h \in Clear
    PROVE  /\ Activated(hs, FALSE) \subseteq enabled
           /\ setSubHalIndex(h, i) \in hs /\ h \in Has(i) => <<i, h>> \notin Activated(hs, FALSE)
<1> DEFINE places == {Route(g) : g \in {k \in hs : Reaches(k)}}
<1>1. Activated(hs, FALSE) = enabled \ places
    BY Zenon DEF Activated
<1>2. ASSUME setSubHalIndex(h, i) \in hs, h \in Has(i) PROVE <<i, h>> \in places
  <2>1. Reaches(setSubHalIndex(h, i)) /\ Route(setSubHalIndex(h, i)) = <<i, h>>
      BY <1>2, ReachesHome
  <2> QED BY <1>2, <2>1, Zenon
<1> HIDE DEF places
<1> QED BY <1>1, <1>2, Zenon

\* Enabling one adds nothing but its place.
LEMMA Enables ==
    ASSUME NEW i \in SubHals, NEW h \in Clear
    PROVE  Activated({setSubHalIndex(h, i)}, TRUE) \subseteq enabled \cup {<<i, h>>}
<1> DEFINE g == setSubHalIndex(h, i)
           places == {Route(f) : f \in {k \in {g} : Reaches(k)}}
<1>1. Activated({g}, TRUE) = enabled \cup places
    BY Zenon DEF Activated
<1>2. Route(g) = <<i, h>>
    BY ReachesHome
<1>3. places \subseteq {<<i, h>>}
  <2> HIDE DEF g
  <2> QED BY <1>2
<1> QED BY <1>1, <1>3, Zenon

\* A handle that the framework knows is a static or a dynamic sensor's.
LEMMA KnownHandle ==
    ASSUME StaticInv, PlugInv, NEW g \in Handles(mSensors \cup known)
    PROVE  \E i \in SubHals, h \in Clear :
             /\ g = setSubHalIndex(h, i)
             /\ h \in Listed(i) \/ (i \in Hotplug /\ h \in PlugClear /\ PlugEntry(i, h) \in known)
<1>1. PICK s \in mSensors \cup known : g = s.handle
    BY DEF Handles
<1>2. CASE s \in mSensors
  <2>1. PICK i \in SubHals : \E t \in lists[i] :
          t.handle \in Clear /\ s = Entry(i, t.handle, t.direct /\ i = mDirectChannelSubHal)
      BY <1>2 DEF StaticInv
  <2>2. PICK t \in lists[i] :
          t.handle \in Clear /\ s = Entry(i, t.handle, t.direct /\ i = mDirectChannelSubHal)
      BY <2>1
  <2>3. s.handle = setSubHalIndex(t.handle, i)
      BY <2>2, EntryFields
  <2>4. t.handle \in Listed(i)
      BY DEF Listed
  <2> QED BY <1>1, <2>2, <2>3, <2>4, Zenon
<1>3. CASE s \in known
  <2>1. s \in PlugEntries
      BY <1>3 DEF PlugInv
  <2>2. PICK i \in Hotplug, h \in PlugClear : s = PlugEntry(i, h)
      BY <2>1 DEF PlugEntries
  <2>3. s.handle = setSubHalIndex(h, i)
      BY <2>2, EntryFields DEF PlugEntry
  <2> QED BY <1>1, <1>3, <2>2, <2>3, PlugPlaces, Zenon
<1> QED BY <1>1, <1>2, <1>3

\* Every step keeps what is enabled such that a restart can disable it.
LEMMA EnabledStep ==
    StaticInv /\ ModeInv /\ PlugInv /\ AgreedInv /\ EnabledInv /\ [Next]_vars => EnabledInv'
<1> SUFFICES ASSUME StaticInv, ModeInv, PlugInv, AgreedInv, EnabledInv, [Next]_vars
             PROVE  EnabledInv'
    OBVIOUS
<1>0. \A i \in SubHals : /\ Has(i) = Listed(i) \cup plugged[i]
                         /\ Has(i)' = Listed(i) \cup plugged'[i] /\ Listed(i)' = Listed(i)
  <2>1. lists' = lists
      BY SensorsFixed DEF sensorVars
  <2> QED BY <2>1, Zenon DEF Has, Listed
<1>1. ASSUME enabled' \subseteq enabled, UNCHANGED <<plugged, mDynamicSensors, doubtful>>,
             \A i \in SubHals, h \in Clear :
               <<i, h>> \in enabled' /\ Disablable(i, h) => Disablable(i, h)'
      PROVE  EnabledInv'
    BY <1>0, <1>1 DEF EnabledInv
<1>2. ASSUME UNCHANGED <<enabled, plugged, mDynamicSensors, doubtful, binder>> PROVE EnabledInv'
    BY <1>0, <1>1, <1>2 DEF Disablable
<1>3. CASE registerDirectChannel \/ unregisterDirectChannel \/ UNCHANGED vars
    BY <1>2, <1>3 DEF registerDirectChannel, unregisterDirectChannel, vars, plugVars, useVars
<1>4. ASSUME NEW h, NEW d, configDirectReport(h, d) \/ injectSensorData(h) \/ setOperationMode(h)
      PROVE  EnabledInv'
    BY <1>2, <1>4 DEF configDirectReport, injectSensorData, setOperationMode, plugVars, useVars
<1>5. ASSUME NEW i \in Hotplug, tellConnected(i) \/ tellDisconnected(i) PROVE EnabledInv'
    BY <1>2, <1>5 DEF tellConnected, tellDisconnected, useVars
<1>6. ASSUME NEW g \in Handles(mSensors \cup known), NEW d \in BOOLEAN, activate(g, d)
      PROVE  EnabledInv'
  <2>1. /\ enabled' = Activated({g}, d) /\ binder.at = "idle" /\ Reaches(g)
        /\ UNCHANGED <<plugged, mDynamicSensors, doubtful, binder>>
      BY <1>6 DEF activate, BinderIdle, plugVars
  <2>2. PICK i \in SubHals, h \in Clear :
             /\ g = setSubHalIndex(h, i)
             /\ h \in Listed(i) \/ (i \in Hotplug /\ h \in PlugClear /\ PlugEntry(i, h) \in known)
      BY KnownHandle
  <2>3. h \in Has(i)
      BY <2>1, <2>2, ReachesHome
  <2>4. \A j \in SubHals, k \in Clear : Disablable(j, k) => Disablable(j, k)'
      BY <1>0, <2>1 DEF Disablable
  <2>5. CASE d = FALSE
      BY <1>1, <2>1, <2>4, <2>5, Disables
  <2>6. CASE d = TRUE
    <3>1. enabled' \subseteq enabled \cup {<<i, h>>}
        BY <2>1, <2>2, <2>6, Enables
    <3>2. Disablable(i, h)
      <4>1. CASE h \in Listed(i)
          BY <2>1, <4>1 DEF Disablable
      <4>2. CASE h \notin Listed(i)
        <5>1. i \in Hotplug /\ h \in PlugClear /\ PlugEntry(i, h) \in known /\ h \in plugged[i]
            BY <1>0, <2>2, <2>3, <4>2
        <5>2. setSubHalIndex(h, i) \in doubtful \/ AgreedOn(i, h)
            BY <2>1, <5>1 DEF AgreedInv
        <5>3. plug[i].at = "disconnect" => PlugEntry(i, h) \notin plug[i].sensors
            BY <5>1 DEF PlugInv
        <5>4. plug[i].at = "idle" => PlugEntry(i, h) \notin plug[i].sensors
            BY <5>1 DEF PlugInv
        <5>5. plug[i].at \in {"idle", "connect", "disconnect"}
            BY <5>1 DEF PlugInv, PlugType
        <5>6. AgreedOn(i, h) => PlugEntry(i, h) \in mDynamicSensors
            BY <5>1, <5>3, <5>4, <5>5 DEF AgreedOn
        <5> QED BY <2>1, <5>2, <5>6 DEF Disablable
      <4> QED BY <4>1, <4>2
    <3>3. \A j \in SubHals, k \in Clear : <<j, k>> \in enabled' => k \in Has(j) /\ Disablable(j, k)
      <4>1. ASSUME NEW j \in SubHals, NEW k \in Clear, <<j, k>> \in enabled'
            PROVE  k \in Has(j) /\ Disablable(j, k)
        <5>1. CASE <<j, k>> \in enabled
            BY <5>1 DEF EnabledInv
        <5>2. CASE <<j, k>> \notin enabled
          <6>1. <<j, k>> = <<i, h>>
              BY <3>1, <4>1, <5>2
          <6>2. j = i /\ k = h
              BY <6>1
          <6> QED BY <2>3, <3>2, <6>2
        <5> QED BY <5>1, <5>2
      <4> QED BY <4>1
    <3>4. \A j \in SubHals : Has(j)' = Has(j)
        BY <1>0, <2>1
    <3>5. enabled' \subseteq SubHals \X Clear
        BY <3>1 DEF EnabledInv
    <3> QED BY <2>4, <3>3, <3>4, <3>5 DEF EnabledInv
  <2> QED BY <2>5, <2>6
<1>7. CASE initialize
  <2>1. /\ enabled' = Activated(Handles(mSensors), FALSE) /\ binder.at = "idle"
        /\ binder'.at = "dynamic" /\ UNCHANGED <<plugged, mDynamicSensors, doubtful>>
      BY <1>7 DEF initialize, BinderIdle, BinderAt, plugVars
  <2>2. ASSUME NEW i \in SubHals, NEW h \in Clear, <<i, h>> \in enabled', Disablable(i, h)
        PROVE  Disablable(i, h)'
    <3>1. <<i, h>> \in enabled
        BY <2>1, <2>2, Disables
    <3>2. h \in Has(i)
        BY <3>1 DEF EnabledInv
    <3>3. setSubHalIndex(h, i) \notin Handles(mSensors)
        BY <2>1, <2>2, <3>2, Disables
    <3>4. h \notin Listed(i)
      <4>1. SUFFICES ASSUME h \in Listed(i) PROVE FALSE
          OBVIOUS
      <4>2. PICK t \in lists[i] : t.handle = h
          BY <4>1 DEF Listed
      <4>3. PICK s \in mSensors : s.handle = setSubHalIndex(h, i)
          BY <4>2 DEF StaticInv
      <4> QED BY <3>3, <4>3 DEF Handles
    <3> QED BY <2>1, <2>2, <3>4 DEF Disablable
  <2>3. enabled' \subseteq enabled
    <3>1. PICK i \in SubHals : TRUE
        BY SubHalAssumption
    <3>2. 0 \in Clear
        BY SubHalAssumption DEF Clear
    <3> QED BY <2>1, <3>1, <3>2, Disables
  <2> QED BY <1>1, <2>1, <2>2, <2>3
<1>8. CASE disableDynamic
  <2>1. /\ enabled' = Activated(Handles(mDynamicSensors), FALSE) /\ binder.at = "dynamic"
        /\ binder'.at = "clear" /\ UNCHANGED <<plugged, mDynamicSensors, doubtful>>
      BY <1>8 DEF disableDynamic, BinderAt, plugVars
  <2>2. ASSUME NEW i \in SubHals, NEW h \in Clear, <<i, h>> \in enabled', Disablable(i, h)
        PROVE  Disablable(i, h)'
    <3>1. <<i, h>> \in enabled
        BY <2>1, <2>2, Disables
    <3>2. h \in Has(i)
        BY <3>1 DEF EnabledInv
    <3>3. setSubHalIndex(h, i) \notin Handles(mDynamicSensors)
        BY <2>1, <2>2, <3>2, Disables
    <3>4. PlugEntry(i, h) \notin mDynamicSensors
        BY <3>3, PlugHandle DEF PlugInv
    <3> QED BY <2>1, <2>2, <3>4 DEF Disablable
  <2>3. enabled' \subseteq enabled
    <3>1. PICK i \in SubHals : TRUE
        BY SubHalAssumption
    <3>2. 0 \in Clear
        BY SubHalAssumption DEF Clear
    <3> QED BY <2>1, <3>1, <3>2, Disables
  <2> QED BY <1>1, <2>1, <2>2, <2>3
<1>9. CASE clearDynamic
  <2>1. binder.at = "clear" /\ UNCHANGED <<enabled, plugged, doubtful>>
      BY <1>9 DEF clearDynamic, useVars
  <2> QED BY <1>0, <2>1 DEF EnabledInv, Disablable
<1>10. CASE replaceCallback
  <2>1. UNCHANGED <<enabled, plugged>>
      BY <1>10 DEF replaceCallback, useVars
  <2>2. {setSubHalIndex(p[2], p[1]) : p \in enabled} \subseteq doubtful'
      BY <1>10, Zenon DEF replaceCallback
  <2>3. \A i \in SubHals, h \in Clear : <<i, h>> \in enabled => setSubHalIndex(h, i) \in doubtful'
    <3>1. ASSUME NEW i \in SubHals, NEW h \in Clear, <<i, h>> \in enabled
          PROVE  setSubHalIndex(h, i) \in doubtful'
      <4>1. setSubHalIndex(<<i, h>>[2], <<i, h>>[1]) \in doubtful'
          BY <2>2, <3>1, Zenon
      <4> QED BY <4>1
    <3> QED BY <3>1
  <2> QED BY <1>0, <2>1, <2>3 DEF EnabledInv, Disablable
<1>11. CASE initializeSubHal
  <2>1. binder.at = "subhals" /\ UNCHANGED <<mDynamicSensors, doubtful>>
      BY <1>11 DEF initializeSubHal
  <2>2. CASE UNCHANGED <<plugged, enabled>>
      BY <1>0, <2>1, <2>2 DEF EnabledInv, Disablable
  <2>3. CASE /\ plugged' = [plugged EXCEPT ![binder.next] = {}]
             /\ enabled' = {p \in enabled : p[1] # binder.next \/ p[2] \notin plugged[binder.next]}
    <3>1. ASSUME NEW i \in SubHals, NEW h \in Clear, <<i, h>> \in enabled'
          PROVE  h \in Has(i)' /\ Disablable(i, h)'
      <4>1. <<i, h>> \in enabled /\ (i # binder.next \/ h \notin plugged[binder.next])
          BY <2>3, <3>1
      <4>2. h \in Has(i) /\ Disablable(i, h)
          BY <4>1 DEF EnabledInv
      <4>3. i # binder.next => plugged'[i] = plugged[i]
          BY <2>3 DEF PlugInv
      <4> QED BY <1>0, <2>1, <4>1, <4>2, <4>3 DEF Disablable
    <3>2. enabled' \subseteq SubHals \X Clear
        BY <2>3 DEF EnabledInv
    <3> QED BY <3>1, <3>2 DEF EnabledInv
  <2> QED BY <1>11, <2>2, <2>3 DEF initializeSubHal, useVars
<1>12. ASSUME NEW i \in Hotplug, NEW h \in PlugHandles, connect(i, h) PROVE EnabledInv'
  <2> DEFINE D == Dynamic(i, h)
  <2>1. D \in SUBSET PlugEntries
      BY DynamicType
  <2>2. /\ h \notin plugged[i] /\ plugged' = [plugged EXCEPT ![i] = @ \cup {h}]
        /\ mDynamicSensors' = mDynamicSensors \cup D /\ doubtful' = doubtful \ Handles(D)
        /\ UNCHANGED <<enabled, binder>>
      BY <1>12 DEF connect, useVars
  <2>3. \A j \in SubHals, k \in Clear : PlugEntry(j, k) \in D => j = i /\ k = h /\ h \in PlugClear
    <3>1. h \in PlugClear => D = {PlugEntry(i, h)}
        BY DynamicSensor
    <3>2. h \notin PlugClear => D = {}
        BY DynamicSensor
    <3>3. \A j \in SubHals, k \in Clear : PlugEntry(j, k) = PlugEntry(i, h) => j = i /\ k = h
        BY PlugEntryInjective
    <3> QED BY <3>1, <3>2, <3>3
  <2> HIDE DEF D
  <2>4. ASSUME NEW j \in SubHals, NEW k \in Clear, <<j, k>> \in enabled
        PROVE  k \in Has(j)' /\ Disablable(j, k)'
    <3>1. k \in Has(j) /\ Disablable(j, k)
        BY <2>4 DEF EnabledInv
    <3>2. plugged[j] \subseteq plugged'[j]
        BY <2>2 DEF PlugInv
    <3>3. PlugEntry(j, k) \notin D
      <4>1. SUFFICES ASSUME j = i, k = h, h \in PlugClear PROVE FALSE
          BY <2>3
      <4>2. h \in Listed(i)
          BY <1>0, <2>2, <3>1, <4>1
      <4> QED BY <4>1, <4>2 DEF Listed, StaticInv
    <3>4. setSubHalIndex(k, j) \in doubtful => setSubHalIndex(k, j) \in doubtful'
        BY <2>1, <2>2, <3>3, StaysDoubtful
    <3> QED BY <1>0, <2>2, <3>1, <3>2, <3>4 DEF Disablable
  <2> QED BY <2>2, <2>4 DEF EnabledInv
<1>13. ASSUME NEW i \in Hotplug, NEW h \in PlugHandles, disconnect(i, h) PROVE EnabledInv'
  <2> DEFINE D == Dynamic(i, h) \cap mDynamicSensors
  <2>1. D \in SUBSET PlugEntries
      BY DynamicType
  <2>2. /\ plugged' = [plugged EXCEPT ![i] = @ \ {h}] /\ enabled' = enabled \ {<<i, h>>}
        /\ mDynamicSensors' = mDynamicSensors \ D /\ doubtful' = doubtful \ Handles(D)
        /\ UNCHANGED binder
      BY <1>13 DEF disconnect
  <2>3. \A j \in SubHals, k \in Clear : PlugEntry(j, k) \in D => j = i /\ k = h
    <3>1. h \in PlugClear => Dynamic(i, h) = {PlugEntry(i, h)}
        BY DynamicSensor
    <3>2. h \notin PlugClear => Dynamic(i, h) = {}
        BY DynamicSensor
    <3>3. \A j \in SubHals, k \in Clear : PlugEntry(j, k) = PlugEntry(i, h) => j = i /\ k = h
        BY PlugEntryInjective
    <3> QED BY <3>1, <3>2, <3>3
  <2> HIDE DEF D
  <2>4. ASSUME NEW j \in SubHals, NEW k \in Clear, <<j, k>> \in enabled'
        PROVE  k \in Has(j)' /\ Disablable(j, k)'
    <3>1. <<j, k>> \in enabled /\ ~(j = i /\ k = h)
        BY <2>2, <2>4
    <3>2. k \in Has(j) /\ Disablable(j, k)
        BY <3>1 DEF EnabledInv
    <3>3. k \in plugged[j] => k \in plugged'[j]
        BY <2>2, <3>1 DEF PlugInv
    <3>4. PlugEntry(j, k) \notin D
        BY <2>3, <3>1
    <3>5. setSubHalIndex(k, j) \in doubtful => setSubHalIndex(k, j) \in doubtful'
        BY <2>1, <2>2, <3>4, StaysDoubtful
    <3> QED BY <1>0, <2>2, <3>2, <3>3, <3>4, <3>5 DEF Disablable
  <2>5. enabled' \subseteq SubHals \X Clear
      BY <2>2 DEF EnabledInv
  <2> QED BY <2>4, <2>5 DEF EnabledInv
<1> QED BY <1>3, <1>4, <1>5, <1>6, <1>7, <1>8, <1>9, <1>10, <1>11, <1>12, <1>13 DEF Next

-----------------------------------------------------------------------------
(* Direct reports *)

\* Every step keeps the direct reports those of sensors that have the flags.
LEMMA ReportStep == StaticInv /\ PlugInv /\ ReportInv /\ [Next]_vars => ReportInv'
<1> SUFFICES ASSUME StaticInv, PlugInv, ReportInv, [Next]_vars PROVE ReportInv'
    OBVIOUS
<1>0. UNCHANGED <<mSensors, mDirectChannelSubHal>>
    BY SensorsFixed DEF sensorVars
<1>1. ASSUME channel' \in BOOLEAN, reports' # {} => channel', reports' \subseteq reports
      PROVE  ReportInv'
    BY <1>0, <1>1 DEF ReportInv
<1>2. ASSUME UNCHANGED <<channel, reports>> PROVE ReportInv'
    BY <1>1, <1>2 DEF ReportInv
<1>3. CASE initialize \/ disableDynamic \/ clearDynamic \/ replaceCallback \/ UNCHANGED vars
    BY <1>2, <1>3 DEF initialize, disableDynamic, clearDynamic, replaceCallback, vars, useVars,
       directVars
<1>4. ASSUME NEW h, NEW d, activate(h, d) \/ injectSensorData(h) \/ setOperationMode(h)
      PROVE  ReportInv'
    BY <1>2, <1>4 DEF activate, injectSensorData, setOperationMode, useVars, directVars
<1>5. ASSUME NEW i \in Hotplug, NEW h, connect(i, h) \/ tellConnected(i) \/ tellDisconnected(i)
      PROVE  ReportInv'
    BY <1>2, <1>5 DEF connect, tellConnected, tellDisconnected, useVars, directVars
<1>6. ASSUME NEW i, NEW h, disconnect(i, h) PROVE ReportInv'
  <2>1. UNCHANGED channel /\ reports' \subseteq reports
      BY <1>6 DEF disconnect
  <2> QED BY <1>1, <2>1 DEF ReportInv
<1>7. CASE registerDirectChannel
  <2>1. channel' = TRUE /\ reports' = reports
      BY <1>7 DEF registerDirectChannel
  <2> QED BY <1>1, <2>1
<1>8. ASSUME channel' = FALSE, reports' = {} PROVE ReportInv'
    BY <1>1, <1>8
<1>9. CASE unregisterDirectChannel
    BY <1>8, <1>9 DEF unregisterDirectChannel
<1>10. CASE initializeSubHal
    BY <1>2, <1>8, <1>10 DEF initializeSubHal, useVars, directVars
<1>11. CASE configDirectReport(-1, TRUE)
  <2>1. channel' = channel /\ reports' = {}
      BY <1>11 DEF configDirectReport
  <2> QED BY <1>1, <2>1 DEF ReportInv
<1>12. ASSUME NEW s \in mSensors \cup known, NEW stop \in BOOLEAN, s.direct,
              configDirectReport(s.handle, stop)
       PROVE  ReportInv'
  <2> DEFINE h == s.handle
             r == [handle |-> h, at |-> <<mDirectChannelSubHal, clearSubHalIndex(h)>>]
  <2>1. channel /\ channel' = channel /\ (reports' \subseteq reports \/ reports' = reports \cup {r})
      BY <1>12, Zenon DEF configDirectReport
  <2>2. r.handle = s.handle /\ r.at = <<mDirectChannelSubHal, clearSubHalIndex(r.handle)>>
      OBVIOUS
  <2> HIDE DEF h, r
  <2>3. \/ \E t \in mSensors : t.direct /\ r.handle = t.handle
        \/ \E i \in Hotplug, k \in PlugClear : r.handle = setSubHalIndex(k, i)
    <3>1. CASE s \in mSensors
        BY <1>12, <2>2, <3>1
    <3>2. CASE s \in known
      <4>1. s \in PlugEntries
          BY <3>2 DEF PlugInv
      <4>2. PICK i \in Hotplug, k \in PlugClear : s = PlugEntry(i, k)
          BY <4>1 DEF PlugEntries
      <4>3. s.handle = setSubHalIndex(k, i)
          BY <4>2, EntryFields DEF PlugEntry
      <4> QED BY <2>2, <4>3
    <3> QED BY <3>1, <3>2
  <2>4. CASE reports' \subseteq reports
      BY <1>1, <2>1, <2>4 DEF ReportInv
  <2>5. CASE reports' = reports \cup {r}
    <3>1. \A q \in reports' :
            /\ q.at = <<mDirectChannelSubHal, clearSubHalIndex(q.handle)>>
            /\ \/ \E t \in mSensors : t.direct /\ q.handle = t.handle
               \/ \E i \in Hotplug, k \in PlugClear : q.handle = setSubHalIndex(k, i)
        BY <2>2, <2>3, <2>5 DEF ReportInv
    <3> QED BY <1>0, <2>1, <3>1 DEF ReportInv
  <2> QED BY <2>1, <2>4, <2>5
<1> QED BY <1>3, <1>4, <1>5, <1>6, <1>7, <1>9, <1>10, <1>11, <1>12 DEF Next

-----------------------------------------------------------------------------
(* The initial states *)

\* initializeSensorList takes the sensors with clear handles, and leaves the
\* flags for direct channels to those of the first sub-HAL that has any.
LEMMA InitStatic == Init => StaticInv
<1> SUFFICES ASSUME Init PROVE StaticInv
    OBVIOUS
<1> DEFINE direct == {i \in SubHals : \E s \in Accepted(lists[i]) : s.direct}
           first == IF direct = {} THEN -1 ELSE Min(direct)
           OwnInfo == [handle |-> 1, direct |-> FALSE]
<1>1. PICK vendor \in [SubHals -> VendorLists] : lists = [vendor EXCEPT ![Own] = OwnList]
    BY DEF Init
<1>2. /\ mDirectChannelSubHal = first
      /\ mSensors = UNION {{Entry(i, s.handle, DirectFlag(i, s, first)) :
                              s \in Accepted(lists[i])} : i \in SubHals}
    BY Zenon DEF Init
<1>3. first \in SubHals \cup {-1}
  <2>1. direct \in SUBSET SubHals
      OBVIOUS
  <2> HIDE DEF direct
  <2> QED BY <2>1, MinOfSubHals
<1> HIDE DEF first, direct
<1>4. Own \in SubHals /\ Own \notin Hotplug /\ OwnInfo \in Info /\ OwnList = {OwnInfo}
    BY SubHalAssumption DEF Info, OwnList
<1>5. lists \in [SubHals -> SUBSET Info]
  <2>1. OwnList \in SUBSET Info
      BY <1>4
  <2>2. vendor \in [SubHals -> SUBSET Info]
      BY SubHalAssumption
  <2> HIDE DEF OwnInfo
  <2> QED BY <1>1, <2>1, <2>2
<1>6. lists[Own] = {OwnInfo} /\ \A i \in SubHals : i # Own => lists[i] \in VendorLists
    BY <1>1, <1>4
<1>7. \A i \in SubHals : \A t \in lists[i] : t.handle \in Nat
    BY <1>5 DEF Info
<1>8. \A i \in SubHals : Accepted(lists[i]) = {t \in lists[i] : t.handle \in Clear}
  <2>1. \A g \in Nat : subHalIndexIsClear(g) <=> g \in Clear
      BY SubHalAssumption DEF subHalIndexIsClear, Clear
  <2> QED BY <1>7, <2>1 DEF Accepted
<1>9. \A i \in Hotplug : \A s \in lists[i] : s.handle \notin PlugClear
  <2>1. SUFFICES ASSUME NEW i \in Hotplug, NEW s \in lists[i], s.handle \in PlugClear PROVE FALSE
      OBVIOUS
  <2>2. lists[i] \in VendorLists
      BY <1>4, <1>6, PlugPlaces
  <2>3. s.handle \in PlugHandles /\ s.handle < Base
      BY <2>1, SubHalAssumption DEF PlugClear, Clear
  <2> QED BY <2>2, <2>3, HandleAssumption
<1>10. \A i \in SubHals : \A s, t \in lists[i] : s.handle = t.handle => s = t
  <2>1. SUFFICES ASSUME NEW i \in SubHals, NEW s \in lists[i], NEW t \in lists[i],
                        s.handle = t.handle
                 PROVE  s = t
      OBVIOUS
  <2>2. CASE i = Own
      BY <1>6, <2>2
  <2>3. CASE i # Own
      BY <1>6, <2>1, <2>3, HandleAssumption
  <2> QED BY <2>2, <2>3
<1>11. \A s \in mSensors : \E i \in SubHals : \E t \in lists[i] :
         t.handle \in Clear /\ s = Entry(i, t.handle, t.direct /\ i = mDirectChannelSubHal)
  <2>1. SUFFICES ASSUME NEW s \in mSensors
                 PROVE  \E i \in SubHals : \E t \in lists[i] :
                          t.handle \in Clear /\ s = Entry(i, t.handle, t.direct /\ i = first)
      BY <1>2
  <2>2. PICK i \in SubHals : s \in {Entry(i, t.handle, DirectFlag(i, t, first)) : t \in Accepted(lists[i])}
      BY <1>2
  <2>3. PICK t \in Accepted(lists[i]) : s = Entry(i, t.handle, DirectFlag(i, t, first))
      BY <2>2
  <2>4. t \in lists[i] /\ t.handle \in Clear
      BY <1>8
  <2> QED BY <2>3, <2>4, Zenon DEF DirectFlag
<1>12. \A i \in SubHals : \A t \in lists[i] :
         t.handle \in Clear => \E s \in mSensors : s.handle = setSubHalIndex(t.handle, i)
  <2>1. SUFFICES ASSUME NEW i \in SubHals, NEW t \in lists[i], t.handle \in Clear
                 PROVE  \E s \in mSensors : s.handle = setSubHalIndex(t.handle, i)
      OBVIOUS
  <2> DEFINE s == Entry(i, t.handle, DirectFlag(i, t, first))
  <2>2. t \in Accepted(lists[i])
      BY <1>8, <2>1
  <2>3. s.handle = setSubHalIndex(t.handle, i)
      BY EntryFields
  <2>4. s \in mSensors
      BY <1>2, <2>2
  <2> QED BY <2>3, <2>4, Zenon
<1> QED BY <1>2, <1>3, <1>5, <1>9, <1>10, <1>11, <1>12 DEF StaticInv

\* The parts of the invariant together.
SubHalInv == StaticInv /\ ModeInv /\ PlugInv /\ AgreedInv /\ EnabledInv /\ ReportInv

\* Before the first call of the framework.
LEMMA InitInv == Init => SubHalInv
<1> SUFFICES ASSUME Init PROVE SubHalInv
    OBVIOUS
<1>1. StaticInv
    BY InitStatic
<1>2. ModeInv
  <2>1. binder = [at |-> "idle", next |-> 0] /\ binder \in BinderType
      BY BinderMoves DEF Init
  <2> QED BY <2>1 DEF Init, ModeInv, Modes
<1>3. PlugInv
  <2>1. [at |-> "idle", sensors |-> {}] \in PlugType
      BY DEF PlugType
  <2>2. plug = [i \in Hotplug |-> [at |-> "idle", sensors |-> {}]]
      BY DEF Init
  <2>3. plug \in [Hotplug -> PlugType]
      BY <2>1, <2>2
  <2>4. \A i \in Hotplug : plug[i].at = "idle" /\ plug[i].sensors = {}
      BY <2>2
  <2>5. plugged = [i \in SubHals |-> {}] /\ mDynamicSensors = {} /\ known = {}
      BY DEF Init
  <2> QED BY <2>3, <2>4, <2>5 DEF PlugInv
<1>4. AgreedInv
    BY DEF Init, AgreedInv, AgreedOn
<1>5. EnabledInv
    BY DEF Init, EnabledInv
<1>6. ReportInv
  <2>1. channel \in BOOLEAN /\ reports = {}
      BY Zenon DEF Init
  <2> QED BY <2>1 DEF ReportInv
<1> QED BY <1>1, <1>2, <1>3, <1>4, <1>5, <1>6 DEF SubHalInv

\* The fixed part stays true.
LEMMA StaticStep == StaticInv /\ [Next]_vars => StaticInv'
<1> SUFFICES ASSUME StaticInv, [Next]_vars PROVE StaticInv'
    OBVIOUS
<1>1. UNCHANGED <<lists, mSensors, mDirectChannelSubHal>>
    BY SensorsFixed DEF sensorVars
<1> QED BY <1>1 DEF StaticInv

\* All parts hold in every state; the proof of each step needs the others.
LEMMA SubHalSafe == Spec => []SubHalInv
<1>1. SubHalInv /\ [Next]_vars => SubHalInv'
    BY StaticStep, ModeStep, PlugStep, AgreedStep, EnabledStep, ReportStep, Zenon DEF SubHalInv
<1> QED BY InitInv, <1>1, PTL DEF Spec

-----------------------------------------------------------------------------
(* The theorems *)

\* In every order of changes of mode, refusals half way, restarts and failed
\* initializations, the sub-HALs that did not refuse are in the proxy's mode,
\* and no injected data reaches one in normal mode.
THEOREM ModesSafe == Spec => []ModesAgree
<1>1. SubHalInv => ModesAgree
    BY DEF SubHalInv, ModeInv, ModesAgree, BinderIdle
<1> QED BY SubHalSafe, <1>1, PTL

\* The framework and the proxy agree about every dynamic sensor whose
\* announcement is over and did not meet a restart, however the threads of the
\* sub-HALs and the binder thread interleave.
THEOREM AgreementSafe == Spec => []DynamicAgreed
<1>1. SubHalInv => DynamicAgreed
  <2> SUFFICES ASSUME SubHalInv, NEW i \in Hotplug, NEW h \in PlugClear, binder.at # "callback",
                      plug[i].at = "idle", setSubHalIndex(h, i) \notin doubtful
               PROVE  setSubHalIndex(h, i) \in Handles(mDynamicSensors)
                        <=> setSubHalIndex(h, i) \in Handles(known)
      BY PlugPlaces DEF DynamicAgreed
  <2>1. plug[i].sensors = {} /\ AgreedOn(i, h)
      BY DEF SubHalInv, PlugInv, AgreedInv
  <2>2. PlugEntry(i, h) \in mDynamicSensors <=> PlugEntry(i, h) \in known
      BY <2>1 DEF AgreedOn
  <2>3. i \in SubHals /\ h \in Clear
      BY PlugPlaces
  <2>4. mDynamicSensors \in SUBSET PlugEntries /\ known \in SUBSET PlugEntries
      BY DEF SubHalInv, PlugInv
  <2> QED BY <2>2, <2>3, <2>4, PlugHandle
<1> QED BY SubHalSafe, <1>1, PTL

\* After disableAllSensors nothing is enabled but sensors whose announcement
\* met an earlier restart.
THEOREM RestartSafe == Spec => []RestartDisables
<1>1. SubHalInv => RestartDisables
  <2> SUFFICES ASSUME SubHalInv, binder.at \in {"clear", "callback", "subhals"}, NEW p \in enabled
               PROVE  setSubHalIndex(p[2], p[1]) \in doubtful
      BY DEF RestartDisables
  <2>1. PICK i \in SubHals, h \in Clear : p = <<i, h>>
      BY DEF SubHalInv, EnabledInv
  <2>2. Disablable(i, h) /\ binder.at \notin {"idle", "dynamic"}
      BY <2>1 DEF SubHalInv, EnabledInv
  <2>3. setSubHalIndex(h, i) \in doubtful
      BY <2>2 DEF Disablable
  <2> QED BY <2>1, <2>3
<1> QED BY SubHalSafe, <1>1, PTL

\* A static sensor, by its place.
LEMMA StaticSensor ==
    ASSUME StaticInv, NEW s \in mSensors
    PROVE  \E i \in SubHals, h \in Clear :
             /\ s.handle = setSubHalIndex(h, i) /\ s.home = <<i, h>> /\ h \in Listed(i)
             /\ s.direct => i = mDirectChannelSubHal
<1>1. PICK i \in SubHals : \E t \in lists[i] :
        t.handle \in Clear /\ s = Entry(i, t.handle, t.direct /\ i = mDirectChannelSubHal)
    BY DEF StaticInv
<1>2. PICK t \in lists[i] :
        t.handle \in Clear /\ s = Entry(i, t.handle, t.direct /\ i = mDirectChannelSubHal)
    BY <1>1
<1>3. s.handle = setSubHalIndex(t.handle, i) /\ s.home = <<i, t.handle>>
    BY <1>2, EntryFields
<1>4. t.handle \in Listed(i)
    BY DEF Listed
<1>5. s.direct => i = mDirectChannelSubHal
    BY <1>2 DEF Entry
<1> QED BY <1>2, <1>3, <1>4, <1>5, Zenon

\* Two static sensors of one place are the same.
LEMMA StaticUnique ==
    ASSUME StaticInv, NEW s \in mSensors, NEW u \in mSensors, s.handle = u.handle
    PROVE  s = u
<1>1. PICK i \in SubHals : \E t \in lists[i] :
        t.handle \in Clear /\ s = Entry(i, t.handle, t.direct /\ i = mDirectChannelSubHal)
    BY DEF StaticInv
<1>2. PICK t \in lists[i] :
        t.handle \in Clear /\ s = Entry(i, t.handle, t.direct /\ i = mDirectChannelSubHal)
    BY <1>1
<1>3. PICK j \in SubHals : \E v \in lists[j] :
        v.handle \in Clear /\ u = Entry(j, v.handle, v.direct /\ j = mDirectChannelSubHal)
    BY DEF StaticInv
<1>4. PICK v \in lists[j] :
        v.handle \in Clear /\ u = Entry(j, v.handle, v.direct /\ j = mDirectChannelSubHal)
    BY <1>3
<1>5. s.handle = setSubHalIndex(t.handle, i) /\ u.handle = setSubHalIndex(v.handle, j)
    BY <1>2, <1>4, EntryFields
<1>6. i = j /\ t.handle = v.handle
    BY <1>2, <1>4, <1>5, HandleInjective
<1>7. t = v
    BY <1>6 DEF StaticInv
<1> QED BY <1>2, <1>4, <1>6, <1>7, Zenon

\* The types, from the parts.
LEMMA SubHalTypes == SubHalInv => TypeOK
<1> SUFFICES ASSUME SubHalInv PROVE TypeOK
    OBVIOUS
<1>1. lists \in [SubHals -> SUBSET Info] /\ mDirectChannelSubHal \in SubHals \cup {-1}
    BY DEF SubHalInv, StaticInv
<1>2. /\ mCurrentOperationMode \in Modes /\ subMode \in [SubHals -> Modes]
      /\ apart \subseteq SubHals /\ stray \subseteq SubHals /\ ready \subseteq SubHals
      /\ binder \in BinderType
    BY DEF SubHalInv, ModeInv
<1>3. \A i \in SubHals : plugged[i] \subseteq PlugHandles /\ (i \notin Hotplug => plugged[i] = {})
    BY DEF SubHalInv, PlugInv
<1>4. \A i \in Hotplug : plug[i].at \in {"idle", "connect", "disconnect"}
    BY DEF SubHalInv, PlugInv, PlugType
<1>5. channel \in BOOLEAN /\ (reports # {} => channel)
    BY DEF SubHalInv, ReportInv
<1>6. ASSUME NEW p \in enabled PROVE p[1] \in SubHals /\ p[2] \in Has(p[1])
  <2>1. PICK i \in SubHals, h \in Clear : p = <<i, h>>
      BY DEF SubHalInv, EnabledInv
  <2>2. h \in Has(i)
      BY <2>1 DEF SubHalInv, EnabledInv
  <2> QED BY <2>1, <2>2
<1> QED BY <1>1, <1>2, <1>3, <1>4, <1>5, <1>6 DEF TypeOK, Modes, BinderType

\* Every handle that the framework holds leads to the sensor it was given for
\* and to no other, for any number of sub-HALs and any lists, and direct
\* reports of static sensors go to the one sub-HAL that serves them.
THEOREM RoutingSafe == Spec => []RoutedHome
<1>1. SubHalInv => RoutedHome
  <2> SUFFICES ASSUME SubHalInv PROVE RoutedHome
      OBVIOUS
  <2>0. StaticInv /\ PlugInv /\ ReportInv /\ TypeOK
      BY SubHalTypes DEF SubHalInv
  <2>1. ASSUME NEW s \in mDynamicSensors \cup known
        PROVE  \E i \in Hotplug, h \in PlugClear :
                 s = PlugEntry(i, h) /\ s.handle = setSubHalIndex(h, i) /\ s.home = <<i, h>>
    <3>1. PICK i \in Hotplug, h \in PlugClear : s = PlugEntry(i, h)
        BY <2>0 DEF PlugInv, PlugEntries
    <3>2. s.handle = setSubHalIndex(h, i) /\ s.home = <<i, h>>
        BY <3>1, EntryFields DEF PlugEntry
    <3> QED BY <3>1, <3>2
  <2>2. ASSUME NEW s \in mSensors \cup mDynamicSensors \cup known PROVE Route(s.handle) = s.home
    <3>1. PICK i \in SubHals, h \in Clear : s.handle = setSubHalIndex(h, i) /\ s.home = <<i, h>>
        BY <2>0, <2>1, StaticSensor, PlugPlaces
    <3> QED BY <3>1, ReachesHome
  <2>3. ASSUME NEW i \in Hotplug, NEW h \in PlugClear, NEW s \in mSensors,
               s.handle = setSubHalIndex(h, i)
        PROVE  FALSE
    <3>1. PICK j \in SubHals, k \in Clear : s.handle = setSubHalIndex(k, j) /\ k \in Listed(j)
        BY <2>0, StaticSensor
    <3>2. j = i /\ k = h
        BY <2>3, <3>1, HandleInjective, PlugPlaces
    <3> QED BY <2>0, <3>1, <3>2 DEF StaticInv, Listed
  <2>4. ASSUME NEW s \in mSensors \cup mDynamicSensors, NEW t \in mSensors \cup mDynamicSensors,
               s.handle = t.handle
        PROVE  s = t
    <3>1. CASE s \in mSensors /\ t \in mSensors
        BY <2>0, <2>4, <3>1, StaticUnique
    <3>2. CASE s \in mDynamicSensors /\ t \in mDynamicSensors
      <4>1. PICK i \in Hotplug, h \in PlugClear :
              s = PlugEntry(i, h) /\ s.handle = setSubHalIndex(h, i)
          BY <2>1, <3>2
      <4>2. PICK j \in Hotplug, k \in PlugClear :
              t = PlugEntry(j, k) /\ t.handle = setSubHalIndex(k, j)
          BY <2>1, <3>2
      <4>3. i = j /\ h = k
          BY <2>4, <4>1, <4>2, HandleInjective, PlugPlaces
      <4> QED BY <4>1, <4>2, <4>3
    <3>3. CASE s \in mSensors /\ t \in mDynamicSensors
        BY <2>1, <2>3, <2>4, <3>3
    <3>4. CASE s \in mDynamicSensors /\ t \in mSensors
        BY <2>1, <2>3, <2>4, <3>4
    <3> QED BY <3>1, <3>2, <3>3, <3>4
  <2>5. ASSUME NEW r \in reports, NEW s \in mSensors, r.handle = s.handle PROVE r.at = s.home
    <3>1. r.at = <<mDirectChannelSubHal, clearSubHalIndex(s.handle)>>
        BY <2>0, <2>5 DEF ReportInv
    <3>2. s.direct
      <4>1. PICK t \in mSensors : t.direct /\ r.handle = t.handle
          BY <2>0, <2>3, <2>5 DEF ReportInv
      <4>2. s = t
          BY <2>0, <2>5, <4>1, StaticUnique
      <4> QED BY <4>1, <4>2
    <3>3. PICK i \in SubHals, h \in Clear :
             s.handle = setSubHalIndex(h, i) /\ s.home = <<i, h>> /\ i = mDirectChannelSubHal
        BY <2>0, <3>2, StaticSensor
    <3>4. clearSubHalIndex(s.handle) = h
        BY <3>3, RouteBack
    <3> QED BY <3>1, <3>3, <3>4
  <2> QED BY <2>0, <2>2, <2>4, <2>5 DEF RoutedHome
<1> QED BY SubHalSafe, <1>1, PTL

=============================================================================
