-------------------------- MODULE ChargingControl --------------------------
(***************************************************************************)
(* charging/charging-control.cpp: the health service's callback starts and *)
(* stops detached threads that write the charging current's limit by the   *)
(* temperature and the kind of charger.  The callback runs on the only     *)
(* binder thread and shares plain bools with the threads: its writes to    *)
(* them, and the calls of a thread that read them, are steps of their own  *)
(* (one call reads its two flags in one step).  A read that fails makes    *)
(* stoi throw, which ends the process; init starts it again.               *)
(***************************************************************************)
EXTENDS Integers, Sequences, FiniteSets

CONSTANTS
    Threads,        \* names for the limitCharge threads (a bound)
    Supplies,       \* what the phone may be connected to, and how warm it is
    Memory          \* what an index from past the end of the limits reads (external)

ASSUME ChargingAssumption ==
    /\ IsFiniteSet(Threads) /\ Memory \subseteq Int
    /\ Supplies \subseteq [status: {"CHARGING", "OTHER"}, usb: {"none", "pps", "qc"},
                            wls: BOOLEAN, temp: Nat]

VARIABLES
    mStatus, usbChgActive, wlsChgActive, usingPps, enableChgLimit,
    binder,         \* where the callback is
    limiter,        \* the threads: location and what the loop has read
    fcc,            \* the limit in BATTERY_SCENARIO_FCC
    supply          \* the battery's status, the charger, the temperature in
                    \* thousandths of a degree (external)

charger == <<usbChgActive, wlsChgActive, usingPps>>
chargingVars == <<mStatus, charger, enableChgLimit, binder, limiter, fcc, supply>>

\* The tables.
CHG_VOLT_TBL ==
    <<9000, 8500, 8000, 7500, 7000, 6500, 6000, 5500, 5000, 4500, 4000, 3500, 3000, 2500,
      2400, 2000, 1600, 1500, 1200, 1000, 500, 0>>
TempThresholds ==
    [pps |-> <<35000, 37000, 39000, 41000, 43000, 48000>>,
     qc |-> <<35000, 37000, 39000, 41000, 48000>>,
     wls |-> <<35000, 41000, 48000>>, none |-> <<>>]
VoltLimits ==
    [pps |-> <<4, 6, 10, 12, 15, 21>>, qc |-> <<8, 12, 15, 16, 21>>,
     wls |-> <<15, 19, 21>>, none |-> <<>>]
Chargers == DOMAIN VoltLimits

\* get_charge_tempThresholds, get_charge_voltLimits: which table the flags
\* call for, now.
Charger ==
    CASE usbChgActive /\ usingPps -> "pps"
      [] usbChgActive /\ ~usingPps -> "qc"
      [] ~usbChgActive /\ wlsChgActive -> "wls"
      [] OTHER -> "none"

\* get_charge_temp: the sensor of an active charger, else 0.
get_charge_temp == IF usbChgActive \/ wlsChgActive THEN supply.temp ELSE 0

\* The loop over the thresholds: how many it passes, and the limit.
Passed(thresholds, t) ==
    Cardinality({i \in DOMAIN thresholds : \A j \in 1 .. i : t >= thresholds[j]})

Limit(limits, n) == CHG_VOLT_TBL[1 + (IF n = 0 THEN 0 ELSE limits[n])]

\* What may be read as a limit.
Anything == {CHG_VOLT_TBL[i] : i \in DOMAIN CHG_VOLT_TBL} \cup Memory

Free == [at |-> "free", last |-> 0, temp |-> 0, by |-> "none", steps |-> 0]

ChargingType ==
    /\ mStatus \in {"none", "CHARGING", "OTHER"}
    /\ usbChgActive \in BOOLEAN /\ wlsChgActive \in BOOLEAN /\ usingPps \in BOOLEAN
    /\ enableChgLimit \in BOOLEAN
    /\ binder \in {"idle", "usb", "wls", "type"}
    /\ limiter \in [Threads -> [at: {"free", "loop", "temp", "table", "sleep"},
                                last: Anything, temp: Nat, by: Chargers, steps: 0 .. 6]]
    /\ fcc \in Anything
    /\ supply \in Supplies

\* The service has registered its callback.
ChargingInit ==
    /\ mStatus = "none" /\ enableChgLimit = FALSE
    /\ usbChgActive = FALSE /\ wlsChgActive = FALSE /\ usingPps = FALSE
    /\ binder = "idle" /\ limiter = [t \in Threads |-> Free]
    /\ fcc = 9000
    /\ supply \in Supplies

-----------------------------------------------------------------------------
(* healthInfoChanged *)

\* A report whose status is new.
healthInfoChanged ==
    /\ binder = "idle" /\ supply.status # mStatus
    /\ supply.status = "CHARGING" => \E t \in Threads : limiter[t] = Free     \* the bound
    /\ mStatus' = supply.status
    /\ binder' = "usb"
    /\ UNCHANGED <<charger, enableChgLimit, limiter, fcc, supply>>

readUsb ==
    /\ binder = "usb"
    /\ usbChgActive' = (supply.usb # "none")
    /\ binder' = "wls"
    /\ UNCHANGED <<mStatus, wlsChgActive, usingPps, enableChgLimit, limiter, fcc, supply>>

readWls ==
    /\ binder = "wls"
    /\ wlsChgActive' = supply.wls
    /\ binder' = "type"
    /\ UNCHANGED <<mStatus, usbChgActive, usingPps, enableChgLimit, limiter, fcc, supply>>

\* Charging: the kind of the charger, enableChgLimit, then a thread (nothing
\* in between waits).
startLimit ==
    /\ binder = "type" /\ mStatus = "CHARGING" /\ \E t \in Threads : limiter[t] = Free
    /\ usingPps' = (usbChgActive /\ supply.usb = "pps")
    /\ enableChgLimit' = TRUE
    /\ LET t == CHOOSE u \in Threads : limiter[u] = Free      \* the names do not matter
       IN  limiter' = [limiter EXCEPT ![t].at = "loop"]
    /\ binder' = "idle"
    /\ UNCHANGED <<mStatus, usbChgActive, wlsChgActive, fcc, supply>>

\* Mutant: the threads are not told.
stopLimit_forgets ==
    /\ binder = "type" /\ mStatus # "CHARGING"
    /\ usingPps' = FALSE
    /\ binder' = "idle"
    /\ UNCHANGED <<mStatus, usbChgActive, wlsChgActive, enableChgLimit, limiter, fcc, supply>>

\* Not charging: stop.
stopLimit ==
    /\ binder = "type" /\ mStatus # "CHARGING"
    /\ enableChgLimit' = FALSE /\ usingPps' = FALSE
    /\ binder' = "idle"
    /\ UNCHANGED <<mStatus, usbChgActive, wlsChgActive, limiter, fcc, supply>>

Callback == healthInfoChanged \/ readUsb \/ readWls \/ startLimit \/ stopLimit

-----------------------------------------------------------------------------
(* limitCharge *)

\* The loop's condition, the limit in force, then get_charge_temp.
readTemp(t) ==
    /\ limiter[t].at = "loop"
    /\ \/ /\ ~enableChgLimit
          /\ limiter' = [limiter EXCEPT ![t] = Free]
       \/ /\ enableChgLimit
          /\ limiter' = [limiter EXCEPT ![t].at = "temp", ![t].last = fcc,
                                        ![t].temp = get_charge_temp]
    /\ UNCHANGED <<mStatus, charger, enableChgLimit, binder, fcc, supply>>

\* The thresholds, and how many of them the temperature passes.
readThresholds(t) ==
    /\ limiter[t].at = "temp"
    /\ limiter' = [limiter EXCEPT ![t].at = "table", ![t].by = Charger,
                                  ![t].steps = Passed(TempThresholds[Charger], limiter[t].temp)]
    /\ UNCHANGED <<mStatus, charger, enableChgLimit, binder, fcc, supply>>

\* The limits, then the index, by the thresholds passed.  Past the end of the
\* limits, which the flags may have shortened, the index is what the memory
\* holds, and the limit what the memory holds there.
InTable(t) == limiter[t].steps <= Len(VoltLimits[Charger])

\* Mutant: the limit of the first step is taken whatever the temperature.
NewLimits_first(t) ==
    IF InTable(t) THEN {Limit(VoltLimits[Charger], IF limiter[t].steps > 0 THEN 1 ELSE 0)}
                  ELSE Memory

\* Mutant: the limit of the threshold before the one that was passed last.
NewLimits_before(t) ==
    LET n == limiter[t].steps
    IN  IF InTable(t) THEN {Limit(VoltLimits[Charger], IF n > 0 THEN n - 1 ELSE 0)} ELSE Memory

NewLimits(t) ==
    IF InTable(t) THEN {Limit(VoltLimits[Charger], limiter[t].steps)} ELSE Memory

\* The limit is written if it is another one than at the start of the round.
writeLimit(t) ==
    /\ limiter[t].at = "table"
    /\ \E new \in NewLimits(t) : fcc' = IF new # limiter[t].last THEN new ELSE fcc
    /\ limiter' = [limiter EXCEPT ![t] = [Free EXCEPT !.at = "sleep"]]
    /\ UNCHANGED <<mStatus, charger, enableChgLimit, binder, supply>>

\* write_value fails, and nobody looks.
writeFails(t) ==
    /\ limiter[t].at = "table"
    /\ \E new \in NewLimits(t) : new # limiter[t].last
    /\ limiter' = [limiter EXCEPT ![t] = [Free EXCEPT !.at = "sleep"]]
    /\ UNCHANGED <<mStatus, charger, enableChgLimit, binder, fcc, supply>>

\* After CHG_LIMIT_INTERVAL.
afterSleep(t) ==
    /\ limiter[t].at = "sleep"
    /\ limiter' = [limiter EXCEPT ![t] = IF enableChgLimit THEN [Free EXCEPT !.at = "loop"]
                                         ELSE Free]
    /\ UNCHANGED <<mStatus, charger, enableChgLimit, binder, fcc, supply>>

limitCharge(t) ==
    readTemp(t) \/ readThresholds(t) \/ writeLimit(t) \/ writeFails(t) \/ afterSleep(t)

-----------------------------------------------------------------------------
\* stoi throws, or the index past the table faults; init starts the service
\* again (external).
Crash ==
    /\ \/ binder \in {"usb", "wls"}
       \/ \E t \in Threads : limiter[t].at = "loop" \/ (limiter[t].at = "table" /\ ~InTable(t))
    /\ mStatus' = "none" /\ enableChgLimit' = FALSE
    /\ usbChgActive' = FALSE /\ wlsChgActive' = FALSE /\ usingPps' = FALSE
    /\ binder' = "idle" /\ limiter' = [t \in Threads |-> Free]
    /\ UNCHANGED <<fcc, supply>>

\* The charger, the battery's status or the temperature changes (external).
Replug ==
    /\ supply' \in Supplies
    /\ UNCHANGED <<mStatus, charger, enableChgLimit, binder, limiter, fcc>>

ChargingNext ==
    \/ Callback
    \/ \E t \in Threads : limitCharge(t)
    \/ Crash \/ Replug

\* The health service keeps reporting, the callback and the threads run; the
\* kernel does not refuse every write.
ChargingFairness ==
    /\ WF_chargingVars(Callback)
    /\ \A t \in Threads : WF_chargingVars(limitCharge(t)) /\ SF_chargingVars(writeLimit(t))

ChargingSpec == ChargingInit /\ [][ChargingNext]_chargingVars

ChargingFairSpec == ChargingSpec /\ ChargingFairness

-----------------------------------------------------------------------------
(* Properties *)

\* What a charger at a temperature is limited to.
Proper(c, t) == Limit(VoltLimits[c], Passed(TempThresholds[c], t))

\* A change of the limit ends a round, and sets what the charger and the
\* temperature that the round has read call for.
ProperStep ==
    fcc' # fcc =>
      \E t \in Threads :
        /\ limiter[t].at = "table" /\ limiter'[t].at = "sleep"
        /\ limiter[t].by = Charger => fcc' = Proper(Charger, limiter[t].temp)

\* Every change of the limit is the end of a round, and sets the limit of the
\* charger and for the temperature that the round has read, however rounds of
\* overlapping threads, the callback's writes to the flags, crashes and failed
\* writes interleave.  The exception is a round under which the callback
\* exchanged the tables: it has the thresholds of one charger and the limits of
\* another (175-191), and what it writes may be in no table.  (With this, every
\* variable keeps its type.)
RoundsAreProper == []ChargingType /\ [][ProperStep]_chargingVars

\* Once nothing changes any more, the limit becomes that of the charger the
\* service believes in (none from 48 degrees on), and stays: however many
\* threads a quick change of the status or a crash has left or ended, whatever
\* a round wrote that read past its table, and although a round compares with
\* a limit another thread has since replaced (171-199, 205-224).
Quiet == UNCHANGED <<supply.temp, charger, enableChgLimit, mStatus, binder>>
LimitSettles ==
    <>[][Quiet]_chargingVars
      => <>[](enableChgLimit /\ Charger # "none"
                => fcc = Proper(Charger, supply.temp) /\ (supply.temp >= 48000 => fcc = 0))

\* When charging ends for good, every thread ends, those that overlapped
\* because the status changed within one sleep too (171, 196-199, 226).
ThreadsEnd ==
    <>[](supply.status = "OTHER") => <>[](\A t \in Threads : limiter[t] = Free)

=============================================================================
