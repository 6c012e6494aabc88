------------------------- MODULE ThermalThresholds -------------------------
(***************************************************************************)
(* The arithmetic of ThermalLimiter.java: from what is stored and what the *)
(* battery's file holds to the thermal state.  Temperatures are tenths of  *)
(* a degree Celsius, stored thresholds whole degrees.                      *)
(***************************************************************************)
EXTENDS Integers

TEMP_MIN == 35
TEMP_MAX == 60

\* TEMP_DEFAULT_WARM, _HIGH and _CRITICAL: warm, high and critical.
TEMP_DEFAULT == <<40, 43, 45>>

\* STATE_NORMAL .. STATE_CRITICAL
States == 0 .. 3

Smaller(a, b) == IF a <= b THEN a ELSE b
Larger(a, b) == IF a >= b THEN a ELSE b

\* Mutant: the critical threshold is only brought into its range.
getThresholds_crossed(stored) ==
    LET warm == Larger(TEMP_MIN, Smaller(TEMP_MAX, stored[1]))
        high == Larger(warm + 1, Smaller(TEMP_MAX, stored[2]))
        critical == Smaller(TEMP_MAX, stored[3])
    IN  <<10 * warm, 10 * high, 10 * critical>>

\* Whatever is stored, each threshold is brought into its range and above the
\* one before it.
getThresholds(stored) ==
    LET warm == Larger(TEMP_MIN, Smaller(TEMP_MAX, stored[1]))
        high == Larger(warm + 1, Smaller(TEMP_MAX, stored[2]))
        critical == Larger(high + 1, Smaller(TEMP_MAX + 2, stored[3]))
    IN  <<10 * warm, 10 * high, 10 * critical>>

\* What the battery's file can hold (external): it may be unreadable, and a
\* line need not be a number.
Files(values) == [readable: BOOLEAN, number: BOOLEAN, value: values]

\* A file that cannot be read reads "0".
readOneLine(file) ==
    IF file.readable THEN [number |-> file.number, value |-> file.value]
    ELSE [number |-> TRUE, value |-> 0]

\* A reading in hundredths is scaled down; one that is no number, or out of
\* range, counts as 0.
getBatteryTemperature(file) ==
    LET line == readOneLine(file)
        temp == IF line.value > 1000 THEN line.value \div 10 ELSE line.value
    IN  IF line.number /\ temp \in 0 .. 800 THEN temp ELSE 0

\* The first part of adjustFrequencies.
ThermalState(temperature, thresholds) ==
    IF temperature >= thresholds[3] THEN 3
    ELSE IF temperature >= thresholds[2] THEN 2
    ELSE IF temperature >= thresholds[1] THEN 1
    ELSE 0

=============================================================================
