--------------------------- MODULE ThermalSliders ---------------------------
(***************************************************************************)
(* The three threshold sliders of DeviceExtras.java.  Moving one pushes    *)
(* the others out of the way; every value is stored at once, and the       *)
(* limiter reads the stored values.  A slider refuses nothing: setValue    *)
(* brings a value into the slider's range.                                 *)
(***************************************************************************)
EXTENDS ThermalThresholds

VARIABLES warm, high, critical

sliders == <<warm, high, critical>>

\* The ranges and the defaults that res/xml/main.xml gives the sliders.
WarmMax == 60
HighMax == 61
CriticalMax == 62

SlidersInit == warm = TEMP_DEFAULT[1] /\ high = TEMP_DEFAULT[2] /\ critical = TEMP_DEFAULT[3]

\* SeekBarPreference.setValue (external)
setValue(value, max) == Larger(TEMP_MIN, Smaller(max, value))

\* Mutant: only the neighbour is pushed.
moveWarm_neighbour(value) ==
    /\ warm' = value
    /\ high' = IF high <= value THEN setValue(value + 1, HighMax) ELSE high
    /\ UNCHANGED critical

\* onPreferenceChange, one branch per slider
moveWarm(value) ==
    /\ warm' = value
    /\ high' = IF high <= value THEN setValue(value + 1, HighMax) ELSE high
    /\ critical' = IF critical <= high' THEN setValue(high' + 1, CriticalMax) ELSE critical

moveHigh(value) ==
    /\ high' = value
    /\ warm' = IF warm >= value THEN setValue(value - 1, WarmMax) ELSE warm
    /\ critical' = IF critical <= value THEN setValue(value + 1, CriticalMax) ELSE critical

moveCritical(value) ==
    /\ critical' = value
    /\ high' = IF high >= value THEN setValue(value - 1, HighMax) ELSE high
    /\ warm' = IF warm >= high' THEN setValue(high' - 1, WarmMax) ELSE warm

SlidersNext ==
    \/ \E v \in TEMP_MIN .. WarmMax : moveWarm(v)
    \/ \E v \in TEMP_MIN .. HighMax : moveHigh(v)
    \/ \E v \in TEMP_MIN .. CriticalMax : moveCritical(v)

SlidersSpec == SlidersInit /\ [][SlidersNext]_sliders

-----------------------------------------------------------------------------
(* Properties *)

\* However the sliders push each other they stay in their ranges and in
\* order, and two of them meet only at the lower end (DeviceExtras.java
\* 99-124, main.xml 52-80).
SlidersSorted ==
    /\ warm \in TEMP_MIN .. WarmMax
    /\ high \in TEMP_MIN .. HighMax
    /\ critical \in TEMP_MIN .. CriticalMax
    /\ warm < high \/ (warm = high /\ high = TEMP_MIN)
    /\ high < critical \/ (high = critical /\ critical = TEMP_MIN)

\* The sliders' texts ("Light throttling starts at %1$d C") are true of the
\* state that a reading leads to, in every position but two: sliders that
\* met at the lower end, and a high threshold of 61, which the limiter takes
\* for 60 (ThermalLimiter.java 316-332, 430-461, strings.xml 44-46).
StateAsShown ==
    warm < high /\ high < critical /\ high <= TEMP_MAX
      => \A t \in 0 .. 80 :
           LET s == ThermalState(10 * t, getThresholds(sliders))
           IN  /\ s >= 1 <=> t >= warm
               /\ s >= 2 <=> t >= high
               /\ s = 3 <=> t >= critical

=============================================================================
