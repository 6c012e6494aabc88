------------------------- MODULE MCChargingControl -------------------------
(* Two threads, so that a second one can start before the first has ended.   *)
(* The phone lies on a pad that is online, warm, or is plugged into a fast   *)
(* charger there, and hot: so a report, or a restart of the service,         *)
(* switches between all the tables, the wired one's other table being in use *)
(* until its type is read.  Past a table lies the first limit, or a number   *)
(* that is in no table.                                                      *)
EXTENDS ChargingControl

SuppliesDef ==
    {[status |-> "OTHER", usb |-> "none", wls |-> TRUE, temp |-> 35000],
     [status |-> "CHARGING", usb |-> "pps", wls |-> TRUE, temp |-> 48000]}
=============================================================================
