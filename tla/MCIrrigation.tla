---------------------------- MODULE MCIrrigation ----------------------------
(* Instances of Irrigation for TLC: a minimum of one litre, presses of two *)
(* litres.  Either days of two hours, the second of them for irrigation,   *)
(* with both modes and a maximum of two litres; or one hour that is always *)
(* for irrigation, with a maximum that settings move between two litres    *)
(* and three.                                                              *)
EXTENDS Irrigation

MCHoursPerDay == 2
MCAlways == 1
MCDaysPerMonth == 3
MCIrrigationHours == {1}
MCMidnight == {0}
MCErasedStamp == -1
MCMinima == {1}
MCMaximum == {2}
MCMaxima == {2, 3}
MCAmounts == {2}
MCHandlers == {"button", "irrigation", "rules", "valve", "message"}
MCPulses == {0, 1}
MCDrips == {0}
MCDry == {"dry"}
MCNoReadings == {}
MCHourly == {"HOURLY"}
MCBothTypes == {"HOURLY", "SENSOR"}
=============================================================================
