--------------------------- MODULE MCWaterAccount ---------------------------
(* Instances of WaterAccount for TLC: three days of two hours, so that a   *)
(* run passes two midnights, in months of two days, so that an outage may  *)
(* end on the day of the month it began; irrigation begins at midnight or  *)
(* in the second hour.                                                     *)
EXTENDS WaterAccount

MCHoursPerDay == 2
MCDaysPerMonth == 2
MCMovingHour == {0, 1}
MCErasedStamp == -2
MCMaxOutage == 2
MCPulses == {0, 1}
MCDrips == {0, 1}
MCNoDrips == {0}
MCLitresBound == 1
MCDaysBound == 2
=============================================================================
