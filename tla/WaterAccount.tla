---------------------------- MODULE WaterAccount ----------------------------
(***************************************************************************)
(* The account the Shield keeps of the water of the day: the flow meter    *)
(* that counts it (igh_water_flow_meter.cpp, on the timer thread), the     *)
(* copy in EEPROM that outlives a restart (igh_eeprom.cpp) and the time    *)
(* keeper that starts a new count each day and enables irrigation from     *)
(* its hour on (igh_time_keeper.cpp, in the main loop).                    *)
(*                                                                         *)
(* The rest of the Shield is an environment here: one step per pass of the *)
(* main loop may open or close the valve or ask for a reset, the timer     *)
(* thread may open the valve at any time and power may fail between any    *)
(* two steps.  Irrigation puts the real handlers in its place, and is      *)
(* shown to do nothing to the account that this environment may not do.    *)
(***************************************************************************)
EXTENDS Integers

CONSTANTS
  HoursPerDay,     (* hours of a day, numbered from 0 *)
  DaysPerMonth,    (* days of a month: Time.day() tells no more apart *)
  IrrigationHours, (* the values settings give irrigation_hr, on the clock or not *)
  Handlers,        (* places in a pass: the handlers after the time keeper *)
  StoreOrders,     (* the orders of two stores a build may choose: see flag_first *)
  ErasedStamp,     (* the day that erased bytes at SYSTEM_NV_DAY stand for *)
  MaxOutage,       (* the longest the power stays away, in days *)
  Pulses,          (* litres metered in a second with the valve open *)
  Drips,           (* litres metered in a second with the valve commanded closed *)
  LitresBound,     (* bound on the litres counted in a day *)
  DaysBound        (* bound on the days of a run *)

ASSUME AccountAssumption ==
  /\ HoursPerDay \in Nat \ {0}
  /\ DaysPerMonth \in Nat \ {0}
  /\ IrrigationHours \subseteq Nat
  /\ IrrigationHours # {}
  /\ "button" \in Handlers
  /\ Handlers \cap {"time", "zero", "write"} = {}
  /\ StoreOrders \subseteq BOOLEAN
  /\ ErasedStamp \in -DaysPerMonth .. -1
  /\ MaxOutage \in Nat
  /\ Pulses \subseteq Nat
  /\ Drips \subseteq Nat
  /\ LitresBound \in Nat
  /\ DaysBound \in Nat

VARIABLES
  total_dispensed,      (* total_water_dispensed_Liters *)
  water_flow,           (* current_valve_open_water_flow *)
  update_nv,            (* update_water_flow_nv: a write to EEPROM is due *)
  reset_water_flow,     (* a RESET command is waiting for the flow meter *)
  valve_state,          (* current_valve_ctrl.valve_state *)
  midnight_reset_done,
  enabled,              (* igh_irrigation_enabled *)
  enable_flag,          (* enable_irrigation_flag *)
  day_watch_validated,
  irrigation_hr,
  pc,                   (* where the main loop is *)
  nv_water,             (* EEPROM: SYSTEM_NV_WATER_STORE_ADDRESS *)
  nv_day,               (* EEPROM: the day of the time at SYSTEM_NV_DAY *)
  day, hour,            (* the wall clock *)
  time_valid,           (* Time.isValid() *)
  flag_first,           (* the build stores update_water_flow_nv before the total *)
  passed,               (* the time keeper has run since the hour changed *)
  count_day,            (* history: the day of the oldest litre in total_dispensed *)
  nv_count_day,         (* history: the day of the oldest litre in nv_water *)
  lapse,                (* history: what kept a reset from total_dispensed, or "none" *)
  nv_lapse              (* history: what kept a reset from nv_water *)

meter   == <<total_dispensed, water_flow, update_nv, reset_water_flow>>
keeper  == <<midnight_reset_done, enabled, enable_flag, day_watch_validated>>
stored  == <<nv_water, nv_day, nv_count_day, nv_lapse>>
clock   == <<day, hour, time_valid, flag_first>>
accountVars == <<meter, valve_state, keeper, irrigation_hr, pc, stored, clock,
                 passed, count_day, lapse>>

(* The places of a pass of the main loop: the time keeper, the two inside  *)
(* it where the flow service may run, and the handlers after it, the       *)
(* button's first.                                                         *)
Places == {"time", "zero", "write"} \cup Handlers

DayOfMonth(d) == d % DaysPerMonth

(* How an old count may outlive the reset that was to wipe it.  "midnight":*)
(* a day began without a pass that resets, as no hour is before the one of *)
(* irrigation or none is after it.  "month": the stamp is of the same day  *)
(* of another month.  "overtaken": a pass of the meter between the two     *)
(* stores of a reset made its write, with the old total; "revived": a      *)
(* restart has taken that total up.                                        *)
Lapses == {"none", "midnight", "month", "revived"}

LapsedUnless(kept, what) == IF kept = "none" THEN what ELSE kept

(* A Shield that was never enabled, or yesterday or today, and holds no    *)
(* water.                                                                  *)
Init ==
  /\ total_dispensed = 0 /\ water_flow = 0
  /\ update_nv = FALSE /\ reset_water_flow = FALSE
  /\ valve_state = "CLOSE"
  /\ midnight_reset_done = FALSE
  /\ enabled = FALSE /\ enable_flag = FALSE
  /\ day_watch_validated = FALSE
  /\ irrigation_hr \in IrrigationHours
  /\ pc = "time"
  /\ nv_water = 0
  /\ nv_day \in {ErasedStamp, -1, 0}
  /\ day = 0 /\ hour \in 0 .. HoursPerDay - 1
  /\ time_valid \in BOOLEAN
  /\ flag_first \in StoreOrders
  /\ passed = FALSE
  /\ count_day = 0 /\ nv_count_day = 0
  /\ lapse = "none" /\ nv_lapse = "none"

-----------------------------------------------------------------------------
(* igh_water_flow_meter_service, once a second on the timer thread: do a   *)
(* requested reset, count the second's litres, and note or make the write  *)
(* to EEPROM that is due once the valve has closed.                        *)

Counted == IF reset_water_flow THEN 0 ELSE total_dispensed

CountedSince == IF Counted = 0 THEN day ELSE count_day

(* Mutant for TypeOK: the litres are taken off.                            *)
AddedBackwards(litres) == Counted - litres

Added(litres) == Counted + litres

(* Is a write due after this pass?  (Mutant for DueWriteIsMade: a pass     *)
(* with the valve closed leaves the write to the next.)                    *)
DueAfterKept == valve_state = "OPEN" \/ update_nv

DueAfter == valve_state = "OPEN"

WritesNv == reset_water_flow \/ (valve_state = "CLOSE" /\ update_nv)

(* Mutant for NvNeverOverstates: a reset forgets the copy in EEPROM.       *)
StoredAfterRamOnly(litres) ==
  IF WritesNv /\ ~reset_water_flow THEN Added(litres) ELSE nv_water

StoredAfter(litres) ==
  IF reset_water_flow THEN 0 ELSE IF WritesNv THEN Added(litres) ELSE nv_water

LapseAfter == IF reset_water_flow THEN "none" ELSE lapse

FlowService(litres) ==
  /\ Counted + litres <= LitresBound /\ water_flow + litres <= LitresBound
  /\ reset_water_flow' = FALSE
  /\ total_dispensed' = Added(litres)
  /\ count_day' = CountedSince
  /\ update_nv' = DueAfter
  /\ water_flow' = IF valve_state = "OPEN" THEN water_flow + litres ELSE water_flow
  /\ nv_water' = StoredAfter(litres)
  /\ nv_count_day' = IF WritesNv THEN CountedSince ELSE nv_count_day
  /\ lapse' = LapseAfter
  /\ nv_lapse' = IF ~WritesNv THEN nv_lapse
                 ELSE IF pc = "zero" /\ ~reset_water_flow THEN "overtaken" ELSE LapseAfter
  /\ UNCHANGED <<nv_day, valve_state, keeper, irrigation_hr, pc, clock, passed>>

MeterRuns ==
  \/ valve_state = "OPEN" /\ \E litres \in Pulses : FlowService(litres)
  \/ valve_state = "CLOSE" /\ \E litres \in Drips : FlowService(litres)

-----------------------------------------------------------------------------
(* igh_time_keeper_churn.  A new count (igh_water_flow_meter_reset_nv)     *)
(* marks the write as due, zeroes the total and writes EEPROM; the flow    *)
(* service may run in between.  Neither variable is volatile, so the build *)
(* may store them in either order.  In the order of the text the service   *)
(* may meet the due write before the total is zeroed, and then makes it    *)
(* with the old total and takes the flag down.                             *)

ZeroCount ==
  /\ update_nv' = TRUE
  /\ \/ /\ flag_first
        /\ pc' = "zero"
        /\ UNCHANGED <<total_dispensed, count_day, lapse>>
     \/ /\ ~flag_first
        /\ total_dispensed' = 0
        /\ count_day' = day
        /\ lapse' = "none"
        /\ pc' = "write"
  /\ UNCHANGED <<stored, passed>>

ZeroTotal ==
  /\ pc = "zero"
  /\ total_dispensed' = 0
  /\ count_day' = day
  /\ lapse' = "none"
  /\ pc' = "write"
  /\ UNCHANGED <<water_flow, update_nv, reset_water_flow, valve_state, keeper, irrigation_hr,
                 stored, clock, passed>>

(* The count goes on, and with it what should have been wiped.             *)
KeepCount(kept) ==
  /\ pc' = "button"
  /\ passed' = TRUE
  /\ lapse' = LapsedUnless(lapse, kept)
  /\ nv_lapse' = LapsedUnless(nv_lapse, kept)
  /\ UNCHANGED <<total_dispensed, count_day, update_nv, nv_water, nv_count_day>>

(* Is it the first pass of a new day, in which the note or the check of an *)
(* earlier day still stands?                                               *)
DayBeganKept ==
  hour = 0 /\ ~passed /\ (midnight_reset_done \/ day_watch_validated)

(* midnight_reset_done after a pass before the hour (mutant for            *)
(* NoSecondReset: the reset is not noted).                                 *)
ResetNotedNever == midnight_reset_done

ResetNoted == TRUE

NotYetTime ==
  /\ pc = "time" /\ time_valid /\ hour < irrigation_hr
  /\ midnight_reset_done' = ResetNoted
  /\ enabled' = FALSE
  /\ enable_flag' = FALSE
  /\ \/ ~midnight_reset_done /\ ZeroCount
     \/ /\ midnight_reset_done
        /\ KeepCount(IF DayBeganKept THEN "midnight" ELSE "none")
        /\ UNCHANGED nv_day
  /\ UNCHANGED <<water_flow, reset_water_flow, valve_state, day_watch_validated,
                 irrigation_hr, clock>>

(* From its hour on irrigation is enabled; the first pass after a restart  *)
(* (day_watch) starts a new count if EEPROM holds another day's, and the   *)
(* pass that enables stamps the day into EEPROM.  (Mutant for              *)
(* EnabledCountIsTodays: day_watch sees no other day.)                     *)
OtherDayUnseen == FALSE

OtherDay == ~day_watch_validated /\ DayOfMonth(nv_day) # DayOfMonth(day)

(* Does day_watch take the stamp of another month for today's?             *)
Mistaken ==
  /\ ~day_watch_validated /\ ~midnight_reset_done
  /\ nv_day # day /\ DayOfMonth(nv_day) = DayOfMonth(day)

TimeToIrrigate ==
  /\ pc = "time" /\ time_valid /\ hour >= irrigation_hr
  /\ midnight_reset_done' = FALSE
  /\ enabled' = TRUE
  /\ enable_flag' = TRUE
  /\ day_watch_validated' = TRUE
  /\ \/ OtherDay /\ ZeroCount
     \/ /\ ~OtherDay
        /\ KeepCount(IF DayBeganKept THEN "midnight" ELSE IF Mistaken THEN "month" ELSE "none")
        /\ nv_day' = IF enable_flag THEN nv_day ELSE day
  /\ UNCHANGED <<water_flow, reset_water_flow, valve_state, irrigation_hr, clock>>

TimeUnknown ==
  /\ pc = "time" /\ ~time_valid
  /\ enabled' = FALSE
  /\ KeepCount("none")
  /\ UNCHANGED <<nv_day, water_flow, reset_water_flow, valve_state, midnight_reset_done,
                 enable_flag, day_watch_validated, irrigation_hr, clock>>

(* The write that ends a new count.  Its argument was read before or after *)
(* the last service pass; a pass that met the due write with the valve     *)
(* closed has made it already.                                             *)
EndOfReset ==
  /\ pc = "write"
  /\ \/ /\ nv_water' \in {0, total_dispensed}
        /\ nv_count_day' = count_day
        /\ nv_lapse' = lapse
        /\ update_nv' = FALSE
     \/ /\ ~update_nv
        /\ UNCHANGED <<nv_water, nv_count_day, nv_lapse, update_nv>>
  /\ nv_day' = IF enabled THEN day ELSE nv_day
  /\ pc' = "button"
  /\ passed' = TRUE
  /\ UNCHANGED <<total_dispensed, count_day, lapse, water_flow, reset_water_flow, valve_state,
                 keeper, irrigation_hr, clock>>

TimeKeeper == NotYetTime \/ TimeToIrrigate \/ TimeUnknown \/ ZeroTotal \/ EndOfReset

-----------------------------------------------------------------------------
(* The wall clock.  The main loop passes many times an hour, and the few   *)
(* milliseconds of a reset do not straddle one.                            *)
Tick ==
  /\ passed /\ pc \notin {"zero", "write"}
  /\ \/ hour < HoursPerDay - 1 /\ hour' = hour + 1 /\ day' = day
     \/ hour = HoursPerDay - 1 /\ day < DaysBound /\ hour' = 0 /\ day' = day + 1
  /\ passed' = FALSE
  /\ UNCHANGED <<meter, valve_state, keeper, irrigation_hr, pc, stored, time_valid,
                 flag_first, count_day, lapse>>

TimeSync ==
  /\ ~time_valid
  /\ time_valid' = TRUE
  /\ passed' = FALSE
  /\ UNCHANGED <<meter, valve_state, keeper, irrigation_hr, pc, stored, day, hour,
                 flag_first, count_day, lapse>>

(* Power fails, and comes back the same hour or up to MaxOutage days later *)
(* with the RAM as igh_application_setup leaves it.  Settings that cannot  *)
(* be read back are replaced and the stored water zeroed; EEPROM.clear     *)
(* erases the stamp with them.                                             *)
KeptInNv ==
  /\ UNCHANGED <<nv_water, nv_day>>
  /\ lapse' = IF nv_lapse = "overtaken" THEN "revived" ELSE nv_lapse

ClearedInNv ==
  /\ nv_water' = 0
  /\ nv_day' \in {nv_day, ErasedStamp}
  /\ lapse' = "none"

Reboot ==
  /\ KeptInNv \/ ClearedInNv
  /\ nv_lapse' = lapse'
  /\ total_dispensed' = nv_water'
  /\ count_day' = nv_count_day
  /\ water_flow' = 0
  /\ update_nv' = FALSE /\ reset_water_flow' = FALSE
  /\ valve_state' = "CLOSE"
  /\ midnight_reset_done' = FALSE
  /\ enabled' = FALSE /\ enable_flag' = FALSE
  /\ day_watch_validated' = FALSE
  /\ pc' = "time"
  /\ passed' = FALSE
  /\ day' \in day .. day + MaxOutage /\ day' <= DaysBound
  /\ hour' \in 0 .. HoursPerDay - 1
  /\ day' = day => hour' >= hour
  /\ time_valid' \in BOOLEAN
  /\ irrigation_hr' \in IrrigationHours
  /\ UNCHANGED <<nv_count_day, flag_first>>

Environment == MeterRuns \/ Tick \/ TimeSync \/ Reboot

-----------------------------------------------------------------------------
(* The rest of the Shield, as far as the account can tell.                 *)

(* The other handlers of a pass: the button and the managers of irrigation *)
(* and valve may open or close the valve (closing zeroes the meter of the  *)
(* opening), a message may ask for a reset or set the hour of irrigation.  *)
OtherHandlers ==
  /\ pc \in Handlers
  /\ \/ valve_state' \in {valve_state, "OPEN"} /\ water_flow' = water_flow
     \/ valve_state' = "CLOSE" /\ water_flow' = 0
  /\ reset_water_flow' \in {reset_water_flow, TRUE}
  /\ irrigation_hr' \in IrrigationHours
  /\ pc' \in Handlers \cup {"time"}
  /\ UNCHANGED <<total_dispensed, update_nv, keeper, stored, clock, passed, count_day,
                 lapse>>

(* igh_irrigation_by_the_clock, on the timer thread.                       *)
ClockOpens ==
  /\ valve_state = "CLOSE"
  /\ valve_state' = "OPEN"
  /\ UNCHANGED <<meter, keeper, irrigation_hr, pc, stored, clock, passed, count_day,
                 lapse>>

Next == TimeKeeper \/ Environment \/ OtherHandlers \/ ClockOpens

Spec == Init /\ [][Next]_accountVars

(* The flow meter timer keeps firing; nothing else is owed.                *)
FairSpec == Spec /\ WF_accountVars(MeterRuns)

-----------------------------------------------------------------------------
TypeOK ==
  /\ total_dispensed \in 0 .. LitresBound
  /\ water_flow \in 0 .. LitresBound
  /\ update_nv \in BOOLEAN /\ reset_water_flow \in BOOLEAN
  /\ valve_state \in {"CLOSE", "OPEN"}
  /\ midnight_reset_done \in BOOLEAN
  /\ enabled \in BOOLEAN /\ enable_flag \in BOOLEAN
  /\ day_watch_validated \in BOOLEAN
  /\ irrigation_hr \in IrrigationHours
  /\ pc \in Places
  /\ nv_water \in 0 .. LitresBound
  /\ nv_day \in -DaysPerMonth .. DaysBound
  /\ day \in 0 .. DaysBound /\ hour \in 0 .. HoursPerDay - 1
  /\ time_valid \in BOOLEAN /\ flag_first \in BOOLEAN /\ passed \in BOOLEAN
  /\ count_day \in 0 .. DaysBound /\ nv_count_day \in 0 .. DaysBound
  /\ lapse \in Lapses /\ nv_lapse \in Lapses \cup {"overtaken"}

(* EEPROM never claims more water than was counted, so that a restart      *)
(* never makes the Shield withhold water it has not given: across the      *)
(* meter's writes, the time keeper's resets between them and a crash       *)
(* anywhere, in a build of either order (igh_water_flow_meter_update_nv).  *)
(* It does so in one way only: the write of a reset was overtaken, in the  *)
(* order of the text, by the meter's (igh_water_flow_meter.cpp:95-96).     *)
NvNeverOverstates ==
  pc \notin {"zero", "write"} => nv_water <= total_dispensed \/ nv_lapse = "overtaken"

(* What irrigation is decided on is the water of this very day: whenever   *)
(* the time keeper has irrigation enabled, no litre in the count is older, *)
(* through midnights, resets and restarts (igh_time_keeper_churn and       *)
(* igh_time_keeper_day_watch), unless the count is one that a reset has    *)
(* missed in one of the ways of Lapses.                                    *)
EnabledCountIsTodays ==
  enabled /\ passed /\ lapse = "none" => total_dispensed = 0 \/ count_day = day

(* The count starts anew once a day (midnight_reset_done): the time keeper *)
(* resets in its first pass after midnight or a restart and in no later    *)
(* one, so it wipes no water of the new day, unless day_watch finds the    *)
(* count of another day, or a setting moves an irrigation hour that has    *)
(* come to later than now.                                                *)
NoSecondReset ==
  [][pc = "time" /\ pc' \in {"zero", "write"} =>
       \/ ~passed /\ (hour = 0 \/ ~day_watch_validated)
       \/ ~day_watch_validated /\ hour >= irrigation_hr
       \/ enabled /\ hour < irrigation_hr]_accountVars

(* A write that is due when the valve is closed is made, unless the valve  *)
(* opens again first ("update the water flow nv once every time the valve  *)
(* closes", igh_water_flow_meter.cpp:84).                                  *)
DueWriteIsMade ==
  valve_state = "CLOSE" /\ update_nv ~> valve_state = "OPEN" \/ ~update_nv
-----------------------------------------------------------------------------
(* What the comments of the source say of the account.                     *)

(* "if it is not yet time to irrigate, reset the system", "if we find      *)
(* ourselves in a different day, reset irrigation" (igh_time_keeper.cpp:67,*)
(* 41): once a reset is over, a restart takes up no water from before it.  *)
ResetIsStored == [][EndOfReset => nv_water' <= total_dispensed']_accountVars
=============================================================================
