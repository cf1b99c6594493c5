------------------------- MODULE WaterAccount_proofs -------------------------
(* Proofs about WaterAccount, for calendars, hours of irrigation, outages  *)
(* and amounts of water of any size.                                       *)
EXTENDS WaterAccount, TLAPS

(* No other handler of a pass, nor the start of the next one, is inside    *)
(* the time keeper's reset.                                                *)
LEMMA HandlersApart == \A p \in Handlers \cup {"time"} : p # "zero" /\ p # "write"
  BY AccountAssumption

LEMMA ServiceTyped ==
  ASSUME TypeOK, MeterRuns
  PROVE  /\ total_dispensed' \in 0 .. LitresBound /\ water_flow' \in 0 .. LitresBound
         /\ nv_water' \in 0 .. LitresBound
         /\ count_day' \in 0 .. DaysBound /\ nv_count_day' \in 0 .. DaysBound
         /\ update_nv' \in BOOLEAN /\ reset_water_flow' = FALSE
         /\ lapse' \in Lapses /\ nv_lapse' \in Lapses \cup {"overtaken"}
<1> USE AccountAssumption DEF AccountAssumption, TypeOK
<1>1. PICK litres \in Nat : FlowService(litres)
  BY DEF MeterRuns
<1>2. Counted \in 0 .. LitresBound /\ Added(litres) \in 0 .. LitresBound
  BY <1>1 DEF FlowService, Counted, Added
<1>3. CountedSince \in 0 .. DaysBound
  BY DEF CountedSince
<1>4. StoredAfter(litres) \in 0 .. LitresBound
  BY <1>2 DEF StoredAfter, WritesNv
<1>5. water_flow' \in 0 .. LitresBound
  BY <1>1 DEF FlowService, Counted
<1>6. update_nv' \in BOOLEAN
  BY <1>1, Zenon DEF FlowService, DueAfter
<1>7. nv_count_day' \in 0 .. DaysBound
  BY <1>1, <1>3 DEF FlowService
<1>8. lapse' \in Lapses /\ nv_lapse' \in Lapses \cup {"overtaken"}
  BY <1>1 DEF FlowService, LapseAfter, Lapses
<1> QED BY <1>1, <1>2, <1>3, <1>4, <1>5, <1>6, <1>7, <1>8 DEF FlowService

LEMMA LapseTyped ==
  ASSUME NEW kept \in Lapses, KeepCount(kept), TypeOK
  PROVE  /\ update_nv' \in BOOLEAN /\ total_dispensed' \in 0 .. LitresBound
         /\ count_day' \in 0 .. DaysBound /\ pc' \in Places
         /\ passed' \in BOOLEAN /\ UNCHANGED <<nv_water, nv_count_day>>
         /\ lapse' \in Lapses /\ nv_lapse' \in Lapses \cup {"overtaken"}
<1>1. lapse' \in Lapses /\ nv_lapse' \in Lapses \cup {"overtaken"}
  BY DEF KeepCount, LapsedUnless, TypeOK
<1> QED
  BY <1>1, AccountAssumption DEF KeepCount, TypeOK, Places

LEMMA TypeInit == Init => TypeOK
<1> USE AccountAssumption DEF AccountAssumption
<1> SUFFICES ASSUME Init PROVE TypeOK
  OBVIOUS
<1>1. /\ nv_day \in -DaysPerMonth .. DaysBound
      /\ 0 \in 0 .. LitresBound /\ 0 \in 0 .. DaysBound
  BY DEF Init
<1> QED BY <1>1 DEF Init, TypeOK, Places, Lapses

(* The step that keeps the types of the account, from whatever module it   *)
(* is taken.                                                               *)
LEMMA TypeStep == TypeOK /\ [Next]_accountVars => TypeOK'
<1> USE AccountAssumption DEF AccountAssumption
<1> SUFFICES ASSUME TypeOK, [Next]_accountVars PROVE TypeOK'
  OBVIOUS
<1> USE DEF TypeOK, Places
<1>1. CASE MeterRuns
  <2>1. PICK litres \in Nat : FlowService(litres)
    BY <1>1 DEF MeterRuns
  <2>2. UNCHANGED <<nv_day, valve_state, irrigation_hr, pc, midnight_reset_done, enabled, enable_flag,
                    day_watch_validated, day, hour, time_valid, flag_first, passed>>
    BY <2>1, Zenon DEF FlowService, keeper, clock
  <2>3. flag_first' \in BOOLEAN
    BY <2>2, Zenon
  <2> QED BY <1>1, <2>2, <2>3, ServiceTyped
<1>2. day \in -DaysPerMonth .. DaysBound
  OBVIOUS
<1>3. ASSUME ZeroCount
      PROVE  /\ update_nv' \in BOOLEAN /\ total_dispensed' \in 0 .. LitresBound
             /\ count_day' \in 0 .. DaysBound /\ pc' \in Places
             /\ lapse' \in Lapses /\ UNCHANGED <<stored, passed>>
  BY <1>3 DEF ZeroCount, Lapses
<1>4. \A kept \in {"none", "midnight", "month"} : kept \in Lapses
  BY DEF Lapses
<1>5. CASE NotYetTime
  <2>1. CASE ZeroCount
    BY <1>3, <1>5, <2>1 DEF NotYetTime, ResetNoted, stored, clock
  <2>2. CASE KeepCount(IF DayBeganKept THEN "midnight" ELSE "none") /\ UNCHANGED nv_day
    BY LapseTyped, <1>4, <1>5, <2>2 DEF NotYetTime, ResetNoted, clock
  <2> QED BY <1>5, <2>1, <2>2 DEF NotYetTime
<1>6. CASE TimeToIrrigate
  <2>1. CASE ZeroCount
    BY <1>3, <1>6, <2>1 DEF TimeToIrrigate, stored, clock
  <2>2. CASE /\ KeepCount(IF DayBeganKept THEN "midnight" ELSE IF Mistaken THEN "month" ELSE "none")
             /\ nv_day' = IF enable_flag THEN nv_day ELSE day
    BY <1>2, <1>4, LapseTyped, <1>6, <2>2 DEF TimeToIrrigate, clock
  <2> QED BY <1>6, <2>1, <2>2 DEF TimeToIrrigate
<1>7. CASE TimeUnknown
  BY <1>4, LapseTyped, <1>7 DEF TimeUnknown, clock
<1>8. CASE ZeroTotal
  BY <1>8 DEF ZeroTotal, keeper, stored, clock, Lapses
<1>9. CASE EndOfReset
  <2>1. nv_water' \in 0 .. LitresBound /\ nv_count_day' \in 0 .. DaysBound
        /\ update_nv' \in BOOLEAN /\ nv_lapse' \in Lapses \cup {"overtaken"}
    <3>1. \/ /\ nv_water' \in {0, total_dispensed} /\ nv_count_day' = count_day
             /\ nv_lapse' = lapse /\ update_nv' = FALSE
          \/ UNCHANGED <<nv_water, nv_count_day, nv_lapse, update_nv>>
      BY <1>9 DEF EndOfReset
    <3>2. nv_water' \in 0 .. LitresBound
      BY <3>1
    <3>3. nv_count_day' \in 0 .. DaysBound
      BY <3>1
    <3>4. update_nv' \in BOOLEAN
      BY <3>1, Zenon
    <3>5. nv_lapse' \in Lapses \cup {"overtaken"}
      BY <3>1
    <3> QED BY <3>2, <3>3, <3>4, <3>5
  <2>2. nv_day' \in -DaysPerMonth .. DaysBound
    BY <1>2, <1>9 DEF EndOfReset
  <2> QED BY <1>9, <2>1, <2>2 DEF EndOfReset, keeper, clock
<1>10. CASE Tick
  <2>1. day' \in 0 .. DaysBound /\ hour' \in 0 .. HoursPerDay - 1
    BY <1>10 DEF Tick
  <2>2. UNCHANGED <<meter, valve_state, keeper, irrigation_hr, pc, stored, time_valid, flag_first,
                    count_day, lapse>>
        /\ passed' = FALSE
    BY <1>10 DEF Tick
  <2>3. flag_first' \in BOOLEAN /\ time_valid' \in BOOLEAN /\ update_nv' \in BOOLEAN
        /\ reset_water_flow' \in BOOLEAN
    BY <2>2, Zenon DEF meter
  <2> QED BY <2>1, <2>2, <2>3 DEF meter, keeper, stored
<1>11. CASE TimeSync
  BY <1>11 DEF TimeSync, meter, keeper, stored
<1>12. CASE Reboot
  <2>1. nv_water' \in 0 .. LitresBound /\ nv_day' \in -DaysPerMonth .. DaysBound
    BY <1>12 DEF Reboot, KeptInNv, ClearedInNv
  <2>4. lapse' \in Lapses /\ nv_lapse' = lapse'
    BY <1>12 DEF Reboot, KeptInNv, ClearedInNv, Lapses
  <2>2. day' \in 0 .. DaysBound
    BY <1>12 DEF Reboot
  <2>3. 0 \in 0 .. LitresBound
    OBVIOUS
  <2> QED BY <1>12, <2>1, <2>2, <2>3, <2>4 DEF Reboot
<1>13. CASE OtherHandlers
  <2>1. water_flow' \in 0 .. LitresBound /\ valve_state' \in {"CLOSE", "OPEN"}
    BY <1>13 DEF OtherHandlers
  <2>2. reset_water_flow' \in BOOLEAN
    BY <1>13, Zenon DEF OtherHandlers
  <2> QED BY <1>13, <2>1, <2>2 DEF OtherHandlers, keeper, stored, clock
<1>14. CASE ClockOpens
  BY <1>14 DEF ClockOpens, meter, keeper, stored, clock
<1>15. CASE UNCHANGED accountVars
  BY <1>15 DEF accountVars, meter, keeper, stored, clock
<1> QED
  BY <1>1, <1>5, <1>6, <1>7, <1>8, <1>9, <1>10, <1>11, <1>12, <1>13, <1>14, <1>15
     DEF Next, TimeKeeper, Environment

(* The variables of the account keep their types: the counts stay within   *)
(* their bound, the stamp is a day of the run or of the month before.      *)
THEOREM TypeCorrect == Spec => []TypeOK
BY TypeInit, TypeStep, PTL DEF Spec

-----------------------------------------------------------------------------
(* A total that EEPROM has not got is still due there, unless the write of *)
(* the reset was overtaken.                                                *)
NvFits == nv_water <= total_dispensed \/ nv_lapse = "overtaken"

NvInv ==
  /\ pc # "write" => NvFits
  /\ pc = "write" => update_nv \/ NvFits
  /\ pc = "zero" => update_nv \/ nv_water = 0 \/ nv_lapse = "overtaken"

(* A pass of the meter keeps the copy in EEPROM fitting or makes it so,    *)
(* and leaves no due write behind that it could have made.                 *)
LEMMA MeterFits ==
  ASSUME TypeOK, MeterRuns
  PROVE  /\ NvFits => NvFits'
         /\ pc' = pc
         /\ update_nv \/ update_nv' \/ UNCHANGED <<nv_water, nv_lapse>> \/ NvFits'
         /\ update_nv => update_nv' \/ NvFits'
         /\ pc = "zero" => \/ UNCHANGED <<nv_water, nv_lapse>> /\ (update_nv => update_nv')
                          \/ nv_water' = 0 \/ nv_lapse' = "overtaken"
<1>1. PICK litres \in Nat : FlowService(litres)
  BY AccountAssumption DEF MeterRuns
<1>2. Counted \in Nat /\ Counted <= total_dispensed /\ (reset_water_flow \/ Counted = total_dispensed)
  BY AccountAssumption DEF Counted, TypeOK
<1>3. total_dispensed' = Counted + litres /\ pc' = pc /\ nv_water' = StoredAfter(litres)
  BY <1>1 DEF FlowService, Added
<1>4. CASE WritesNv
  <2>1. nv_water' = 0 \/ (~reset_water_flow /\ nv_water' = Counted + litres)
    BY <1>3, <1>4 DEF StoredAfter, Added
  <2>2. nv_water' <= total_dispensed'
    BY <1>2, <1>3, <2>1
  <2>3. pc = "zero" /\ ~reset_water_flow => nv_lapse' = "overtaken"
    BY <1>1, <1>4 DEF FlowService
  <2> QED
    BY <1>3, <2>1, <2>2, <2>3, <1>4 DEF NvFits, StoredAfter
<1>5. CASE ~WritesNv
  <2>1. UNCHANGED <<nv_water, nv_lapse>> /\ ~reset_water_flow
    BY <1>1, <1>5 DEF FlowService, StoredAfter, WritesNv
  <2>2. update_nv => update_nv'
    <3>1. update_nv => valve_state = "OPEN"
      BY <1>5, Zenon DEF WritesNv, TypeOK
    <3> QED
      BY <1>1, <3>1, Zenon DEF FlowService, DueAfter
  <2>3. NvFits => NvFits'
    BY <1>2, <1>3, <2>1, AccountAssumption DEF NvFits, TypeOK
  <2> QED
    BY <1>3, <2>1, <2>2, <2>3, Zenon
<1> QED
  BY <1>4, <1>5

LEMMA NvStep == TypeOK /\ NvInv /\ [Next]_accountVars => NvInv'
<1> SUFFICES ASSUME TypeOK, NvInv, [Next]_accountVars PROVE NvInv'
  OBVIOUS
<1>1. CASE MeterRuns
  BY <1>1, MeterFits, Zenon DEF NvInv
<1>2. CASE NotYetTime \/ TimeToIrrigate \/ TimeUnknown
  <2>1. ZeroCount => /\ UNCHANGED <<nv_water, nv_lapse>> /\ update_nv'
                     /\ \/ pc' = "zero" /\ UNCHANGED total_dispensed
                        \/ pc' = "write"
    BY Zenon DEF ZeroCount, stored
  <2>2. ASSUME NEW kept, KeepCount(kept)
        PROVE  /\ pc' = "button" /\ UNCHANGED <<nv_water, total_dispensed>>
               /\ nv_lapse = "overtaken" => nv_lapse' = "overtaken"
    BY <2>2 DEF KeepCount, LapsedUnless
  <2>3. pc = "time" /\ (ZeroCount \/ \E kept \in Lapses : KeepCount(kept))
    BY <1>2 DEF NotYetTime, TimeToIrrigate, TimeUnknown, Lapses
  <2>4. NvFits
    BY <2>3 DEF NvInv
  <2>5. CASE ZeroCount
    BY <2>1, <2>4, <2>5 DEF NvInv, NvFits
  <2>6. CASE \E kept \in Lapses : KeepCount(kept)
    BY <2>2, <2>4, <2>6 DEF NvInv, NvFits
  <2> QED
    BY <2>3, <2>5, <2>6
<1>3. CASE ZeroTotal
  BY <1>3 DEF ZeroTotal, stored, NvInv, NvFits
<1>4. CASE EndOfReset
  <2>1. pc = "write" /\ pc' = "button" /\ UNCHANGED total_dispensed /\ total_dispensed \in Nat
    BY <1>4, AccountAssumption DEF EndOfReset, TypeOK
  <2>2. CASE nv_water' \in {0, total_dispensed}
    BY <2>1, <2>2 DEF NvInv, NvFits
  <2>3. CASE ~update_nv /\ UNCHANGED <<nv_water, nv_lapse>>
    BY <2>1, <2>3 DEF NvInv, NvFits
  <2> QED
    BY <1>4, <2>2, <2>3 DEF EndOfReset
<1>5. CASE Tick \/ TimeSync \/ ClockOpens \/ UNCHANGED accountVars
  <2>1. UNCHANGED <<pc, update_nv, total_dispensed, nv_water, nv_lapse>>
    BY <1>5, Zenon DEF Tick, TimeSync, ClockOpens, accountVars, meter, stored
  <2> QED
    BY <2>1, Zenon DEF NvInv, NvFits
<1>6. CASE Reboot
  <2>1. pc' = "time" /\ total_dispensed' = nv_water' /\ nv_water' \in Nat
    BY <1>6, AccountAssumption DEF Reboot, KeptInNv, ClearedInNv, TypeOK
  <2> QED
    BY <2>1 DEF NvInv, NvFits
<1>7. CASE OtherHandlers
  <2>1. /\ UNCHANGED <<total_dispensed, nv_water, nv_lapse>>
        /\ pc \in Handlers /\ pc' \in Handlers \cup {"time"}
    BY <1>7, Zenon DEF OtherHandlers, stored
  <2>2. pc # "write" /\ pc' # "write" /\ pc' # "zero"
    BY <2>1, HandlersApart
  <2> QED
    BY <2>1, <2>2, Zenon DEF NvInv, NvFits
<1> QED
  BY <1>1, <1>2, <1>3, <1>4, <1>5, <1>6, <1>7, Zenon DEF Next, TimeKeeper, Environment

(* EEPROM never claims more water than was counted, in a build of either   *)
(* order and wherever the power fails, but for one way: between the two    *)
(* stores of a reset the meter made the write that was due, and the reset  *)
(* then finds nothing to write (igh_water_flow_meter_reset_nv against      *)
(* igh_water_flow_meter_service).                                          *)
THEOREM NvIsNeverAhead == Spec => []NvNeverOverstates
<1>1. Init => NvInv
  BY DEF Init, NvInv, NvFits
<1>2. NvInv => NvNeverOverstates
  BY Zenon DEF NvInv, NvFits, NvNeverOverstates
<1> QED
  BY <1>1, <1>2, NvStep, TypeCorrect, PTL DEF Spec
-----------------------------------------------------------------------------
(* Once the time is known every pass of the time keeper leaves a note      *)
(* behind, midnight_reset_done or igh_irrigation_enabled, which only a     *)
(* restart takes away.                                                     *)
Noted == midnight_reset_done \/ enabled

NotedInv ==
  /\ ~time_valid => ~day_watch_validated
  /\ pc = "zero" \/ pc = "write" => Noted
  /\ time_valid /\ ~Noted => ~day_watch_validated /\ ~passed

LEMMA NotedStep == NotedInv /\ [Next]_accountVars => NotedInv'
<1> SUFFICES ASSUME NotedInv, [Next]_accountVars PROVE NotedInv'
  OBVIOUS
<1>1. CASE NotYetTime \/ TimeToIrrigate
  <2>1. midnight_reset_done' \/ enabled'
    BY <1>1, Zenon DEF NotYetTime, ResetNoted, TimeToIrrigate
  <2>2. time_valid /\ time_valid' = time_valid
    BY <1>1, Zenon DEF NotYetTime, TimeToIrrigate, clock
  <2> QED
    BY <2>1, <2>2, Zenon DEF NotedInv, Noted
<1>2. CASE TimeUnknown
  <2>1. pc' = "button" /\ ~time_valid /\ ~time_valid' /\ UNCHANGED day_watch_validated
    BY <1>2, Zenon DEF TimeUnknown, KeepCount, clock
  <2>2. pc' # "zero" /\ pc' # "write"
    BY <2>1
  <2> QED
    BY <2>1, <2>2, Zenon DEF NotedInv
<1>3. CASE ZeroTotal \/ EndOfReset
  <2>1. UNCHANGED <<time_valid, day_watch_validated, midnight_reset_done, enabled>>
        /\ (pc = "zero" \/ pc = "write")
    BY <1>3, Zenon DEF ZeroTotal, EndOfReset, keeper, clock
  <2> QED
    BY <2>1, Zenon DEF NotedInv, Noted
<1>4. CASE Tick \/ TimeSync
  <2>1. UNCHANGED <<day_watch_validated, midnight_reset_done, enabled, pc>> /\ ~passed'
        /\ (UNCHANGED time_valid \/ (~time_valid /\ time_valid'))
    BY <1>4, Zenon DEF Tick, TimeSync, keeper
  <2>2. Noted' = Noted
    BY <2>1, Zenon DEF Noted
  <2>3. ~time_valid' => ~time_valid
    BY <2>1, Zenon
  <2>4. time_valid' /\ ~Noted' => ~day_watch_validated
    BY <2>1, <2>2, Zenon DEF NotedInv
  <2> QED
    BY <2>1, <2>2, <2>3, <2>4, Zenon DEF NotedInv
<1>5. CASE Reboot
  <2>1. pc' = "time" /\ ~day_watch_validated' /\ ~passed'
    BY <1>5, Zenon DEF Reboot
  <2>2. pc' # "zero" /\ pc' # "write"
    BY <2>1
  <2> QED
    BY <2>1, <2>2, Zenon DEF NotedInv
<1>6. CASE MeterRuns \/ OtherHandlers \/ ClockOpens \/ UNCHANGED accountVars
  <2>1. UNCHANGED <<time_valid, day_watch_validated, midnight_reset_done, enabled, passed>>
        /\ (pc' = pc \/ pc' \in Handlers \cup {"time"})
    BY <1>6, Zenon DEF MeterRuns, FlowService, OtherHandlers, ClockOpens, accountVars, keeper, clock
  <2>2. pc' = pc \/ (pc' # "zero" /\ pc' # "write")
    BY <2>1, HandlersApart
  <2> QED
    BY <2>1, <2>2, Zenon DEF NotedInv, Noted
<1> QED
  BY <1>1, <1>2, <1>3, <1>4, <1>5, <1>6, Zenon DEF Next, TimeKeeper, Environment

(* The count starts anew once a day, for any calendar and any order of the *)
(* stores: no pass after the first of a day or a restart resets it, but    *)
(* for the count of another day and a moved irrigation hour                *)
(* (igh_time_keeper_churn).                                                *)
THEOREM ResetsOnce == Spec => NoSecondReset
<1>1. Init => NotedInv
  <2>1. Init => pc # "zero" /\ pc # "write"
    BY DEF Init
  <2> QED
    BY <2>1, Zenon DEF Init, NotedInv
<1>2. NotedInv /\ [Next]_accountVars =>
        [pc = "time" /\ pc' \in {"zero", "write"} =>
           \/ ~passed /\ (hour = 0 \/ ~day_watch_validated)
           \/ ~day_watch_validated /\ hour >= irrigation_hr
           \/ enabled /\ hour < irrigation_hr]_accountVars
  <2> SUFFICES ASSUME NotedInv, Next, pc = "time", pc' \in {"zero", "write"}
               PROVE  \/ ~passed /\ (hour = 0 \/ ~day_watch_validated)
                      \/ ~day_watch_validated /\ hour >= irrigation_hr
                      \/ enabled /\ hour < irrigation_hr
    BY Zenon
  <2>1. /\ pc' # pc /\ pc' # "time" /\ pc' # "button" /\ pc' \notin Handlers \cup {"time"}
        /\ pc # "zero" /\ pc # "write"
    BY HandlersApart
  <2>2. \A kept : ~KeepCount(kept)
    BY <2>1, Zenon DEF KeepCount
  <2>3. NotYetTime \/ TimeToIrrigate
    BY <2>1, <2>2, Zenon DEF Next, TimeKeeper, Environment, TimeUnknown, ZeroTotal, EndOfReset,
       MeterRuns, FlowService, Tick, TimeSync, Reboot, OtherHandlers, ClockOpens
  <2>4. CASE NotYetTime
    BY <2>2, <2>4, Zenon DEF NotYetTime, NotedInv, Noted
  <2>5. CASE TimeToIrrigate
    BY <2>2, <2>5, Zenon DEF TimeToIrrigate, OtherDay
  <2> QED
    BY <2>3, <2>4, <2>5
<1> QED
  BY <1>1, <1>2, NotedStep, PTL DEF Spec, NoSecondReset
-----------------------------------------------------------------------------
(* The counts in RAM and in EEPROM hold water of this day only, or it is   *)
(* known what kept the reset from them.                                    *)
RamToday == total_dispensed = 0 \/ count_day = day \/ lapse # "none"
NvToday  == nv_water = 0 \/ nv_count_day = day \/ nv_lapse # "none"

(* The first hour of a day before the time keeper has looked at it.        *)
NewDayUnseen == hour = 0 /\ ~passed

(* The stamp is a day gone by, and this day only if both counts are of     *)
(* this day ...                                                            *)
StampInv ==
  /\ nv_day <= day
  /\ nv_day = day => RamToday /\ NvToday

(* ... they are so, too, from the first pass of a day on, except that in a *)
(* reset one of them or the write to EEPROM may still be due.              *)
DayInv ==
  /\ pc = "zero" => (update_nv \/ NvToday) /\ (enabled /\ passed => RamToday)
  /\ pc = "write" => RamToday /\ (update_nv \/ NvToday)
  /\ pc \notin {"zero", "write"} /\ (day_watch_validated \/ midnight_reset_done) =>
       NewDayUnseen \/ (RamToday /\ NvToday)

KeeperInv ==
  /\ ~time_valid => ~day_watch_validated /\ ~midnight_reset_done
  /\ enabled => day_watch_validated

TodayInv == StampInv /\ DayInv /\ KeeperInv

LEMMA MeterKeepsDay ==
  ASSUME TypeOK, MeterRuns
  PROVE  /\ RamToday => RamToday' /\ (NvToday => NvToday')
         /\ RamToday /\ ~update_nv' /\ update_nv => NvToday'
         /\ pc = "zero" /\ (update_nv \/ NvToday) => update_nv' \/ NvToday'
         /\ UNCHANGED <<nv_day, keeper, pc, clock, passed>>
<1>1. PICK litres \in Nat : FlowService(litres)
  BY AccountAssumption DEF MeterRuns
<1>2. UNCHANGED <<nv_day, keeper, pc, clock, passed>> /\ day' = day
  BY <1>1, Zenon DEF FlowService, clock
<1>3. /\ total_dispensed' = Counted + litres
      /\ count_day' = IF Counted = 0 THEN day ELSE count_day
      /\ Counted = 0 \/ (Counted = total_dispensed /\ ~reset_water_flow)
      /\ lapse' = IF reset_water_flow THEN "none" ELSE lapse
  BY <1>1 DEF FlowService, Added, CountedSince, Counted, LapseAfter
<1>4. RamToday => count_day' = day \/ lapse' # "none"
  BY <1>3 DEF RamToday
<1>5. RamToday => RamToday'
  BY <1>2, <1>4 DEF RamToday
<1>6. CASE WritesNv
  <2>1. /\ nv_count_day' = count_day'
        /\ nv_lapse' = "overtaken" \/ nv_lapse' = lapse'
        /\ pc = "zero" => nv_lapse' = "overtaken" \/ nv_water' = 0
    BY <1>1, <1>6 DEF FlowService, StoredAfter
  <2>2. RamToday => NvToday'
    BY <1>2, <1>4, <2>1 DEF NvToday
  <2>3. pc = "zero" => NvToday'
    BY <2>1 DEF NvToday
  <2> QED
    BY <1>2, <1>5, <2>2, <2>3
<1>7. CASE ~WritesNv
  <2>1. UNCHANGED <<nv_water, nv_count_day, nv_lapse>>
    BY <1>1, <1>7 DEF FlowService, StoredAfter, WritesNv
  <2>2. NvToday' = NvToday
    BY <1>2, <2>1 DEF NvToday
  <2>3. update_nv => valve_state # "CLOSE"
    BY <1>7, Zenon DEF WritesNv
  <2>4. update_nv => valve_state = "OPEN"
    BY <2>3, Zenon DEF TypeOK
  <2>5. update_nv => update_nv'
    BY <1>1, <2>4, Zenon DEF FlowService, DueAfter
  <2> QED
    BY <1>2, <1>5, <2>2, <2>5, Zenon
<1> QED
  BY <1>6, <1>7, Zenon

(* The start of a new count leaves no litre in RAM, or is about to.        *)
LEMMA ZeroedToday ==
  ASSUME ZeroCount, UNCHANGED clock
  PROVE  /\ RamToday => RamToday'
         /\ pc' = "zero" \/ (pc' = "write" /\ RamToday')
         /\ NvToday' = NvToday /\ UNCHANGED <<nv_day, passed>>
         /\ update_nv'
<1>1. /\ UNCHANGED <<nv_water, nv_day, nv_count_day, nv_lapse, passed, day>>
      /\ update_nv'
  BY Zenon DEF ZeroCount, stored, clock
<1>2. NvToday' = NvToday
  BY <1>1, Zenon DEF NvToday
<1>3. CASE pc' = "zero" /\ UNCHANGED <<total_dispensed, count_day, lapse>>
  BY <1>1, <1>2, <1>3 DEF RamToday
<1>4. CASE total_dispensed' = 0 /\ pc' = "write"
  BY <1>1, <1>2, <1>4 DEF RamToday
<1> QED
  BY <1>3, <1>4, Zenon DEF ZeroCount

(* A count that goes on stays of this day, or is marked with what kept the *)
(* reset from it.                                                          *)
LEMMA KeptToday ==
  ASSUME NEW kept, KeepCount(kept), UNCHANGED clock
  PROVE  /\ RamToday \/ kept # "none" => RamToday'
         /\ NvToday \/ kept # "none" => NvToday'
         /\ pc' = "button" /\ pc' # "write" /\ pc' # "zero" /\ passed'
<1>1. /\ UNCHANGED <<total_dispensed, count_day, nv_water, nv_count_day, day>>
      /\ pc' = "button" /\ passed'
      /\ lapse' = LapsedUnless(lapse, kept) /\ nv_lapse' = LapsedUnless(nv_lapse, kept)
  BY Zenon DEF KeepCount, clock
<1>2. pc' # "write" /\ pc' # "zero"
  BY <1>1
<1>3. RamToday \/ kept # "none" => RamToday'
  BY <1>1 DEF RamToday, LapsedUnless
<1>4. NvToday \/ kept # "none" => NvToday'
  BY <1>1 DEF NvToday, LapsedUnless
<1> QED
  BY <1>1, <1>2, <1>3, <1>4, Zenon

LEMMA BeforeTheHour ==
  ASSUME TypeOK, TodayInv, NotYetTime PROVE TodayInv'
<1>1. UNCHANGED <<hour, day, time_valid>> /\ UNCHANGED clock /\ time_valid
  BY Zenon DEF NotYetTime, clock
<1>2. midnight_reset_done' /\ ~enabled' /\ UNCHANGED day_watch_validated
  BY Zenon DEF NotYetTime, ResetNoted
<1>3. pc = "time" /\ pc # "write" /\ pc # "zero"
  BY DEF NotYetTime
<1>4. KeeperInv'
  BY <1>1, <1>2, Zenon DEF KeeperInv
<1>5. CASE ~midnight_reset_done /\ ZeroCount
  <2>1. /\ RamToday => RamToday'
        /\ pc' = "zero" \/ (pc' = "write" /\ RamToday' /\ pc' # "zero")
        /\ update_nv' /\ NvToday' = NvToday /\ UNCHANGED nv_day
    BY <1>1, <1>5, ZeroedToday
  <2>2. StampInv'
    BY <1>1, <2>1, Zenon DEF TodayInv, StampInv
  <2>3. DayInv'
    BY <1>2, <2>1 DEF DayInv
  <2> QED
    BY <1>4, <2>2, <2>3 DEF TodayInv
<1>6. CASE midnight_reset_done /\ UNCHANGED nv_day
           /\ KeepCount(IF DayBeganKept THEN "midnight" ELSE "none")
  <2>1. RamToday' /\ NvToday' /\ pc' # "write" /\ pc' # "zero"
    <3>1. CASE NewDayUnseen
      <4>1. DayBeganKept
        BY <1>6, <3>1 DEF DayBeganKept, NewDayUnseen
      <4>2. KeepCount("midnight")
        BY <1>6, <4>1
      <4>3. "midnight" # "none"
        OBVIOUS
      <4> QED
        BY <1>1, <4>2, <4>3, KeptToday
    <3>2. CASE ~NewDayUnseen
      <4>1. RamToday /\ NvToday
        BY <1>3, <1>6, <3>2 DEF TodayInv, DayInv
      <4> QED
        BY <1>1, <1>6, <4>1, KeptToday
    <3> QED
      BY <3>1, <3>2
  <2> QED
    BY <1>1, <1>4, <1>6, <2>1, Zenon DEF TodayInv, StampInv, DayInv
<1> QED
  BY <1>5, <1>6, Zenon DEF NotYetTime

LEMMA FromTheHour ==
  ASSUME TypeOK, NotedInv, TodayInv, TimeToIrrigate PROVE TodayInv'
<1>1. UNCHANGED <<hour, day, time_valid>> /\ UNCHANGED clock /\ time_valid
  BY Zenon DEF TimeToIrrigate, clock
<1>2. ~midnight_reset_done' /\ enabled' /\ day_watch_validated'
  BY Zenon DEF TimeToIrrigate
<1>3. pc = "time" /\ pc # "write" /\ pc # "zero"
  BY DEF TimeToIrrigate
<1>4. KeeperInv'
  BY <1>1, <1>2, Zenon DEF KeeperInv
<1>5. CASE OtherDay /\ ZeroCount
  <2>1. /\ RamToday => RamToday'
        /\ pc' = "zero" \/ (pc' = "write" /\ RamToday' /\ pc' # "zero")
        /\ update_nv' /\ NvToday' = NvToday /\ UNCHANGED <<nv_day, passed>>
    BY <1>1, <1>5, ZeroedToday
  <2>2. StampInv'
    BY <1>1, <2>1, Zenon DEF TodayInv, StampInv
  <2>3. passed => RamToday
    <3>1. passed => midnight_reset_done
      BY <1>1, <1>5, Zenon DEF NotedInv, Noted, TodayInv, KeeperInv, OtherDay
    <3> QED
      BY <1>3, <3>1 DEF TodayInv, DayInv, NewDayUnseen
  <2>4. DayInv'
    BY <2>1, <2>3 DEF DayInv
  <2> QED
    BY <1>4, <2>2, <2>4 DEF TodayInv
<1>6. ASSUME NEW kept, ~OtherDay, KeepCount(kept),
             kept = IF DayBeganKept THEN "midnight" ELSE IF Mistaken THEN "month" ELSE "none",
             nv_day' = IF enable_flag THEN nv_day ELSE day
      PROVE  TodayInv'
  <2>1. kept # "none" \/ (RamToday /\ NvToday)
    <3>1. CASE day_watch_validated \/ midnight_reset_done
      BY <1>3, <1>6, <3>1 DEF TodayInv, DayInv, NewDayUnseen, DayBeganKept
    <3>2. CASE ~day_watch_validated /\ ~midnight_reset_done
      BY <1>6, <3>2 DEF TodayInv, StampInv, Mistaken, OtherDay
    <3> QED
      BY <3>1, <3>2
  <2>2. RamToday' /\ NvToday' /\ pc' # "write" /\ pc' # "zero"
    BY <1>1, <1>6, <2>1, KeptToday, Zenon
  <2>3. nv_day' <= day'
    BY <1>1, <1>6, AccountAssumption DEF TodayInv, StampInv, TypeOK
  <2> QED
    BY <1>4, <2>2, <2>3, Zenon DEF TodayInv, StampInv, DayInv
<1> QED
  BY <1>5, <1>6, Zenon DEF TimeToIrrigate

LEMMA EndOfResetToday ==
  ASSUME TypeOK, TodayInv, EndOfReset PROVE TodayInv'
<1>1. UNCHANGED <<total_dispensed, count_day, lapse, keeper, clock>>
  BY Zenon DEF EndOfReset
<1>2. UNCHANGED <<hour, day, time_valid, day_watch_validated, midnight_reset_done, enabled>>
  BY <1>1, Zenon DEF keeper, clock
<1>3. pc = "write" /\ pc' = "button" /\ pc' # "write" /\ pc' # "zero"
  BY DEF EndOfReset
<1>4. RamToday /\ RamToday'
  BY <1>1, <1>2, <1>3, Zenon DEF RamToday, TodayInv, DayInv
<1>5. NvToday'
  <2>1. CASE nv_water' \in {0, total_dispensed} /\ nv_count_day' = count_day /\ nv_lapse' = lapse
    BY <1>2, <1>4, <2>1 DEF RamToday, NvToday
  <2>2. CASE ~update_nv /\ UNCHANGED <<nv_water, nv_count_day, nv_lapse>>
    BY <1>2, <1>3, <2>2, Zenon DEF NvToday, TodayInv, DayInv
  <2> QED
    BY <2>1, <2>2, Zenon DEF EndOfReset
<1>6. nv_day' <= day'
  BY <1>2, AccountAssumption DEF EndOfReset, TodayInv, StampInv, TypeOK
<1> QED
  BY <1>2, <1>3, <1>4, <1>5, <1>6, Zenon DEF TodayInv, StampInv, DayInv, KeeperInv

(* The day only changes after a pass in its last hour, or while the power  *)
(* is out.                                                                 *)
LEMMA TickToday ==
  ASSUME TypeOK, TodayInv, Tick PROVE TodayInv'
<1>1. /\ UNCHANGED <<meter, keeper, stored, pc, time_valid, count_day, lapse>>
      /\ passed /\ ~passed' /\ pc \notin {"zero", "write"}
  BY Zenon DEF Tick
<1>2. /\ UNCHANGED <<total_dispensed, update_nv, day_watch_validated, midnight_reset_done,
                     enabled, nv_water, nv_day, nv_count_day, nv_lapse>>
      /\ pc' # "zero" /\ pc' # "write" /\ pc # "write"
  BY <1>1, Zenon DEF meter, keeper, stored
<1>3. KeeperInv'
  BY <1>1, <1>2, Zenon DEF TodayInv, KeeperInv
<1>4. CASE hour < HoursPerDay - 1 /\ hour' = hour + 1 /\ day' = day
  <2>1. RamToday' = RamToday /\ NvToday' = NvToday
    BY <1>1, <1>2, <1>4, Zenon DEF RamToday, NvToday
  <2>2. day_watch_validated \/ midnight_reset_done => RamToday /\ NvToday
    BY <1>1, <1>2, Zenon DEF TodayInv, DayInv, NewDayUnseen
  <2>3. StampInv'
    BY <1>2, <1>4, <2>1, Zenon DEF TodayInv, StampInv
  <2> QED
    BY <1>2, <1>3, <2>1, <2>2, <2>3, Zenon DEF TodayInv, DayInv
<1>5. CASE hour = HoursPerDay - 1 /\ day < DaysBound /\ hour' = 0 /\ day' = day + 1
  <2>1. NewDayUnseen'
    BY <1>1, <1>5, Zenon DEF NewDayUnseen
  <2>2. nv_day' # day' /\ nv_day' <= day'
    BY <1>2, <1>5, AccountAssumption DEF TodayInv, StampInv, TypeOK
  <2> QED
    BY <1>2, <1>3, <2>1, <2>2, Zenon DEF TodayInv, DayInv, StampInv
<1> QED
  BY <1>4, <1>5, Zenon DEF Tick

LEMMA RebootToday ==
  ASSUME TypeOK, TodayInv, Reboot PROVE TodayInv'
<1>1. /\ total_dispensed' = nv_water' /\ count_day' = nv_count_day /\ nv_lapse' = lapse'
      /\ UNCHANGED nv_count_day
      /\ day' \in day .. day + MaxOutage
      /\ pc' = "time"
  BY DEF Reboot
<1>2. ~midnight_reset_done' /\ ~enabled' /\ ~day_watch_validated'
  BY Zenon DEF Reboot
<1>3. pc' # "write" /\ pc' # "zero"
  BY <1>1
<1>4. day' >= day /\ day \in Nat /\ day' \in Nat /\ nv_day \in Int
  BY <1>1, AccountAssumption DEF TypeOK
<1>5. CASE KeptInNv
  <2>1. nv_day' <= day' /\ (nv_day' = day' => nv_day = day /\ day' = day)
    BY <1>4, <1>5 DEF KeptInNv, TodayInv, StampInv
  <2>2. nv_day = day => NvToday
    BY Zenon DEF TodayInv, StampInv
  <2>3. NvToday /\ day' = day => RamToday' /\ NvToday'
    BY <1>1, <1>5 DEF KeptInNv, RamToday, NvToday
  <2> QED
    BY <1>2, <1>3, <2>1, <2>2, <2>3, Zenon DEF TodayInv, StampInv, DayInv, KeeperInv
<1>6. CASE ClearedInNv
  <2>1. nv_day' <= day'
    BY <1>4, <1>6, AccountAssumption DEF ClearedInNv, TodayInv, StampInv
  <2>2. RamToday' /\ NvToday'
    BY <1>1, <1>6, Zenon DEF ClearedInNv, RamToday, NvToday
  <2> QED
    BY <1>2, <1>3, <2>1, <2>2, Zenon DEF TodayInv, StampInv, DayInv, KeeperInv
<1> QED
  BY <1>5, <1>6, Zenon DEF Reboot

LEMMA TodayStep ==
  ASSUME TypeOK, NotedInv, TodayInv, [Next]_accountVars PROVE TodayInv'
<1>1. CASE MeterRuns
  <2>1. UNCHANGED <<nv_day, pc, day, hour, time_valid, passed, midnight_reset_done, enabled,
                    day_watch_validated>>
    BY <1>1, MeterKeepsDay, Zenon DEF keeper, clock
  <2> QED
    BY <1>1, <2>1, MeterKeepsDay, Zenon
       DEF TodayInv, StampInv, DayInv, KeeperInv, NewDayUnseen
<1>2. CASE TimeUnknown
  <2>1. UNCHANGED <<day, hour, time_valid, nv_day, midnight_reset_done, day_watch_validated>>
        /\ UNCHANGED clock /\ KeepCount("none") /\ ~time_valid /\ ~enabled'
    BY <1>2, Zenon DEF TimeUnknown, clock
  <2> QED
    BY <2>1, KeptToday, Zenon DEF TodayInv, StampInv, DayInv, KeeperInv
<1>3. CASE ZeroTotal
  <2>1. /\ UNCHANGED <<update_nv, nv_water, nv_day, nv_count_day, nv_lapse, day, time_valid,
                       midnight_reset_done, day_watch_validated, enabled>>
        /\ total_dispensed' = 0 /\ pc = "zero" /\ pc' = "write"
    BY <1>3, Zenon DEF ZeroTotal, stored, keeper, clock
  <2>2. RamToday' /\ NvToday' = NvToday /\ pc' # "zero"
    BY <2>1 DEF RamToday, NvToday
  <2> QED
    BY <2>1, <2>2 DEF TodayInv, StampInv, DayInv, KeeperInv
<1>4. CASE TimeSync
  <2>1. /\ UNCHANGED <<total_dispensed, update_nv, count_day, lapse, nv_water, nv_day,
                       nv_count_day, nv_lapse, day, hour, pc, midnight_reset_done,
                       day_watch_validated, enabled>>
        /\ ~time_valid /\ time_valid' /\ ~passed'
    BY <1>4, Zenon DEF TimeSync, meter, keeper, stored
  <2> QED
    BY <2>1, Zenon DEF TodayInv, StampInv, DayInv, KeeperInv, RamToday, NvToday, NewDayUnseen
<1>5. CASE OtherHandlers \/ ClockOpens \/ UNCHANGED accountVars
  <2>1. /\ UNCHANGED <<total_dispensed, update_nv, count_day, lapse, nv_water, nv_day,
                       nv_count_day, nv_lapse, day, hour, time_valid, passed,
                       midnight_reset_done, day_watch_validated, enabled>>
        /\ pc' = pc \/ (pc \in Handlers /\ pc' \in Handlers \cup {"time"})
    BY <1>5, Zenon DEF OtherHandlers, ClockOpens, accountVars, meter, keeper, stored, clock
  <2>2. pc' = pc \/ (pc # "write" /\ pc # "zero" /\ pc' # "write" /\ pc' # "zero")
    BY <2>1, HandlersApart
  <2>3. RamToday' = RamToday /\ NvToday' = NvToday /\ NewDayUnseen' = NewDayUnseen
    BY <2>1, Zenon DEF RamToday, NvToday, NewDayUnseen
  <2>4. StampInv' /\ KeeperInv'
    BY <2>1, <2>3, Zenon DEF TodayInv, StampInv, KeeperInv
  <2>5. DayInv'
    BY <2>1, <2>2, <2>3 DEF TodayInv, DayInv
  <2> QED
    BY <2>4, <2>5, Zenon DEF TodayInv
<1> QED
  BY <1>1, <1>2, <1>3, <1>4, <1>5, BeforeTheHour, FromTheHour, EndOfResetToday, TickToday,
     RebootToday, Zenon DEF Next, TimeKeeper, Environment

(* Irrigation is decided on the water of this day: no sequence of          *)
(* restarts, resets, outages, changed settings and unknown times enables   *)
(* irrigation on the count of another day (igh_time_keeper_churn,          *)
(* igh_time_keeper_day_watch), in a build of either order and for every    *)
(* hour of irrigation, except on one that a reset has missed at midnight,  *)
(* in the same day of another month, or to the meter.                      *)
THEOREM CountIsOfToday == Spec => []EnabledCountIsTodays
<1>1. Init => NotedInv /\ TodayInv
  <2> SUFFICES ASSUME Init PROVE NotedInv /\ TodayInv
    OBVIOUS
  <2>1. nv_day <= day
    BY AccountAssumption DEF Init
  <2>2. total_dispensed = 0 /\ nv_water = 0 /\ pc # "zero" /\ pc # "write"
    BY DEF Init
  <2>3. ~midnight_reset_done /\ ~enabled /\ ~day_watch_validated /\ ~passed
    BY Zenon DEF Init
  <2> QED
    BY <2>1, <2>2, <2>3, Zenon
       DEF NotedInv, TodayInv, StampInv, DayInv, KeeperInv, RamToday, NvToday
<1>2. TypeOK /\ NotedInv /\ TodayInv /\ [Next]_accountVars => NotedInv' /\ TodayInv'
  BY TodayStep, NotedStep, Zenon
<1>3. TodayInv => EnabledCountIsTodays
  BY DEF TodayInv, DayInv, KeeperInv, NewDayUnseen, RamToday, EnabledCountIsTodays
<1> QED
  BY <1>1, <1>2, <1>3, TypeCorrect, PTL DEF Spec
=============================================================================
