-------------------------- MODULE Irrigation_proofs --------------------------
(***************************************************************************)
(* Proofs about Irrigation, for limits, doses, calendars and hours of any  *)
(* size, on top of what is proved of the account alone.                    *)
(***************************************************************************)
EXTENDS Irrigation, WaterAccount_proofs

OpenLitresTyped ==
  /\ open_litres \in Int /\ open_litres >= -LitresBound
  /\ \E most \in Minima \cup Amounts : open_litres <= most

LimitsTyped ==
  /\ low \in Minima /\ high \in Maxima /\ amount \in Amounts
  /\ limit \in Nat

DataTyped ==
  /\ sensor_data \in {"none", "dry", "wet"} /\ new_humidity \in {"none", "dry", "wet"}
  /\ auto_type \in Types

ManagerFlags ==
  /\ suspended \in BOOLEAN /\ minimum_requested \in BOOLEAN
  /\ settings_updated \in BOOLEAN

TimerFlags ==
  /\ clock_active \in BOOLEAN /\ cooldown_active \in BOOLEAN /\ sensor_ready \in BOOLEAN

ValveFlags ==
  /\ automatic \in BOOLEAN /\ set_flow_expired \in BOOLEAN /\ timer_active \in BOOLEAN

LEMMA WaterInteger ==
  ASSUME TypeOK, LimitsTyped
  PROVE  /\ WaterToDispense \in (-LitresBound) .. amount
         /\ total_dispensed + WaterToDispense <= high
         /\ low \in Nat /\ high \in Nat /\ amount \in Nat
         /\ MostOfDay \in Nat /\ MostOfDay >= high /\ MostOfDay >= 2 * low
BY AccountAssumption, IrrigationAssumption DEF TypeOK, LimitsTyped, WaterToDispense, MostOfDay

(* What a step of the manager may do to the account.                       *)
LEMMA RestTyped ==
  ASSUME TypeOK, UNCHANGED <<total_dispensed, update_nv, keeper, stored, clock, passed, count_day, lapse>>,
         irrigation_hr' \in IrrigationHours, valve_state' \in {"CLOSE", "OPEN"},
         water_flow' \in {water_flow, 0}, reset_water_flow' \in BOOLEAN, pc' \in Places
  PROVE  TypeOK'
<1>1. water_flow' \in 0 .. LitresBound
  BY AccountAssumption DEF TypeOK
<1> QED
  BY <1>1, Zenon DEF TypeOK, keeper, stored, clock

LEMMA RuleTyped ==
  ASSUME TypeOK,
         ButtonValve \/ ButtonSystem \/ NoButton \/ IrrigationManager \/ ValveManager \/ ClockFires
  PROVE  TypeOK'
<1>1. UNCHANGED <<total_dispensed, update_nv, keeper, stored, clock, passed, count_day, lapse,
                  irrigation_hr, reset_water_flow>>
  BY Zenon DEF ButtonValve, ButtonSystem, NoButton, IrrigationManager, TakeUpdates, Rule, RuleOff,
     RuleMinimum, RuleHourly, RuleSensor, RuleMaximum, ValveManager, ValveStaysOpen, ValveExpires,
     ValveStaysClosed, ClockFires, accountRest
<1>2. valve_state' \in {"CLOSE", "OPEN"} /\ water_flow' \in {water_flow, 0}
  BY Zenon DEF TypeOK, ButtonValve, ButtonSystem, NoButton, IrrigationManager, TakeUpdates, Rule,
     RuleOff, RuleMinimum, RuleHourly, RuleSensor, RuleMaximum, ValveManager, ValveStaysOpen,
     ValveExpires, ValveStaysClosed, ClockFires, OpenValve, CloseValve
<1>3. pc' \in Places
  BY IrrigationAssumption, Zenon DEF TypeOK, Places, ButtonValve, ButtonSystem, NoButton, IrrigationManager, TakeUpdates,
     Rule, RuleOff, RuleMinimum, RuleHourly, RuleSensor, RuleMaximum, ValveManager, ValveStaysOpen,
     ValveExpires, ValveStaysClosed, ClockFires
<1>4. irrigation_hr' \in IrrigationHours /\ reset_water_flow' \in BOOLEAN
  BY <1>1, Zenon DEF TypeOK
<1> QED
  BY <1>1, <1>2, <1>3, <1>4, RestTyped

LEMMA AccountTyped == TypeOK /\ [IrrigationNext]_vars => TypeOK'
<1> SUFFICES ASSUME TypeOK, [IrrigationNext]_vars PROVE TypeOK'
  OBVIOUS
<1>1. CASE AccountSteps \/ Restart
  BY <1>1, TypeStep, Zenon DEF AccountSteps, Restart, Next, Environment
<1>2. CASE ButtonValve \/ ButtonSystem \/ NoButton \/ IrrigationManager \/ ValveManager \/ ClockFires
  BY <1>2, RuleTyped
<1>3. CASE Messages
  <2>1. irrigation_hr' \in IrrigationHours
    BY <1>3, IrrigationAssumption, Zenon DEF Messages, NewSettings, NewLimits, DefaultSettings, TypeOK
  <2>2. reset_water_flow' \in BOOLEAN
    BY <1>3, Zenon DEF Messages, NewSettings, NewLimits, DefaultSettings, TypeOK
  <2>3. pc' \in Places /\ valve_state' = valve_state /\ water_flow' = water_flow
    BY <1>3, Zenon DEF Messages, Places
  <2>4. UNCHANGED <<total_dispensed, update_nv, keeper, stored, clock, passed, count_day, lapse>>
    BY <1>3, Zenon DEF Messages
  <2>5. valve_state' \in {"CLOSE", "OPEN"}
    BY <2>3, Zenon DEF TypeOK
  <2> QED
    BY <2>1, <2>2, <2>3, <2>4, <2>5, RestTyped
<1>4. CASE CooldownEnds \/ ValveTimerFires \/ UNCHANGED vars
  BY <1>4, TypeStep, Zenon DEF CooldownEnds, ValveTimerFires, vars
<1> QED
  BY <1>1, <1>2, <1>3, <1>4, Zenon DEF IrrigationNext
-----------------------------------------------------------------------------
(* All values that a step can give a variable of the manager.              *)
LEMMA StepValues ==
  ASSUME [IrrigationNext]_vars
  PROVE  /\ open_litres' \in {open_litres, 0, low, amount, WaterToDispense}
         /\ sensor_data' \in {sensor_data, new_humidity, "none"}
         /\ new_humidity' \in {new_humidity, "none", "dry", "wet"}
         /\ auto_type' \in Types \cup {auto_type}
         /\ low' \in Minima \cup {low} /\ high' \in Maxima \cup {high}
         /\ amount' \in Amounts \cup {amount}
         /\ limit' \in {limit, MostOfDay, 0}
         /\ suspended' \in {suspended, ~suspended, FALSE}
         /\ minimum_requested' \in {minimum_requested, TRUE, FALSE}
         /\ settings_updated' \in {settings_updated, TRUE, FALSE}
         /\ clock_active' \in {clock_active, Kept(clock_active), TRUE, FALSE}
         /\ cooldown_active' \in {cooldown_active, Kept(cooldown_active), FALSE,
                                  cooldown_active \/ ~clock_active}
         /\ sensor_ready' \in {sensor_ready, clock_active, TRUE}
         /\ automatic' \in {automatic, TRUE, FALSE}
         /\ set_flow_expired' \in {set_flow_expired, FlowExpired, FALSE,
                                   set_flow_expired \/ FlowExpired}
         /\ timer_active' \in {timer_active, TRUE, FALSE}
<1> USE DEF ButtonValve, ButtonSystem, NoButton, IrrigationManager, TakeUpdates, Rule, RuleOff,
     RuleMinimum, RuleHourly, RuleSensor, RuleMaximum, ValveManager, ValveStaysOpen, ValveExpires,
     ValveStaysClosed, Messages, NewSettings, NewLimits, DefaultSettings, ClockFires, CooldownEnds,
     ValveTimerFires, Restart, AccountSteps, IrrigationNext, OpenValve, CloseValve, ClockAfter,
     ReadyAfterOpening, vars, irrigationVars, dose, expiry, timers, inputs, manager
<1>1. /\ open_litres' \in {open_litres, 0, low, amount, WaterToDispense}
      /\ automatic' \in {automatic, TRUE, FALSE}
  BY Zenon
<1>2. /\ sensor_data' \in {sensor_data, new_humidity, "none"}
      /\ new_humidity' \in {new_humidity, "none", "dry", "wet"}
  BY IrrigationAssumption, Zenon
<1>3. auto_type' \in Types \cup {auto_type}
  BY IrrigationAssumption, Zenon
<1>7. /\ low' \in Minima \cup {low} /\ high' \in Maxima \cup {high}
      /\ amount' \in Amounts \cup {amount}
  BY IrrigationAssumption, Zenon DEF limits
<1>8. limit' \in {limit, MostOfDay, 0}
  BY Zenon
<1>4. /\ suspended' \in {suspended, ~suspended, FALSE}
      /\ minimum_requested' \in {minimum_requested, TRUE, FALSE}
      /\ settings_updated' \in {settings_updated, TRUE, FALSE}
  BY Zenon
<1>5. /\ clock_active' \in {clock_active, Kept(clock_active), TRUE, FALSE}
      /\ cooldown_active' \in {cooldown_active, Kept(cooldown_active), FALSE,
                               cooldown_active \/ ~clock_active}
      /\ sensor_ready' \in {sensor_ready, clock_active, TRUE}
  BY Zenon
<1>6. /\ set_flow_expired' \in {set_flow_expired, FlowExpired, FALSE,
                                set_flow_expired \/ FlowExpired}
      /\ timer_active' \in {timer_active, TRUE, FALSE}
  BY Zenon
<1> QED
  BY <1>1, <1>2, <1>3, <1>4, <1>5, <1>6, <1>7, <1>8, Zenon

(* An opening has the litres of the button, of the minimum or of what the  *)
(* day still allows, which is less than nothing once the day has more.     *)
LEMMA OpenLitresStep ==
  TypeOK /\ LimitsTyped /\ OpenLitresTyped /\ [IrrigationNext]_vars => OpenLitresTyped'
<1> SUFFICES ASSUME TypeOK, LimitsTyped, OpenLitresTyped, [IrrigationNext]_vars
             PROVE  OpenLitresTyped'
  OBVIOUS
<1>1. \A n \in {0, low, amount, WaterToDispense} :
        /\ n \in Int /\ n >= -LitresBound
        /\ \E most \in Minima \cup Amounts : n <= most
  BY AccountAssumption, IrrigationAssumption, WaterInteger DEF LimitsTyped
<1> QED
  BY <1>1, StepValues DEF OpenLitresTyped

(* Settings come from their sets, and a limit is made of two of them.      *)
LEMMA LimitsStep == LimitsTyped /\ [IrrigationNext]_vars => LimitsTyped'
<1> SUFFICES ASSUME LimitsTyped, [IrrigationNext]_vars PROVE LimitsTyped'
  OBVIOUS
<1>1. MostOfDay \in Nat /\ 0 \in Nat
  BY IrrigationAssumption DEF LimitsTyped, MostOfDay
<1>2. limit' \in Nat
  BY <1>1, StepValues, Zenon DEF LimitsTyped
<1> QED
  BY <1>2, StepValues, Zenon DEF LimitsTyped

LEMMA DataStep == DataTyped /\ [IrrigationNext]_vars => DataTyped'
BY StepValues, Zenon DEF DataTyped

Flags == ManagerFlags /\ TimerFlags /\ ValveFlags

LEMMA FlagsStep == Flags /\ [IrrigationNext]_vars => Flags'
<1> SUFFICES ASSUME Flags, [IrrigationNext]_vars PROVE Flags'
  OBVIOUS
<1>1. ManagerFlags'
  BY StepValues, Zenon DEF Flags, ManagerFlags
<1>2. TimerFlags'
  BY StepValues, Zenon DEF Flags, TimerFlags, Kept
<1>3. ValveFlags'
  <2>1. FlowExpired \in BOOLEAN
    BY DEF FlowExpired
  <2> QED
    BY <2>1, StepValues, Zenon DEF Flags, ValveFlags
<1> QED
  BY <1>1, <1>2, <1>3, Zenon DEF Flags

(* Every variable of the manager, its timers and the account keeps its     *)
(* type under all interleavings of main loop, timer thread and restarts.   *)
THEOREM IrrigationTypeCorrect == IrrigationSpec => []IrrigationTypeOK
<1>1. IrrigationInit => TypeOK /\ LimitsTyped /\ OpenLitresTyped /\ DataTyped /\ Flags
  <2> SUFFICES ASSUME IrrigationInit PROVE TypeOK /\ LimitsTyped /\ OpenLitresTyped /\ DataTyped /\ Flags
    OBVIOUS
  <2>1. TypeOK
    BY TypeInit, Zenon DEF IrrigationInit
  <2>2. OpenLitresTyped
    BY AccountAssumption, IrrigationAssumption DEF IrrigationInit, OpenLitresTyped
  <2>3. DataTyped
    BY Zenon DEF IrrigationInit, DataTyped
  <2>5. LimitsTyped
    BY DEF IrrigationInit, LimitsTyped
  <2>4. Flags
    BY Zenon DEF IrrigationInit, Flags, ManagerFlags, TimerFlags, ValveFlags
  <2> QED
    BY <2>1, <2>2, <2>3, <2>4, <2>5
<1>2. TypeOK /\ LimitsTyped /\ OpenLitresTyped /\ DataTyped /\ Flags => IrrigationTypeOK
  BY Zenon DEF OpenLitresTyped, LimitsTyped, DataTyped, Flags, ManagerFlags, TimerFlags, ValveFlags,
     IrrigationTypeOK
<1> QED
  BY <1>1, <1>2, AccountTyped, OpenLitresStep, LimitsStep, DataStep, FlagsStep, PTL DEF IrrigationSpec

-----------------------------------------------------------------------------
(* The clock's timer runs in hourly mode only, or until the manager takes  *)
(* note of the settings that ended it (igh_irrigation_mngr).               *)
THEOREM ClockStopsForSensors == IrrigationSpec => []NoClockInSensorMode
<1>1. IrrigationInit => NoClockInSensorMode
  BY Zenon DEF IrrigationInit, NoClockInSensorMode
<1>2. NoClockInSensorMode /\ [IrrigationNext]_vars => NoClockInSensorMode'
  <2> SUFFICES ASSUME NoClockInSensorMode, [IrrigationNext]_vars PROVE NoClockInSensorMode'
    OBVIOUS
  <2>1. CASE TakeUpdates
    BY <2>1, Zenon DEF TakeUpdates, Kept, NoClockInSensorMode, inputs
  <2>2. CASE RuleHourly
    <3>1. auto_type' = "HOURLY"
      BY <2>2, Zenon DEF RuleHourly, Rule, inputs
    <3>2. auto_type' # "SENSOR"
      BY <3>1
    <3> QED
      BY <3>2, Zenon DEF NoClockInSensorMode
  <2>3. CASE Messages
    <3>1. CASE DefaultSettings
      <4>1. auto_type' # "SENSOR"
        BY <3>1 DEF DefaultSettings
      <4> QED
        BY <4>1, Zenon DEF NoClockInSensorMode
    <3>2. CASE NewSettings
      BY <3>2, Zenon DEF NewSettings, NoClockInSensorMode
    <3>3. CASE NewLimits
      <4>1. UNCHANGED clock_active
        BY <2>3, Zenon DEF Messages, timers
      <4> QED
        BY <3>3, <4>1, Zenon DEF NewLimits, NoClockInSensorMode
    <3> QED
      BY <2>3, <3>1, <3>2, <3>3, Zenon DEF Messages
  <2>4. CASE RuleMaximum \/ Restart
    BY <2>4, Zenon DEF RuleMaximum, Restart, NoClockInSensorMode
  <2>5. ASSUME \/ AccountSteps \/ ButtonValve \/ ButtonSystem \/ NoButton \/ ValveManager
               \/ RuleOff \/ RuleMinimum \/ RuleSensor
               \/ ClockFires \/ CooldownEnds \/ ValveTimerFires \/ UNCHANGED vars
        PROVE  UNCHANGED <<auto_type, settings_updated, clock_active>>
    BY <2>5, Zenon DEF AccountSteps, ButtonValve, ButtonSystem, NoButton, ValveManager,
       ValveStaysOpen, ValveExpires, ValveStaysClosed, RuleOff, RuleMinimum, RuleSensor, Rule,
       ClockFires, CooldownEnds, ValveTimerFires, vars, irrigationVars, timers, inputs
  <2>6. ASSUME UNCHANGED <<auto_type, settings_updated, clock_active>> PROVE NoClockInSensorMode'
    BY <2>6, Zenon DEF NoClockInSensorMode
  <2> QED
    BY <2>1, <2>2, <2>3, <2>4, <2>5, <2>6, Zenon DEF IrrigationNext, IrrigationManager
<1> QED
  BY <1>1, <1>2, PTL DEF IrrigationSpec

(* No reading opens the valve while the cooldown runs, through changes of  *)
(* mode that stop one timer and leave the other's flag behind              *)
(* (igh_irrigation_by_sensor_data).                                        *)
THEOREM CooldownIsKept == IrrigationSpec => []CooldownHolds
<1>1. IrrigationInit => CooldownHolds
  BY Zenon DEF IrrigationInit, CooldownHolds
<1>2. Flags /\ CooldownHolds /\ [IrrigationNext]_vars => CooldownHolds'
  <2> SUFFICES ASSUME Flags, CooldownHolds, [IrrigationNext]_vars PROVE CooldownHolds'
    OBVIOUS
  <2>1. CASE RuleSensor
    BY <2>1, Zenon DEF RuleSensor, ReadyAfterOpening, CooldownHolds
  <2>2. CASE TakeUpdates
    BY <2>2, Zenon DEF TakeUpdates, Kept, CooldownHolds
  <2>3. CASE RuleMaximum \/ Restart \/ CooldownEnds
    BY <2>3, Zenon DEF RuleMaximum, Restart, CooldownEnds, CooldownHolds
  <2>4. ASSUME \/ AccountSteps \/ ButtonValve \/ ButtonSystem \/ NoButton \/ ValveManager
               \/ RuleOff \/ RuleMinimum \/ RuleHourly \/ Messages
               \/ ClockFires \/ ValveTimerFires \/ UNCHANGED vars
        PROVE  UNCHANGED <<cooldown_active, sensor_ready>>
    BY <2>4, Zenon DEF AccountSteps, ButtonValve, ButtonSystem, NoButton, ValveManager,
       ValveStaysOpen, ValveExpires, ValveStaysClosed, RuleOff, RuleMinimum, RuleHourly, Rule,
       Messages, ClockFires, ValveTimerFires, vars, irrigationVars, timers
  <2>5. ASSUME UNCHANGED <<cooldown_active, sensor_ready>> PROVE CooldownHolds'
    BY <2>5, Zenon DEF CooldownHolds
  <2> QED
    BY <2>1, <2>2, <2>3, <2>4, <2>5, Zenon DEF IrrigationNext, IrrigationManager
<1>3. IrrigationInit => Flags
  BY Zenon DEF IrrigationInit, Flags, ManagerFlags, TimerFlags, ValveFlags
<1> QED
  BY <1>1, <1>2, <1>3, FlagsStep, PTL DEF IrrigationSpec
-----------------------------------------------------------------------------
(* Only the opening of a closed valve gives an opening its litres and its  *)
(* limit, and what is counted since then is part of the total of the day.  *)
DoseInv ==
  /\ open_litres \in Int
  /\ automatic => total_dispensed - water_flow + open_litres <= limit

LEMMA OpeningFits ==
  ASSUME TypeOK, LimitsTyped, DoseInv, UNCHANGED total_dispensed, NEW litres \in Int,
         \/ OpenValve(litres, TRUE) /\ total_dispensed + litres <= MostOfDay
         \/ OpenValve(litres, FALSE)
  PROVE  DoseInv'
<1>1. UNCHANGED water_flow /\ water_flow \in Nat /\ total_dispensed \in Nat
  BY AccountAssumption DEF OpenValve, TypeOK
<1>2. CASE valve_state = "OPEN"
  BY <1>1, <1>2, Zenon DEF OpenValve, DoseInv, dose
<1>3. CASE valve_state = "CLOSE"
  <2>1. open_litres' = litres /\ (automatic' => limit' = MostOfDay)
    BY <1>3, Zenon DEF OpenValve
  <2>2. automatic' => total_dispensed + litres <= MostOfDay
    BY <1>3, Zenon DEF OpenValve
  <2>3. automatic' => total_dispensed' - water_flow' + open_litres' <= limit'
    BY <1>1, <2>1, <2>2, WaterInteger
  <2>4. open_litres' \in Int
    BY <2>1
  <2> QED
    BY <2>3, <2>4, Zenon DEF DoseInv
<1> QED
  BY <1>2, <1>3 DEF TypeOK

LEMMA ClosingFits == ASSUME CloseValve PROVE DoseInv'
<1>1. open_litres' = 0 /\ ~automatic'
  BY Zenon DEF CloseValve
<1>2. open_litres' \in Int
  BY <1>1
<1> QED
  BY <1>1, <1>2, Zenon DEF DoseInv

(* A second of the flow meter adds as much to the opening as to the day,   *)
(* after a reset that only takes from the day.                             *)
LEMMA MeterFitsDose ==
  ASSUME TypeOK, LimitsTyped, DoseInv, automatic => valve_state = "OPEN", MeterRuns,
         UNCHANGED dose
  PROVE  DoseInv'
<1>1. PICK litres \in Nat : FlowService(litres)
  BY AccountAssumption DEF MeterRuns
<1>2. /\ Counted \in Nat /\ Counted <= total_dispensed
      /\ total_dispensed' = Counted + litres
  BY <1>1, AccountAssumption DEF FlowService, Added, Counted, TypeOK
<1>3. valve_state = "OPEN" => water_flow' = water_flow + litres
  BY <1>1 DEF FlowService
<1>4. UNCHANGED <<open_litres, automatic, limit>>
  BY Zenon DEF dose
<1>5. open_litres \in Int /\ water_flow \in Nat /\ total_dispensed \in Nat /\ limit \in Nat
  BY AccountAssumption DEF TypeOK, DoseInv, LimitsTyped
<1>6. open_litres' \in Int
  BY <1>4, <1>5
<1>7. valve_state = "OPEN" /\ total_dispensed - water_flow + open_litres <= limit
        => total_dispensed' - water_flow' + open_litres' <= limit'
  <2>1. open_litres' = open_litres /\ limit' = limit
    BY <1>4
  <2> QED
    BY <1>2, <1>3, <1>5, <2>1
<1> QED
  BY <1>4, <1>6, <1>7, Zenon DEF DoseInv

LEMMA LessCounted ==
  ASSUME NEW t \in Nat, NEW u \in Nat, u <= t, NEW w \in Nat, NEW o \in Int, NEW h \in Nat,
         t - w + o <= h
  PROVE  u - w + o <= h
OBVIOUS

AutoOpen == automatic => valve_state = "OPEN"

LEMMA AutoIsOpen == AutoOpen /\ [IrrigationNext]_vars => AutoOpen'
<1> SUFFICES ASSUME AutoOpen, [IrrigationNext]_vars PROVE AutoOpen'
  OBVIOUS
<1>1. \/ valve_state' = "OPEN"
      \/ ~automatic'
      \/ UNCHANGED <<automatic, valve_state>>
  BY Zenon DEF AccountSteps, TimeKeeper, NotYetTime, TimeToIrrigate, TimeUnknown, ZeroTotal,
     EndOfReset, MeterRuns, FlowService, Tick, TimeSync, ButtonValve, ButtonSystem, NoButton,
     IrrigationManager, TakeUpdates, Rule, RuleOff, RuleMinimum, RuleHourly, RuleSensor,
     RuleMaximum, ValveManager, ValveStaysOpen, ValveExpires, ValveStaysClosed, Messages,
     ClockFires, CooldownEnds, ValveTimerFires, Restart, IrrigationNext, OpenValve, CloseValve,
     vars, accountVars, irrigationVars, dose
<1> QED
  BY <1>1, Zenon DEF AutoOpen

(* Whatever automatic irrigation opens the valve for is water the day      *)
(* allowed when it opened it: for all doses and limits, wherever messages  *)
(* change them, and whoever else waters                                    *)
(* (igh_irrigation_calculate_water_to_dispense, igh_shield/README.md:229). *)
THEOREM AutomaticDosesFit == IrrigationSpec => []AutoDoseFits
<1>1. IrrigationInit => LimitsTyped /\ DoseInv /\ AutoOpen
  <2>1. IrrigationInit => open_litres = 0
    BY Zenon DEF IrrigationInit
  <2>2. IrrigationInit => open_litres \in Int
    BY <2>1
  <2>3. IrrigationInit => LimitsTyped
    BY DEF IrrigationInit, LimitsTyped
  <2> QED
    BY <2>2, <2>3, Zenon DEF IrrigationInit, DoseInv, AutoOpen
<1>2. TypeOK /\ LimitsTyped /\ DoseInv /\ AutoOpen /\ [IrrigationNext]_vars => DoseInv'
  <2> SUFFICES ASSUME TypeOK, LimitsTyped, DoseInv, AutoOpen, [IrrigationNext]_vars
               PROVE  DoseInv'
    OBVIOUS
  <2>1. ASSUME UNCHANGED <<water_flow, open_litres, automatic, limit>>,
               total_dispensed' \in {total_dispensed, 0}
        PROVE  DoseInv'
    <3>1. total_dispensed' <= total_dispensed /\ total_dispensed' \in Nat
      BY <2>1, AccountAssumption DEF TypeOK
    <3>2. /\ total_dispensed \in Nat /\ water_flow \in Nat /\ open_litres \in Int
          /\ limit \in Nat
      BY AccountAssumption DEF TypeOK, DoseInv, LimitsTyped
    <3>3. total_dispensed - water_flow + open_litres <= limit =>
            total_dispensed' - water_flow' + open_litres' <= limit'
      <4>1. water_flow' = water_flow /\ open_litres' = open_litres /\ limit' = limit
        BY <2>1
      <4> QED
        BY <3>1, <3>2, <4>1, LessCounted
    <3>4. open_litres' \in Int
      BY <2>1, <3>2
    <3> QED
      BY <2>1, <3>3, <3>4, Zenon DEF DoseInv
  <2>2. CASE AccountSteps /\ ~MeterRuns
    BY <2>1, <2>2, Zenon DEF AccountSteps, TimeKeeper, NotYetTime, TimeToIrrigate, TimeUnknown,
       ZeroCount, KeepCount, ZeroTotal, EndOfReset, Tick, TimeSync, meter, irrigationVars, dose
  <2>3. CASE AccountSteps /\ MeterRuns
    BY <2>3, MeterFitsDose, Zenon DEF AccountSteps, AutoOpen, irrigationVars
  <2>4. CASE ButtonValve
    <3>1. UNCHANGED total_dispensed /\ (OpenValve(amount, FALSE) \/ CloseValve)
      BY <2>4, Zenon DEF ButtonValve, accountRest
    <3>2. amount \in Int
      BY WaterInteger
    <3> QED
      BY <3>1, <3>2, OpeningFits, ClosingFits, Zenon
  <2>5. CASE RuleMinimum
    <3>1. UNCHANGED total_dispensed /\ total_dispensed < low
          /\ (OpenValve(low, TRUE) \/ UNCHANGED <<water_flow, dose>>)
      BY <2>5, Zenon DEF RuleMinimum, Rule, accountRest
    <3>2. total_dispensed + low <= MostOfDay /\ low \in Int
      BY <3>1, WaterInteger, AccountAssumption DEF TypeOK
    <3>3. CASE OpenValve(low, TRUE)
      BY <3>1, <3>2, <3>3, OpeningFits, Zenon
    <3>4. CASE UNCHANGED <<water_flow, dose>>
      BY <2>1, <3>1, <3>4, Zenon DEF dose
    <3> QED
      BY <3>1, <3>3, <3>4
  <2>6. CASE RuleSensor \/ ClockFires
    <3>1. UNCHANGED total_dispensed
          /\ (OpenValve(WaterToDispense, TRUE) \/ UNCHANGED <<water_flow, dose>>)
      BY <2>6, Zenon DEF RuleSensor, ClockFires, Rule, accountRest
    <3>2. WaterToDispense \in Int /\ total_dispensed + WaterToDispense <= MostOfDay
      BY WaterInteger, AccountAssumption DEF TypeOK
    <3>3. CASE OpenValve(WaterToDispense, TRUE)
      BY <3>1, <3>2, <3>3, OpeningFits
    <3>4. CASE UNCHANGED <<water_flow, dose>>
      BY <2>1, <3>1, <3>4, Zenon DEF dose
    <3> QED
      BY <3>1, <3>3, <3>4
  <2>7. CASE ValveExpires
    BY <2>7, ClosingFits, Zenon DEF ValveExpires
  <2>8. CASE Restart
    <3>1. open_litres' = 0 /\ ~automatic'
      BY <2>8, Zenon DEF Restart
    <3>2. open_litres' \in Int
      BY <3>1
    <3> QED
      BY <3>1, <3>2, Zenon DEF DoseInv
  <2>9. ASSUME \/ ButtonSystem \/ NoButton \/ TakeUpdates \/ RuleOff \/ RuleHourly \/ RuleMaximum
               \/ ValveStaysOpen \/ ValveStaysClosed \/ Messages
               \/ CooldownEnds \/ ValveTimerFires \/ UNCHANGED vars
        PROVE  UNCHANGED <<water_flow, open_litres, automatic, limit, total_dispensed>>
    BY <2>9, Zenon DEF ButtonSystem, NoButton, TakeUpdates, RuleOff, RuleHourly, RuleMaximum, Rule,
       ValveStaysOpen, ValveStaysClosed, Messages, CooldownEnds, ValveTimerFires, vars,
       accountVars, accountRest, meter, irrigationVars, dose
  <2>10. CASE UNCHANGED <<water_flow, open_litres, automatic, limit, total_dispensed>>
    BY <2>1, <2>10, Zenon
  <2> QED
    BY <2>2, <2>3, <2>4, <2>5, <2>6, <2>7, <2>8, <2>9, <2>10, Zenon
       DEF IrrigationNext, IrrigationManager, ValveManager
<1>3. DoseInv => AutoDoseFits
  BY Zenon DEF DoseInv, AutoDoseFits
<1>4. IrrigationInit => TypeOK
  BY TypeInit, Zenon DEF IrrigationInit
<1> QED
  BY <1>1, <1>2, <1>3, <1>4, AutoIsOpen, LimitsStep, AccountTyped, PTL DEF IrrigationSpec
-----------------------------------------------------------------------------
(* Irrigation implements WaterAccount: each handler of a pass is one of    *)
(* the account's other handlers, the clock's timer is ClockOpens, the      *)
(* timers of cooldown and valve are nothing to the account.                *)
LEMMA QuietHandlers ==
  ASSUME TypeOK, NoButton \/ ButtonSystem \/ TakeUpdates
  PROVE  OtherHandlers
<1>1. pc \in Handlers /\ pc' \in Handlers \cup {"time"}
  BY IrrigationAssumption, Zenon DEF NoButton, ButtonSystem, TakeUpdates
<1>2. UNCHANGED <<accountRest, reset_water_flow, water_flow, valve_state>>
  BY Zenon DEF NoButton, ButtonSystem, TakeUpdates
<1> QED
  BY <1>1, <1>2, Zenon DEF OtherHandlers, accountRest, TypeOK

LEMMA ValveHandlers ==
  ASSUME TypeOK,
         \/ ButtonValve \/ RuleOff \/ RuleMinimum \/ RuleHourly \/ RuleSensor \/ RuleMaximum
         \/ ValveManager
  PROVE  OtherHandlers
<1>1. pc \in Handlers /\ pc' \in Handlers \cup {"time"}
  BY IrrigationAssumption, Zenon DEF ButtonValve, Rule, RuleOff, RuleMinimum, RuleHourly,
     RuleSensor, RuleMaximum, ValveManager, ValveStaysOpen, ValveExpires, ValveStaysClosed
<1>2. UNCHANGED <<accountRest, reset_water_flow>>
  BY Zenon DEF ButtonValve, Rule, RuleOff, RuleMinimum, RuleHourly, RuleSensor, RuleMaximum,
     ValveManager, ValveStaysOpen, ValveExpires, ValveStaysClosed
<1>3. \/ valve_state' \in {valve_state, "OPEN"} /\ water_flow' = water_flow
      \/ valve_state' = "CLOSE" /\ water_flow' = 0
  BY Zenon DEF ButtonValve, RuleOff, RuleMinimum, RuleHourly, RuleSensor, RuleMaximum,
     ValveManager, ValveStaysOpen, ValveExpires, ValveStaysClosed, OpenValve, CloseValve
<1> QED
  BY <1>1, <1>2, <1>3, Zenon DEF OtherHandlers, accountRest, TypeOK

LEMMA MessageHandler == ASSUME TypeOK, Messages PROVE OtherHandlers
<1>1. pc \in Handlers /\ pc' \in Handlers \cup {"time"}
  BY IrrigationAssumption, Zenon DEF Messages
<1>2. /\ irrigation_hr' \in IrrigationHours
      /\ reset_water_flow' \in {reset_water_flow, TRUE}
  BY IrrigationAssumption, Zenon DEF Messages, NewSettings, NewLimits, DefaultSettings, TypeOK
<1> QED
  BY <1>1, <1>2, Zenon DEF Messages, OtherHandlers

LEMMA ClockHandler == ASSUME TypeOK, ClockFires PROVE ClockOpens \/ UNCHANGED accountVars
<1>1. UNCHANGED <<accountRest, reset_water_flow, water_flow, pc>> /\ valve_state' = "OPEN"
  BY Zenon DEF ClockFires, OpenValve
<1>2. CASE valve_state = "CLOSE"
  BY <1>1, <1>2, Zenon DEF ClockOpens, accountRest, meter
<1>3. CASE valve_state = "OPEN"
  BY <1>1, <1>3, Zenon DEF accountRest, accountVars, meter
<1> QED
  BY <1>2, <1>3, Zenon DEF TypeOK

LEMMA AccountStep == TypeOK /\ [IrrigationNext]_vars => [Next]_accountVars
<1> SUFFICES ASSUME TypeOK, [IrrigationNext]_vars PROVE [Next]_accountVars
  OBVIOUS
<1>1. CASE AccountSteps \/ Restart
  BY <1>1, Zenon DEF AccountSteps, Restart, Next, Environment
<1>2. CASE ButtonValve \/ ButtonSystem \/ NoButton \/ IrrigationManager \/ ValveManager \/ Messages
  BY <1>2, QuietHandlers, ValveHandlers, MessageHandler, Zenon DEF IrrigationManager, Next
<1>3. CASE ClockFires
  BY <1>3, ClockHandler, Zenon DEF Next
<1>4. CASE CooldownEnds \/ ValveTimerFires \/ UNCHANGED vars
  BY <1>4, Zenon DEF CooldownEnds, ValveTimerFires, vars
<1> QED
  BY <1>1, <1>2, <1>3, <1>4, Zenon DEF IrrigationNext

(* The managers of irrigation, valve, button and messages and their timers *)
(* do nothing to the account of water that WaterAccount does not reckon    *)
(* with, so what is proved of the account holds in the whole Shield.       *)
THEOREM IrrigationIsAccount == IrrigationSpec => ImplementsAccount
<1>1. IrrigationInit => Init
  BY Zenon DEF IrrigationInit
<1>2. IrrigationInit => TypeOK
  BY <1>1, TypeInit, Zenon
<1> QED
  BY <1>1, <1>2, AccountTyped, AccountStep, PTL DEF IrrigationSpec, ImplementsAccount, Spec

(* With the handlers of igh_main in the place of the environment, EEPROM   *)
(* claims more water than was counted in one way only: the write of a      *)
(* reset was overtaken by the meter's.                                     *)
THEOREM NvIsNeverAheadHere == IrrigationSpec => []NvNeverOverstates
BY IrrigationIsAccount, NvIsNeverAhead, PTL DEF ImplementsAccount

(* No button, reading, message or timer makes the time keeper start a      *)
(* second count in a day.                                                  *)
THEOREM ResetsOnceHere == IrrigationSpec => NoSecondReset
BY IrrigationIsAccount, ResetsOnce, PTL DEF ImplementsAccount

(* Whenever irrigation is enabled, no litre in the count is older than     *)
(* this day but in one that a reset has missed, with the real handlers     *)
(* between the passes of the time keeper.                                  *)
THEOREM CountIsOfTodayHere == IrrigationSpec => []EnabledCountIsTodays
BY IrrigationIsAccount, CountIsOfToday, PTL DEF ImplementsAccount

-----------------------------------------------------------------------------
(* A rule of the manager that opens the valve in the hour the time keeper  *)
(* has last looked at, on a count that no reset has missed ...             *)
RuleOpens == IrrigationManager /\ valve_state = "CLOSE" /\ valve_state' = "OPEN"

(* ... has compared this day's water with the limits.                      *)
RulesSeeToday ==
  [][RuleOpens /\ passed /\ lapse = "none" =>
       total_dispensed = 0 \/ count_day = day]_vars

(* What igh_irrigation_mngr decides on is the water of this very day: the  *)
(* rules run only while irrigation is enabled, and the time keeper, which  *)
(* enables it, has put an older count away or left its mark on it.         *)
THEOREM RulesDecideOnToday == IrrigationSpec => RulesSeeToday
<1>1. RuleOpens => enabled
  <2>1. RuleOpens => AutoOn
    BY DEF RuleOpens, IrrigationManager, TakeUpdates, RuleOff, RuleMinimum, RuleHourly,
       RuleSensor, RuleMaximum
  <2> QED
    BY <2>1, Zenon DEF AutoOn
<1>2. EnabledCountIsTodays /\ [IrrigationNext]_vars =>
        [RuleOpens /\ passed /\ lapse = "none" => total_dispensed = 0 \/ count_day = day]_vars
  BY <1>1, Zenon DEF EnabledCountIsTodays
<1> QED
  BY <1>2, CountIsOfTodayHere, PTL DEF IrrigationSpec, RulesSeeToday
=============================================================================
