----------------------------- MODULE Irrigation -----------------------------
(***************************************************************************)
(* The irrigation manager of the Shield (igh_irrigation.cpp) with what it  *)
(* acts on and is driven by: the valve (igh_valve.cpp), the button's two   *)
(* commands (igh_button.cpp), the settings and humidity that messages      *)
(* bring, its clock and cooldown timers, and WaterAccount's flow meter,    *)
(* time keeper, EEPROM and restarts.                                       *)
(*                                                                         *)
(* A handler of the main loop is one step here, except that the timer      *)
(* thread may run inside the time keeper and the irrigation manager; what  *)
(* it can do inside the valve's own functions is the subject of Valve.     *)
(***************************************************************************)
EXTENDS WaterAccount

CONSTANTS
  Minima,        (* the values settings give water_dispensed_period_low *)
  Maxima,        (* ... and water_dispensed_period_high *)
  Amounts,       (* ... and water_amount_by_button_press *)
  Types,         (* ... and auto_irrigation_type *)
  DefaultLow, DefaultHigh, DefaultAmount, DefaultHour,
                 (* what igh_settings_get_defaults gives these and irrigation_hr *)
  Readings       (* the humidities the nodes report, against the thresholds *)

ASSUME IrrigationAssumption ==
  /\ Minima \subseteq Nat /\ Maxima \subseteq Nat /\ Amounts \subseteq Nat
  /\ DefaultLow \in Minima /\ DefaultHigh \in Maxima /\ DefaultAmount \in Amounts
  /\ "HOURLY" \in Types /\ Types \subseteq {"HOURLY", "SENSOR"}
  /\ DefaultHour \in IrrigationHours
  /\ Readings \subseteq {"dry", "wet"}
  /\ Handlers = {"button", "irrigation", "rules", "valve", "message"}

VARIABLES
  open_litres,         (* current_valve_ctrl.open_litres *)
  set_flow_expired,
  timer_active,        (* igh_valve_timer.isActive() *)
  suspended,           (* irrigation_suspended *)
  minimum_requested,   (* minimum_daily_water_request_flag *)
  clock_active,        (* igh_irrigation_by_the_clock_timer.isActive() *)
  cooldown_active,     (* igh_irrigation_by_sensor_data_timer.isActive() *)
  sensor_ready,        (* irrigation_by_sensor_timer_expired *)
  sensor_data,         (* current_irrigation_data: none, or against its thresholds *)
  new_humidity,        (* new_humidity, while irrigation_sensor_data_updated *)
  settings_updated,    (* irrigation_settings_updated *)
  auto_type,           (* auto_irrigation_type *)
  low,                 (* water_dispensed_period_low: the daily minimum *)
  high,                (* water_dispensed_period_high: the daily maximum *)
  amount,              (* water_amount_by_button_press *)
  automatic,           (* history: it is automatic irrigation that has the valve open *)
  limit                (* history: MostOfDay when it opened it *)

dose     == <<open_litres, automatic, limit>>
expiry   == <<set_flow_expired, timer_active>>
timers   == <<clock_active, cooldown_active, sensor_ready>>
limits   == <<low, high, amount>>
inputs   == <<new_humidity, settings_updated, auto_type, limits>>
manager  == <<suspended, minimum_requested, sensor_data>>
irrigationVars == <<dose, expiry, timers, inputs, manager>>
vars == <<accountVars, irrigationVars>>

(* What the account's own steps leave alone, and what only they touch.     *)
accountRest == <<total_dispensed, update_nv, keeper, irrigation_hr, stored, clock,
                 passed, count_day, lapse>>

IrrigationInit ==
  /\ Init
  /\ open_litres = 0 /\ automatic = FALSE /\ limit = 0
  /\ set_flow_expired = FALSE /\ timer_active = FALSE
  /\ suspended = FALSE /\ minimum_requested = FALSE
  /\ clock_active = FALSE /\ cooldown_active = FALSE /\ sensor_ready = TRUE
  /\ sensor_data = "none" /\ new_humidity = "none"
  /\ settings_updated = FALSE /\ auto_type \in Types
  /\ low \in Minima /\ high \in Maxima /\ amount \in Amounts

-----------------------------------------------------------------------------
(* igh_valve_change_state: a request for the state the valve is in is      *)
(* ignored, closing resets the opening.                                    *)

(* The most an automatic opening may bring the day to: the maximum, or for *)
(* the opening that brings the minimum what it makes with nearly a minimum *)
(* counted before.                                                         *)
MostOfDay == IF 2 * low > high THEN 2 * low ELSE high

(* Mutant for IrrigationTypeOK: the duration in the place of the litres.   *)
OpenValveSwapped(litres, auto) ==
  /\ valve_state' = "OPEN"
  /\ IF valve_state = "CLOSE"
     THEN open_litres' = 3600000 /\ automatic' = auto /\ limit' = 0
     ELSE UNCHANGED dose
  /\ UNCHANGED water_flow

OpenValve(litres, auto) ==
  /\ valve_state' = "OPEN"
  /\ IF valve_state = "CLOSE"
     THEN /\ open_litres' = litres
          /\ automatic' = auto
          /\ limit' = IF auto THEN MostOfDay ELSE 0
     ELSE UNCHANGED dose
  /\ UNCHANGED water_flow

(* Mutant for ImplementsAccount: the meter of the opening runs on.         *)
CloseValveOnly ==
  /\ valve_state' = "CLOSE"
  /\ open_litres' = 0
  /\ automatic' = FALSE /\ limit' = 0
  /\ UNCHANGED water_flow

CloseValve ==
  /\ valve_state' = "CLOSE"
  /\ open_litres' = 0
  /\ water_flow' = 0
  /\ automatic' = FALSE /\ limit' = 0

(* igh_irrigation_calculate_water_to_dispense: less than nothing once the  *)
(* total is over the maximum.  (Mutant for AutoDoseFits: no look at the    *)
(* maximum.)                                                               *)
WaterToDispenseUncapped == amount

WaterToDispense ==
  IF high - total_dispensed < amount THEN high - total_dispensed ELSE amount

-----------------------------------------------------------------------------
(* The button (igh_button_mngr): a press of 3 to 9 seconds opens or closes *)
(* the valve, a longer one suspends or resumes automatic irrigation.       *)

ButtonValve ==
  /\ pc = "button" /\ time_valid
  /\ \/ valve_state = "CLOSE" /\ OpenValve(amount, FALSE)
     \/ valve_state = "OPEN" /\ CloseValve
  /\ pc' = "irrigation"
  /\ UNCHANGED <<accountRest, reset_water_flow, expiry, timers, inputs, manager>>

ButtonSystem ==
  /\ pc = "button"
  /\ suspended' = ~suspended
  /\ pc' = "irrigation"
  /\ UNCHANGED <<accountRest, reset_water_flow, water_flow, valve_state, dose, expiry,
                 timers, inputs, minimum_requested, sensor_data>>

NoButton ==
  /\ pc = "button"
  /\ pc' = "irrigation"
  /\ UNCHANGED <<accountRest, reset_water_flow, water_flow, valve_state, irrigationVars>>

-----------------------------------------------------------------------------
(* igh_irrigation_mngr.  First what messages left for it ...               *)

(* igh_irrigation_disable_unused_timers, if the settings have changed      *)
(* (mutant for NoClockInSensorMode: the timers run on).                    *)
KeptRunning(active) == active

Kept(active) == active /\ ~settings_updated

TakeUpdates ==
  /\ pc = "irrigation"
  /\ settings_updated' = FALSE
  /\ new_humidity' = "none"
  /\ clock_active' = Kept(clock_active)
  /\ cooldown_active' = Kept(cooldown_active)
  /\ sensor_data' = CASE new_humidity # "none" -> new_humidity
                      [] new_humidity = "none" /\ settings_updated -> "none"
                      [] OTHER -> sensor_data
  /\ pc' = "rules"
  /\ UNCHANGED <<accountRest, reset_water_flow, water_flow, valve_state, dose, expiry,
                 sensor_ready, auto_type, limits, suspended, minimum_requested>>

(* ... then the rules of irrigation, if it is on.                          *)

AutoOn == time_valid /\ enabled /\ ~suspended

Rule ==
  /\ pc = "rules"
  /\ pc' = "valve"
  /\ UNCHANGED <<accountRest, reset_water_flow, expiry, inputs, suspended>>

RuleOff ==
  /\ Rule /\ ~AutoOn
  /\ UNCHANGED <<valve_state, water_flow, dose, timers, minimum_requested, sensor_data>>

RuleMinimum ==
  /\ Rule /\ AutoOn /\ total_dispensed < low
  /\ \/ /\ ~minimum_requested
        /\ OpenValve(low, TRUE)
        /\ minimum_requested' = TRUE
     \/ /\ minimum_requested
        /\ UNCHANGED <<valve_state, water_flow, dose, minimum_requested>>
  /\ UNCHANGED <<timers, sensor_data>>

BetweenLimits == total_dispensed >= low /\ total_dispensed < high

(* Is the clock's timer running after the rule?  (Mutant for               *)
(* HourlyKeepsItsTimer: it is started only when the minimum is complete.)  *)
ClockAfterOnce == clock_active \/ minimum_requested

ClockAfter == TRUE

RuleHourly ==
  /\ Rule /\ AutoOn /\ BetweenLimits /\ auto_type = "HOURLY"
  /\ minimum_requested' = FALSE
  /\ clock_active' = ClockAfter
  /\ UNCHANGED <<valve_state, water_flow, dose, cooldown_active, sensor_ready, sensor_data>>

(* irrigation_by_sensor_timer_expired after a reading has opened the valve *)
(* (mutant for CooldownHolds: the flag is not taken down).                 *)
ReadyAfterOpeningKept == TRUE

ReadyAfterOpening == clock_active

(* igh_irrigation_by_sensor_data: a dry reading opens the valve unless the *)
(* cooldown of the last such opening is on; a reading is used up once.     *)
RuleSensor ==
  /\ Rule /\ AutoOn /\ BetweenLimits /\ auto_type = "SENSOR"
  /\ minimum_requested' = FALSE
  /\ sensor_data' = "none"
  /\ \/ /\ sensor_data = "dry" /\ sensor_ready
        /\ cooldown_active' = (cooldown_active \/ ~clock_active)
        /\ sensor_ready' = ReadyAfterOpening
        /\ OpenValve(WaterToDispense, TRUE)
     \/ /\ sensor_data # "dry" \/ ~sensor_ready
        /\ UNCHANGED <<cooldown_active, sensor_ready, valve_state, water_flow, dose>>
  /\ UNCHANGED clock_active

(* The maximum is reached: igh_irrigation_disable_unused_timers.           *)
RuleMaximum ==
  /\ Rule /\ AutoOn /\ total_dispensed >= low /\ total_dispensed >= high
  /\ minimum_requested' = FALSE
  /\ sensor_data' = "none"
  /\ clock_active' = FALSE
  /\ cooldown_active' = FALSE
  /\ UNCHANGED <<sensor_ready, valve_state, water_flow, dose>>

IrrigationManager ==
  TakeUpdates \/ RuleOff \/ RuleMinimum \/ RuleHourly \/ RuleSensor \/ RuleMaximum

-----------------------------------------------------------------------------
(* igh_valve_mngr of an open valve starts its timer unless it runs (an     *)
(* expiry between two passes is lost there), and closes on the flow flag   *)
(* of an earlier pass or on the timer running out between the two tests.   *)
(* Then it compares the flow.                                              *)

(* igh_valve_flow_action (mutant for AutoStopsAtMaximum: the flow is       *)
(* compared with the duration).                                            *)
FlowExpiredByDuration == water_flow > 3600000

FlowExpired == water_flow > open_litres

ValveStaysOpen ==
  /\ pc = "valve" /\ valve_state = "OPEN" /\ ~set_flow_expired
  /\ timer_active' = TRUE
  /\ set_flow_expired' = FlowExpired
  /\ pc' = "message"
  /\ UNCHANGED <<accountRest, reset_water_flow, water_flow, valve_state, dose, timers,
                 inputs, manager>>

ValveExpires ==
  /\ pc = "valve" /\ valve_state = "OPEN"
  /\ set_flow_expired \/ timer_active
  /\ timer_active' = FALSE
  /\ set_flow_expired' = FALSE
  /\ CloseValve
  /\ pc' = "message"
  /\ UNCHANGED <<accountRest, reset_water_flow, timers, inputs, manager>>

ValveStaysClosed ==
  /\ pc = "valve" /\ valve_state = "CLOSE"
  /\ set_flow_expired' = (set_flow_expired \/ FlowExpired)
  /\ pc' = "message"
  /\ UNCHANGED <<accountRest, reset_water_flow, water_flow, valve_state, timer_active,
                 dose, timers, inputs, manager>>

ValveManager == ValveStaysOpen \/ ValveExpires \/ ValveStaysClosed

-----------------------------------------------------------------------------
(* What messages change in a pass: a sensor node reports a humidity, new   *)
(* settings come over MQTT or serial, tuple by tuple, and the serial port  *)
(* takes RESET-IRR and RESET-SYS.  Tuples are taken as they are: a maximum *)
(* under the minimum, limits in the middle of an opening.  New limits and  *)
(* the defaults come without a word to the irrigation manager.             *)

NewSettings ==
  /\ auto_type' \in Types /\ irrigation_hr' \in IrrigationHours /\ amount' \in Amounts
  /\ settings_updated' = TRUE
  /\ reset_water_flow' \in {reset_water_flow, TRUE}
  /\ UNCHANGED <<low, high>>

NewLimits ==
  /\ low' \in Minima /\ high' \in Maxima
  /\ reset_water_flow' \in {reset_water_flow, TRUE}
  /\ UNCHANGED <<settings_updated, auto_type, irrigation_hr, amount>>

DefaultSettings ==
  /\ auto_type' = "HOURLY" /\ irrigation_hr' = DefaultHour /\ amount' = DefaultAmount
  /\ low' = DefaultLow /\ high' = DefaultHigh
  /\ reset_water_flow' = TRUE
  /\ UNCHANGED settings_updated

Messages ==
  /\ pc = "message"
  /\ pc' = "time"
  /\ new_humidity' \in {new_humidity} \cup Readings
  /\ NewSettings \/ NewLimits \/ DefaultSettings
  /\ UNCHANGED <<total_dispensed, update_nv, keeper, stored, clock, passed, count_day, lapse,
                 water_flow, valve_state, dose, expiry, timers, manager>>

-----------------------------------------------------------------------------
(* The timer thread.                                                       *)

ClockFires ==
  /\ clock_active
  /\ OpenValve(WaterToDispense, TRUE)
  /\ UNCHANGED <<accountRest, reset_water_flow, pc, expiry, timers, inputs, manager>>

CooldownEnds ==
  /\ cooldown_active
  /\ cooldown_active' = FALSE
  /\ sensor_ready' = TRUE
  /\ UNCHANGED <<accountVars, dose, expiry, clock_active, inputs, manager>>

ValveTimerFires ==
  /\ timer_active
  /\ timer_active' = FALSE
  /\ UNCHANGED <<accountVars, dose, set_flow_expired, timers, inputs, manager>>

(* A restart forgets everything; the settings are those EEPROM had.        *)
Restart ==
  /\ Reboot
  /\ open_litres' = 0 /\ automatic' = FALSE /\ limit' = 0
  /\ set_flow_expired' = FALSE /\ timer_active' = FALSE
  /\ suspended' = FALSE /\ minimum_requested' = FALSE
  /\ clock_active' = FALSE /\ cooldown_active' = FALSE /\ sensor_ready' = TRUE
  /\ sensor_data' = "none" /\ new_humidity' = "none"
  /\ settings_updated' = FALSE
  /\ auto_type' \in Types
  /\ low' \in Minima /\ high' \in Maxima /\ amount' \in Amounts

AccountSteps ==
  /\ TimeKeeper \/ MeterRuns \/ Tick \/ TimeSync
  /\ UNCHANGED irrigationVars

MainLoop ==
  \/ TimeKeeper /\ UNCHANGED irrigationVars
  \/ ButtonValve \/ ButtonSystem \/ NoButton
  \/ IrrigationManager \/ ValveManager \/ Messages

IrrigationNext ==
  \/ AccountSteps
  \/ ButtonValve \/ ButtonSystem \/ NoButton
  \/ IrrigationManager \/ ValveManager \/ Messages
  \/ ClockFires \/ CooldownEnds \/ ValveTimerFires
  \/ Restart

IrrigationSpec == IrrigationInit /\ [][IrrigationNext]_vars

(* The main loop goes round; nobody owes water, messages or presses.       *)
FairIrrigationSpec == IrrigationSpec /\ WF_vars(MainLoop)

-----------------------------------------------------------------------------
IrrigationTypeOK ==
  /\ TypeOK
  /\ low \in Minima /\ high \in Maxima /\ amount \in Amounts
  /\ open_litres \in Int /\ open_litres >= -LitresBound
  /\ \E most \in Minima \cup Amounts : open_litres <= most
  /\ automatic \in BOOLEAN /\ limit \in Nat
  /\ set_flow_expired \in BOOLEAN /\ timer_active \in BOOLEAN
  /\ suspended \in BOOLEAN /\ minimum_requested \in BOOLEAN
  /\ clock_active \in BOOLEAN /\ cooldown_active \in BOOLEAN
  /\ sensor_ready \in BOOLEAN
  /\ sensor_data \in {"none", "dry", "wet"} /\ new_humidity \in {"none", "dry", "wet"}
  /\ settings_updated \in BOOLEAN /\ auto_type \in Types

(* Whatever the button, the manager, the messages and the timers do, the   *)
(* account of water only sees what WaterAccount lets the rest of the       *)
(* Shield do: every step of irrigation is one of the account's or none, so *)
(* what is shown of the account for any handlers holds of these.           *)
ImplementsAccount == Spec

(* What automatic irrigation opens the valve for fits into what the day    *)
(* allowed when it opened it, whoever else watered before, and whatever is *)
(* counted, reset, restarted or set anew while it is open                  *)
(* (igh_irrigation_calculate_water_to_dispense): the litres counted before *)
(* this opening plus its own do not pass the limit of then.                *)
AutoDoseFits ==
  automatic => total_dispensed - water_flow + open_litres <= limit

(* In sensor mode no clock irrigation is left running: once the manager    *)
(* has seen a change of settings, the hourly timer of the mode before is   *)
(* stopped (igh_irrigation_disable_unused_timers).                         *)
NoClockInSensorMode ==
  auto_type = "SENSOR" /\ ~settings_updated => ~clock_active

(* While the cooldown runs no reading opens the valve, however the modes   *)
(* change (igh_irrigation_by_sensor_data): no two openings for one dryness. *)
CooldownHolds == cooldown_active => ~sensor_ready

(* Automatic irrigation that has brought the day past the limit it was     *)
(* opened under stops, whatever messages, presses and timers do meanwhile  *)
(* (igh_shield/README.md:229).  A maximum lowered during the opening stops *)
(* it no sooner: nothing looks at the maximum while the valve is open.     *)
AutoStopsAtMaximum ==
  automatic /\ total_dispensed > limit
    ~> valve_state = "CLOSE"

(* Hourly irrigation that stays due never loses its timer for good: the    *)
(* settings that stop it (igh_irrigation_disable_unused_timers) do not     *)
(* keep the rule from starting it again.                                   *)
HourlyDue == AutoOn /\ BetweenLimits /\ auto_type = "HOURLY"

HourlyKeepsItsTimer == <>[]HourlyDue => []<>clock_active

-----------------------------------------------------------------------------
(* What the comments and documents of the source say of irrigation.        *)

(* "Pressing and holding the button for longer than ten seconds will       *)
(* disable or enable auto irrigation" (igh_shield/README.md:264), and the  *)
(* rules ask for both flags: the clock opens no valve while irrigation is  *)
(* suspended or disabled.                                                  *)
ClockOnlyWhenOn == [][ClockFires /\ valve_state = "CLOSE" => enabled /\ ~suspended]_vars
=============================================================================
