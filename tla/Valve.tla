------------------------------- MODULE Valve -------------------------------
(***************************************************************************)
(* The motorised water valve of the Shield (igh_valve.cpp) under the two   *)
(* threads that use it: the main loop, which takes button and irrigation   *)
(* requests and then runs igh_valve_mngr, and the software-timer thread,   *)
(* whose callbacks preempt the main loop between any two statements:       *)
(* the valve timer, the clock irrigation timer (which opens the valve      *)
(* itself) and the flow meter service.                                     *)
(*                                                                         *)
(* A main-loop step below ends where a timer callback in the gap could     *)
(* make a difference; a timer callback is one step, as the timer thread    *)
(* outranks the main loop and runs its callbacks one at a time.            *)
(***************************************************************************)
EXTENDS Integers

CONSTANTS
  Amounts,    (* litres a request may ask for (water_amount_by_button_press, ...) *)
  Durations,  (* open times a request may ask for (water_dispenser_period, ONE_HOUR) *)
  Pulses,     (* litres the flow meter may count in one second *)
  FlowBound   (* bound on the litres metered in one opening *)

ASSUME ValveAssumption ==
  /\ Amounts \subseteq Nat \ {0}
  /\ Durations \subseteq Nat \ {0}
  /\ Pulses \subseteq Nat
  /\ FlowBound \in Nat

VARIABLES
  valve_state,         (* current_valve_ctrl.valve_state *)
  open_litres,         (* current_valve_ctrl.open_litres *)
  open_duration,       (* current_valve_ctrl.open_duration *)
  water_flow,          (* current_valve_open_water_flow *)
  set_flow_expired,
  valve_timer_expired,
  timer_active,        (* igh_valve_timer.isActive() *)
  valve_state_to_send, (* the position the next message reports *)
  bridge,              (* the H-bridge: the EN, YELLOW and BLUE pins *)
  position,            (* where the ball of the valve is: the two limit switches *)
  pc,                  (* where the main loop is *)
  resume               (* where it goes on after the request or reset under way *)

valveCtrl == <<valve_state, open_litres, open_duration>>
flags     == <<set_flow_expired, valve_timer_expired, timer_active>>
hardware  == <<bridge, position>>
control   == <<pc, resume>>
vars == <<valveCtrl, water_flow, flags, valve_state_to_send, hardware, control>>

Resetting == {"zero_litres", "zero_duration", "zero_flow"}
Places == {"button", "irrigation", "opening", "manage", "arm", "clear_expiry",
           "check", "drive", "flow"} \cup Resetting

(* init_valve: the bridge is off and the control structure reset, with the *)
(* ball wherever the last run left it.                                     *)
Init ==
  /\ valve_state = "CLOSE"
  /\ open_litres = 0
  /\ open_duration = 0
  /\ water_flow = 0
  /\ set_flow_expired = FALSE
  /\ valve_timer_expired = FALSE
  /\ timer_active = FALSE
  /\ valve_state_to_send = "CLOSE"
  /\ bridge = "off"
  /\ position \in {"closed", "between", "open"}
  /\ pc = "button"
  /\ resume = "button"

-----------------------------------------------------------------------------
(* igh_valve_change_state, as the main loop runs it.  Opening is a test    *)
(* that the valve is not open yet and then the writes; closing starts the  *)
(* reset, whose four assignments another thread can fall between.          *)

GoOn(from, to) ==
  /\ pc = from
  /\ pc' = to
  /\ UNCHANGED <<valveCtrl, water_flow, flags, valve_state_to_send, hardware, resume>>

StartOpening(next) ==
  /\ valve_state = "CLOSE"
  /\ pc' = "opening"
  /\ resume' = next
  /\ UNCHANGED <<valveCtrl, water_flow, flags, valve_state_to_send, hardware>>

(* Mutant for TypeOK: the two arguments change places.                     *)
WriteOpeningSwapped ==
  /\ pc = "opening"
  /\ valve_state' = "OPEN"
  /\ open_duration' \in Amounts
  /\ open_litres' \in Durations
  /\ pc' = resume
  /\ UNCHANGED <<water_flow, flags, valve_state_to_send, hardware, resume>>

WriteOpening ==
  /\ pc = "opening"
  /\ valve_state' = "OPEN"
  /\ open_duration' \in Durations
  /\ open_litres' \in Amounts
  /\ pc' = resume
  /\ UNCHANGED <<water_flow, flags, valve_state_to_send, hardware, resume>>

StartReset(next) ==
  /\ valve_state' = "CLOSE"
  /\ pc' = "zero_litres"
  /\ resume' = next
  /\ UNCHANGED <<open_litres, open_duration, water_flow, valve_state_to_send, hardware>>

ZeroLitres ==
  /\ pc = "zero_litres"
  /\ open_litres' = 0
  /\ pc' = "zero_duration"
  /\ UNCHANGED <<valve_state, open_duration, water_flow, flags, valve_state_to_send,
                 hardware, resume>>

ZeroDuration ==
  /\ pc = "zero_duration"
  /\ open_duration' = 0
  /\ pc' = "zero_flow"
  /\ UNCHANGED <<valve_state, open_litres, water_flow, flags, valve_state_to_send,
                 hardware, resume>>

(* Mutant for ClosedIsClean: the meter of the opening is not zeroed.       *)
ZeroFlowForgotten == GoOn("zero_flow", resume)

ZeroFlow ==
  /\ pc = "zero_flow"
  /\ water_flow' = 0
  /\ pc' = resume
  /\ UNCHANGED <<valveCtrl, flags, valve_state_to_send, hardware, resume>>

-----------------------------------------------------------------------------
(* The requests of one pass of the main loop, in its order: the button     *)
(* opens a closed valve and closes an open one, the irrigation manager     *)
(* only ever opens.  A request for the state the valve is in is ignored.   *)

ButtonOpens == pc = "button" /\ StartOpening("irrigation")

ButtonCloses ==
  /\ pc = "button"
  /\ valve_state = "OPEN"
  /\ StartReset("irrigation")
  /\ UNCHANGED flags

NoButton == GoOn("button", "irrigation")

IrrigationOpens == pc = "irrigation" /\ StartOpening("manage")

NoIrrigation == GoOn("irrigation", "manage")

-----------------------------------------------------------------------------
(* igh_valve_mngr: arm the timer of an open valve, close it on an expiry,  *)
(* then drive the motor and look at the metered flow.                      *)

EnterManager ==
  \/ valve_state = "OPEN" /\ GoOn("manage", "arm")
  \/ valve_state = "CLOSE" /\ GoOn("manage", "drive")

ArmingSkipped ==
  /\ timer_active
  /\ GoOn("arm", "check")

StartTimer ==
  /\ pc = "arm" /\ ~timer_active
  /\ timer_active' = TRUE
  /\ pc' = "clear_expiry"
  /\ UNCHANGED <<valveCtrl, water_flow, set_flow_expired, valve_timer_expired,
                 valve_state_to_send, hardware, resume>>

Arm == ArmingSkipped \/ StartTimer

(* The flag is cleared after the start: a timer that has fired in between  *)
(* has its expiry wiped, and the check finds neither timer nor flag.       *)
(* (Mutant for NoStaleExpiry: the flag of an earlier expiry stays.)        *)
ExpiryKept == valve_timer_expired

ExpiryCleared == FALSE

ClearExpiry ==
  /\ pc = "clear_expiry"
  /\ valve_timer_expired' = ExpiryCleared
  /\ pc' = "check"
  /\ UNCHANGED <<valveCtrl, water_flow, set_flow_expired, timer_active,
                 valve_state_to_send, hardware, resume>>

ExpiryCloses ==
  /\ pc = "check"
  /\ valve_timer_expired \/ set_flow_expired
  /\ set_flow_expired' = FALSE
  /\ timer_active' = FALSE
  /\ UNCHANGED valve_timer_expired
  /\ StartReset("drive")

NothingExpired ==
  /\ ~valve_timer_expired /\ ~set_flow_expired
  /\ GoOn("check", "drive")

(* The bridge turns the motor towards the commanded end until the limit    *)
(* switch of that end is made.  (Mutant for SettlesWhereCommanded: the     *)
(* switches change places.)                                                *)
CommandedSwapped(state, place) ==
  CASE state = "CLOSE" -> IF place = "open" THEN "off" ELSE "closing"
    [] state = "OPEN"  -> IF place = "closed" THEN "off" ELSE "opening"

Commanded(state, place) ==
  CASE state = "CLOSE" -> IF place = "closed" THEN "off" ELSE "closing"
    [] state = "OPEN"  -> IF place = "open" THEN "off" ELSE "opening"

Drive ==
  /\ pc = "drive"
  /\ bridge' = Commanded(valve_state, position)
  /\ pc' = "flow"
  /\ UNCHANGED <<valveCtrl, water_flow, flags, valve_state_to_send, position, resume>>

(* Mutant for OverrunCloses: the flow is compared with a wrong amount.     *)
FlowActionDeaf ==
  /\ pc = "flow"
  /\ valve_state_to_send' = valve_state
  /\ set_flow_expired' = (set_flow_expired \/ water_flow > open_litres + FlowBound)
  /\ pc' = "button"
  /\ UNCHANGED <<valveCtrl, water_flow, valve_timer_expired, timer_active, hardware, resume>>

FlowAction ==
  /\ pc = "flow"
  /\ valve_state_to_send' = valve_state
  /\ set_flow_expired' = (set_flow_expired \/ water_flow > open_litres)
  /\ pc' = "button"
  /\ UNCHANGED <<valveCtrl, water_flow, valve_timer_expired, timer_active, hardware, resume>>

AtButton == ButtonOpens \/ ButtonCloses \/ NoButton

AfterButton ==
  \/ IrrigationOpens \/ NoIrrigation
  \/ WriteOpening \/ ZeroLitres \/ ZeroDuration \/ ZeroFlow
  \/ EnterManager \/ Arm \/ ClearExpiry \/ ExpiryCloses \/ NothingExpired \/ Drive \/ FlowAction

MainLoop == AtButton \/ AfterButton

-----------------------------------------------------------------------------
(* The timer thread, and the motor.                                        *)

(* The one-shot valve timer fires: it is no longer active.                 *)
TimerFires ==
  /\ timer_active
  /\ timer_active' = FALSE
  /\ valve_timer_expired' = TRUE
  /\ UNCHANGED <<valveCtrl, water_flow, set_flow_expired, valve_state_to_send,
                 hardware, control>>

(* igh_irrigation_by_the_clock opens the valve from the timer thread.      *)
ClockOpens ==
  /\ valve_state = "CLOSE"
  /\ valve_state' = "OPEN"
  /\ open_duration' \in Durations
  /\ open_litres' \in Amounts
  /\ UNCHANGED <<water_flow, flags, valve_state_to_send, hardware, control>>

(* igh_water_flow_meter_service counts towards the opening while it lasts. *)
FlowService ==
  /\ valve_state = "OPEN"
  /\ \E litres \in Pulses :
        /\ water_flow + litres <= FlowBound
        /\ water_flow' = water_flow + litres
  /\ UNCHANGED <<valveCtrl, flags, valve_state_to_send, hardware, control>>

(* The ball turns while the bridge drives it, past its middle to the end.  *)
Travel ==
  /\ \/ bridge = "closing" /\ position = "open"    /\ position' = "between"
     \/ bridge = "closing" /\ position = "between" /\ position' = "closed"
     \/ bridge = "opening" /\ position = "closed"  /\ position' = "between"
     \/ bridge = "opening" /\ position = "between" /\ position' = "open"
  /\ UNCHANGED <<valveCtrl, water_flow, flags, valve_state_to_send, bridge, control>>

TimerThread == TimerFires \/ ClockOpens \/ FlowService

Next == MainLoop \/ TimerThread \/ Travel

Spec == Init /\ [][Next]_vars

(* The main loop never blocks for good, a running timer fires, and a       *)
(* driven motor turns; nobody owes a request, an opening or any water.     *)
FairSpec ==
  /\ Spec
  /\ WF_vars(MainLoop)
  /\ WF_vars(TimerFires)
  /\ WF_vars(Travel)

-----------------------------------------------------------------------------
TypeOK ==
  /\ valve_state \in {"CLOSE", "OPEN"}
  /\ open_litres \in Amounts \cup {0}
  /\ open_duration \in Durations \cup {0}
  /\ water_flow \in 0 .. FlowBound
  /\ set_flow_expired \in BOOLEAN
  /\ valve_timer_expired \in BOOLEAN
  /\ timer_active \in BOOLEAN
  /\ valve_state_to_send \in {"CLOSE", "OPEN"}
  /\ bridge \in {"off", "closing", "opening"}
  /\ position \in {"closed", "between", "open"}
  /\ pc \in Places
  /\ resume \in {"button", "irrigation", "manage", "drive"}

(* A closed valve whose reset is over has nothing left of the opening      *)
(* before: the next opening, by whichever thread, meters from zero         *)
(* (igh_valve_reset_state against igh_irrigation_by_the_clock).            *)
ClosedIsClean ==
  valve_state = "CLOSE" /\ pc \notin Resetting =>
    water_flow = 0 /\ open_litres = 0 /\ open_duration = 0

(* The one-shot timer and its flag never tell two stories: no expiry is    *)
(* left over from an earlier opening while the timer of this one runs,     *)
(* except between its start and the clearing of the flag (lines 66-67 of   *)
(* igh_valve_mngr).                                                        *)
NoStaleExpiry == timer_active /\ pc # "clear_expiry" => ~valve_timer_expired

(* An opening that has metered more than it was opened for is closed,      *)
(* whatever the timers and the button do meanwhile (igh_valve_flow_action  *)
(* and the next pass of igh_valve_mngr).                                   *)
FlowOverrun ==
  /\ valve_state = "OPEN"
  /\ water_flow > open_litres
  /\ pc \notin Resetting \cup {"opening"}

OverrunCloses == FlowOverrun ~> valve_state = "CLOSE"

(* Once the commanded state stays, the ball ends at that limit switch, the *)
(* motor rests and the messages report the state (igh_valve_ctrl).         *)
Settled(state, end) ==
  valve_state = state /\ position = end /\ bridge = "off" /\ valve_state_to_send = state

SettlesWhereCommanded ==
  /\ <>[](valve_state = "CLOSE") => <>[]Settled("CLOSE", "closed")
  /\ <>[](valve_state = "OPEN") => <>[]Settled("OPEN", "open")

-----------------------------------------------------------------------------
(* What the comments of the source say of the valve.                       *)

(* "if the valve is open for more than a set duration ... close the valve" *)
(* (igh_valve.cpp:73-76): an open valve whose timer runs is closed.        *)
TimedOpeningCloses ==
  valve_state = "OPEN" /\ timer_active ~> valve_state = "CLOSE"
=============================================================================
