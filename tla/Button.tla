------------------------------- MODULE Button -------------------------------
(***************************************************************************)
(* The button of the Shield (igh_button.cpp) on top of the valve: a timer  *)
(* samples the pin once a second and counts the seconds of a press, the    *)
(* main loop acts on the count once it finds the button released.  Both    *)
(* read and clear the same counter, and whichever sees the release first   *)
(* decides whether the press is acted on.                                  *)
(*                                                                         *)
(* The count is read before and after the pin; the build keeps the second  *)
(* reading for the comparisons that follow.                                *)
(***************************************************************************)
EXTENDS Valve

CONSTANTS
  ToggleValve,  (* BUTTON_PRESS_TOGGLE_VALVE, in seconds *)
  ToggleSystem, (* BUTTON_PRESS_TOGGLE_SYS *)
  SampleBound   (* bound on the samples of one press *)

ASSUME ButtonAssumption ==
  /\ ToggleValve \in Nat \ {0}
  /\ ToggleSystem \in Nat
  /\ ToggleValve < ToggleSystem
  /\ SampleBound \in Nat

VARIABLES
  pressed,  (* the pin *)
  counter,  (* button_seconds_counter *)
  mngr,     (* where igh_button_mngr is *)
  suspended,(* irrigation_suspended *)
  held      (* history: pressed samples in a row since a press was last decided on *)

buttonVars == <<pressed, counter, mngr, suspended, held>>
allVars == <<vars, buttonVars>>

ButtonInit ==
  /\ Init
  /\ pressed = FALSE /\ counter = 0 /\ mngr = "idle" /\ suspended = FALSE /\ held = 0

(* igh_button_mngr_callback                                                *)
PressedSample ==
  /\ pressed /\ counter < SampleBound /\ held < SampleBound
  /\ counter' = counter + 1
  /\ held' = held + 1

ReleasedSample ==
  /\ ~pressed
  /\ counter' = 0
  /\ held' = 0

Sample ==
  /\ PressedSample \/ ReleasedSample
  /\ UNCHANGED <<vars, pressed, mngr, suspended>>

Finger ==
  /\ pressed' = ~pressed
  /\ UNCHANGED <<vars, counter, mngr, suspended, held>>

-----------------------------------------------------------------------------
(* igh_button_mngr                                                         *)

NoPress ==
  /\ mngr = "idle"
  /\ counter = 0 \/ pressed
  /\ NoButton
  /\ UNCHANGED buttonVars

SeeRelease ==
  /\ pc = "button" /\ mngr = "idle"
  /\ counter # 0 /\ ~pressed
  /\ mngr' = "released"
  /\ UNCHANGED <<vars, pressed, counter, suspended, held>>

(* Mutant for ImplementsValve: the press turns the state over itself.      *)
PressWrites ==
  /\ mngr = "released" /\ pc = "button"
  /\ counter \in ToggleValve .. ToggleSystem - 1
  /\ valve_state' = IF valve_state = "OPEN" THEN "CLOSE" ELSE "OPEN"
  /\ pc' = "irrigation"
  /\ mngr' = "clear"
  /\ held' = 0
  /\ UNCHANGED <<open_litres, open_duration, water_flow, flags, valve_state_to_send,
                 hardware, resume, pressed, counter, suspended>>

(* igh_irrigation_by_button, if the time is valid; the event it reports is *)
(* the business of Uplink.                                                 *)
PressToggles ==
  /\ mngr = "released"
  /\ counter \in ToggleValve .. ToggleSystem - 1
  /\ ButtonOpens \/ ButtonCloses
  /\ mngr' = "clear"
  /\ held' = 0
  /\ UNCHANGED <<pressed, counter, suspended>>

(* igh_irrigation_toggle                                                   *)
PressSuspends ==
  /\ mngr = "released"
  /\ counter >= ToggleSystem
  /\ NoButton
  /\ suspended' = ~suspended
  /\ mngr' = "clear"
  /\ held' = 0
  /\ UNCHANGED <<pressed, counter>>

(* A press too short, one the timer thread has cleared in between, or one  *)
(* before the time is known.                                               *)
PressIgnored ==
  /\ mngr = "released"
  /\ counter < ToggleSystem
  /\ NoButton
  /\ mngr' = "clear"
  /\ held' = 0
  /\ UNCHANGED <<pressed, counter, suspended>>

(* Mutant for CountBacked: the count outlives the action.                  *)
CountKept == counter

CountCleared == 0

ClearCount ==
  /\ pc = "irrigation" /\ mngr = "clear"
  /\ counter' = CountCleared
  /\ mngr' = "idle"
  /\ UNCHANGED <<vars, pressed, suspended, held>>

ButtonManager ==
  NoPress \/ SeeRelease \/ PressToggles \/ PressSuspends \/ PressIgnored \/ ClearCount

(* The rest of the main loop waits for the manager to return.              *)
OtherHandlers ==
  /\ pc = "irrigation" => mngr = "idle"
  /\ AfterButton
  /\ UNCHANGED buttonVars

ButtonLoop == ButtonManager \/ OtherHandlers

ButtonNext ==
  ButtonLoop \/ Sample \/ Finger \/ ((TimerThread \/ Travel) /\ UNCHANGED buttonVars)

ButtonSpec == ButtonInit /\ [][ButtonNext]_allVars

FairButtonSpec ==
  /\ ButtonSpec
  /\ WF_allVars(ButtonLoop)
  /\ WF_allVars(TimerFires /\ UNCHANGED buttonVars)
  /\ WF_allVars(Travel /\ UNCHANGED buttonVars)

-----------------------------------------------------------------------------
(* The count the two threads share is worth samples of this press alone,   *)
(* wherever a sample or a new press falls between the reading, the         *)
(* decision and the clearing; between the last two the samples are spent   *)
(* and the count is not cleared yet (igh_button.cpp:49-71).                *)
CountBacked == mngr # "clear" => counter <= held

(* A press acts once: the valve is toggled, or irrigation suspended or     *)
(* resumed, only after the button was seen pressed in a row for the        *)
(* seconds that takes since a press was last decided on, in every          *)
(* interleaving of the sampling with the manager (igh_button.cpp:42, 71).  *)
PressActsOnce ==
  [][/\ PressToggles => held >= ToggleValve
     /\ PressSuspends => held >= ToggleSystem]_allVars

(* Under the button's manager the valve is still the valve of Valve, whose *)
(* button may do anything.                                                 *)
ImplementsValve == Spec
=============================================================================
