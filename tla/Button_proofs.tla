---------------------------- MODULE Button_proofs ----------------------------
(***************************************************************************)
(* Proofs about Button, for all lengths of a press: the valve under the    *)
(* manager of the button is the valve of Valve, so that what is proved     *)
(* there holds here, and a press acts once.                                *)
(***************************************************************************)
EXTENDS Button, Valve_proofs

(* The types the invariant below needs.                                    *)
CountsAreNat == counter \in Nat /\ held \in Nat

LEMMA CountsStayNat == ButtonSpec => []CountsAreNat
<1>1. ButtonInit => CountsAreNat
  BY DEF ButtonInit, CountsAreNat
<1>2. CountsAreNat /\ [ButtonNext]_allVars => CountsAreNat'
  <2> SUFFICES ASSUME CountsAreNat, [ButtonNext]_allVars PROVE CountsAreNat'
    OBVIOUS
  <2> USE DEF CountsAreNat
  <2>1. CASE Sample
    BY <2>1 DEF Sample, PressedSample, ReleasedSample
  <2>2. CASE ButtonLoop
    BY <2>2 DEF ButtonLoop, ButtonManager, OtherHandlers, NoPress, SeeRelease, PressToggles,
       PressSuspends, PressIgnored, ClearCount, CountCleared, buttonVars
  <2>3. CASE Finger \/ UNCHANGED buttonVars
    BY <2>3 DEF Finger, buttonVars
  <2> QED
    BY <2>1, <2>2, <2>3 DEF ButtonNext, allVars
<1> QED
  BY <1>1, <1>2, PTL DEF ButtonSpec

-----------------------------------------------------------------------------
(* Every step of the valve under the button's manager is a step of Valve,  *)
(* whose own button may ask for anything, or leaves the valve alone.       *)
THEOREM ButtonIsValve == ButtonSpec => ImplementsValve
<1>1. ButtonInit => Init
  BY Zenon DEF ButtonInit
<1>2. [ButtonNext]_allVars => [Next]_vars
  <2> SUFFICES ASSUME [ButtonNext]_allVars PROVE Next \/ UNCHANGED vars
    BY Zenon
  <2>1. CASE ButtonManager
    BY <2>1, Zenon DEF ButtonManager, NoPress, SeeRelease, PressToggles, PressSuspends,
       PressIgnored, ClearCount, Next, MainLoop, AtButton
  <2>2. CASE OtherHandlers
    BY <2>2, Zenon DEF OtherHandlers, Next, MainLoop
  <2>3. CASE Sample \/ Finger
    BY <2>3, Zenon DEF Sample, Finger
  <2>4. CASE (TimerThread \/ Travel) /\ UNCHANGED buttonVars
    BY <2>4, Zenon DEF Next
  <2>5. CASE UNCHANGED allVars
    BY <2>5, Zenon DEF allVars
  <2> QED
    BY <2>1, <2>2, <2>3, <2>4, <2>5, Zenon DEF ButtonNext, ButtonLoop
<1> QED
  BY <1>1, <1>2, PTL DEF ButtonSpec, ImplementsValve, Spec

-----------------------------------------------------------------------------
(* What Valve promises for any button holds for this one: however the      *)
(* presses, the suspensions and the sampling thread fall, a closed valve   *)
(* has nothing metered against it, and an expiry is about the opening the  *)
(* timer was started for (igh_button_mngr over igh_valve_change_state).    *)
THEOREM ValveUnderButton == ButtonSpec => []ClosedIsClean /\ []NoStaleExpiry
BY ButtonIsValve, ClosedValveIsClean, TimerNeverStale, PTL DEF ImplementsValve

-----------------------------------------------------------------------------
(* Outside the gap between a decision and the clearing of the count, the   *)
(* count is worth samples no press was decided on before, however far it   *)
(* counts: igh_button_mngr against igh_button_mngr_callback.               *)
THEOREM CountIsBacked == ButtonSpec => []CountBacked
<1>1. ButtonInit => CountBacked
  BY DEF ButtonInit, CountBacked
<1>2. CountsAreNat /\ CountBacked /\ [ButtonNext]_allVars => CountBacked'
  <2> SUFFICES ASSUME CountsAreNat, CountBacked, [ButtonNext]_allVars PROVE CountBacked'
    OBVIOUS
  <2> USE DEF CountBacked, CountsAreNat
  <2>1. CASE Sample
    BY <2>1 DEF Sample, PressedSample, ReleasedSample
  <2>2. CASE PressToggles \/ PressSuspends \/ PressIgnored
    BY <2>2 DEF PressToggles, PressSuspends, PressIgnored
  <2>3. CASE NoPress \/ OtherHandlers \/ SeeRelease
    BY <2>3 DEF NoPress, OtherHandlers, SeeRelease, buttonVars
  <2>4. CASE ClearCount
    BY <2>4 DEF ClearCount, CountCleared
  <2>5. CASE Finger \/ UNCHANGED buttonVars
    BY <2>5 DEF Finger, buttonVars
  <2> QED
    BY <2>1, <2>2, <2>3, <2>4, <2>5 DEF ButtonNext, ButtonLoop, ButtonManager, allVars
<1> QED
  BY <1>1, <1>2, CountsStayNat, PTL DEF ButtonSpec

(* Whichever thread sees the release first, the valve is toggled or        *)
(* irrigation suspended only after as many pressed samples in a row as     *)
(* that takes since the last decision (igh_button_mngr against             *)
(* igh_button_mngr_callback).                                              *)
THEOREM EveryPressActsOnce == ButtonSpec => PressActsOnce
<1>1. CountsAreNat /\ CountBacked /\ [ButtonNext]_allVars =>
        [/\ PressToggles => held >= ToggleValve
         /\ PressSuspends => held >= ToggleSystem]_allVars
  <2> SUFFICES ASSUME CountsAreNat, CountBacked
               PROVE  /\ PressToggles => held >= ToggleValve
                      /\ PressSuspends => held >= ToggleSystem
    OBVIOUS
  <2> QED
    BY ButtonAssumption DEF CountsAreNat, CountBacked, PressToggles, PressSuspends
<1> QED
  BY <1>1, CountsStayNat, CountIsBacked, PTL DEF ButtonSpec, PressActsOnce
=============================================================================
