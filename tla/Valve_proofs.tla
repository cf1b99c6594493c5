---------------------------- MODULE Valve_proofs ----------------------------
(***************************************************************************)
(* Proofs of the safety properties of Valve, for all amounts, durations,   *)
(* flow readings and meter bounds.  FairSpec implies Spec, so they hold    *)
(* with fairness too.                                                      *)
(***************************************************************************)
EXTENDS Valve, TLAPS

(* Every variable keeps its type: the state reaches only the two positions *)
(* of valve_position_e, and the meter stays within its bound.              *)
THEOREM TypeCorrect == Spec => []TypeOK
<1>1. Init => TypeOK
  <2>1. 0 \in 0 .. FlowBound
    BY ValveAssumption
  <2> QED
    BY <2>1, Zenon DEF Init, TypeOK, Places
<1>2. TypeOK /\ [Next]_vars => TypeOK'
  <2> SUFFICES ASSUME TypeOK, [Next]_vars PROVE TypeOK'
    OBVIOUS
  <2> USE DEF TypeOK, Places, Resetting, valveCtrl, flags, hardware, control
  <2>1. CASE ButtonOpens
    BY <2>1 DEF ButtonOpens, StartOpening
  <2>2. CASE ButtonCloses
    BY <2>2 DEF ButtonCloses, StartReset
  <2>3. CASE NoButton
    BY <2>3 DEF NoButton, GoOn
  <2>4. CASE IrrigationOpens
    BY <2>4 DEF IrrigationOpens, StartOpening
  <2>5. CASE NoIrrigation
    BY <2>5 DEF NoIrrigation, GoOn
  <2>6. CASE WriteOpening
    BY <2>6 DEF WriteOpening
  <2>7. CASE ZeroLitres
    BY <2>7 DEF ZeroLitres
  <2>8. CASE ZeroDuration
    BY <2>8 DEF ZeroDuration
  <2>9. CASE ZeroFlow
    BY <2>9, ValveAssumption DEF ZeroFlow
  <2>10. CASE EnterManager
    BY <2>10 DEF EnterManager, GoOn
  <2>11. CASE Arm \/ ClearExpiry
    BY <2>11 DEF Arm, ArmingSkipped, StartTimer, ClearExpiry, ExpiryCleared, GoOn
  <2>12. CASE ExpiryCloses
    BY <2>12 DEF ExpiryCloses, StartReset
  <2>13. CASE NothingExpired
    BY <2>13 DEF NothingExpired, GoOn
  <2>14. CASE Drive
    BY <2>14 DEF Drive, Commanded
  <2>15. CASE FlowAction
    BY <2>15 DEF FlowAction
  <2>16. CASE TimerFires
    <3>1. timer_active' \in BOOLEAN /\ valve_timer_expired' \in BOOLEAN
      BY <2>16, Zenon DEF TimerFires
    <3> QED
      BY <2>16, <3>1 DEF TimerFires
  <2>17. CASE ClockOpens
    BY <2>17 DEF ClockOpens
  <2>18. CASE FlowService
    BY <2>18, ValveAssumption DEF FlowService
  <2>19. CASE Travel
    BY <2>19 DEF Travel
  <2>20. CASE UNCHANGED vars
    BY <2>20 DEF vars
  <2> QED
    BY <2>1, <2>2, <2>3, <2>4, <2>5, <2>6, <2>7, <2>8, <2>9, <2>10, <2>11, <2>12,
       <2>13, <2>14, <2>15, <2>16, <2>17, <2>18, <2>19, <2>20
       DEF Next, MainLoop, AtButton, AfterButton, TimerThread
<1> QED
  BY <1>1, <1>2, PTL DEF Spec

-----------------------------------------------------------------------------
(* What the reset has already zeroed when it is at its later assignments,  *)
(* as long as the valve is still closed: the strengthening ClosedIsClean   *)
(* needs, as a reset reaches it one assignment at a time.                  *)
ResetProgress ==
  valve_state = "CLOSE" =>
    /\ pc \in {"zero_duration", "zero_flow"} => open_litres = 0
    /\ pc = "zero_flow" => open_duration = 0

CleanInv == ClosedIsClean /\ ResetProgress

(* A valve that is closed and not being reset holds nothing of the opening *)
(* before, however the clock timer, the flow service and the button fall   *)
(* between the assignments of igh_valve_reset_state.                       *)
THEOREM ClosedValveIsClean == Spec => []ClosedIsClean
<1>1. Init => CleanInv
  BY DEF Init, CleanInv, ClosedIsClean, ResetProgress, Resetting
<1>2. TypeOK /\ CleanInv /\ [Next]_vars => CleanInv'
  <2> SUFFICES ASSUME TypeOK, CleanInv, [Next]_vars PROVE CleanInv'
    OBVIOUS
  <2> USE DEF TypeOK, CleanInv, ClosedIsClean, ResetProgress, Resetting, valveCtrl, flags,
              hardware, control
  <2>1. CASE ButtonOpens \/ IrrigationOpens
    BY <2>1 DEF ButtonOpens, IrrigationOpens, StartOpening
  <2>2. CASE ButtonCloses \/ ExpiryCloses
    BY <2>2 DEF ButtonCloses, ExpiryCloses, StartReset
  <2>3. CASE NoButton \/ NoIrrigation \/ EnterManager \/ NothingExpired
    BY <2>3 DEF NoButton, NoIrrigation, EnterManager, NothingExpired, GoOn
  <2>4. CASE WriteOpening \/ ClockOpens
    BY <2>4 DEF WriteOpening, ClockOpens
  <2>5. CASE ZeroLitres \/ ZeroDuration \/ ZeroFlow
    BY <2>5 DEF ZeroLitres, ZeroDuration, ZeroFlow
  <2>6. CASE Arm \/ ClearExpiry \/ Drive \/ FlowAction
    BY <2>6 DEF Arm, ArmingSkipped, StartTimer, ClearExpiry, GoOn, Drive, FlowAction
  <2>7. CASE TimerFires \/ FlowService \/ Travel
    BY <2>7 DEF TimerFires, FlowService, Travel
  <2>8. CASE UNCHANGED vars
    BY <2>8 DEF vars
  <2> QED
    BY <2>1, <2>2, <2>3, <2>4, <2>5, <2>6, <2>7, <2>8 DEF Next, MainLoop, AtButton, AfterButton, TimerThread
<1>3. CleanInv => ClosedIsClean
  BY DEF CleanInv
<1> QED
  BY <1>1, <1>2, <1>3, TypeCorrect, PTL DEF Spec

(* Every opening meters from zero, whoever opens, with one exception: the  *)
(* clock's, from the timer thread, that falls between two assignments of   *)
(* igh_valve_reset_state (igh_valve.cpp:34-40), and nothing else.          *)
THEOREM OpeningsMeterFromZero ==
  Spec => [][valve_state = "CLOSE" /\ valve_state' = "OPEN" =>
               water_flow' = 0 \/ (ClockOpens /\ pc \in Resetting)]_vars
<1>1. ASSUME ClosedIsClean, [Next]_vars, valve_state = "CLOSE", valve_state' = "OPEN"
      PROVE  water_flow' = 0 \/ (ClockOpens /\ pc \in Resetting)
  <2>1. CASE WriteOpening
    BY <1>1, <2>1 DEF WriteOpening, ClosedIsClean, Resetting
  <2>2. CASE ClockOpens
    BY <1>1, <2>2 DEF ClockOpens, ClosedIsClean
  <2>3. WriteOpening \/ ClockOpens
    BY <1>1, Zenon DEF Next, MainLoop, AtButton, AfterButton, TimerThread, vars, valveCtrl,
       ButtonOpens, ButtonCloses, NoButton, IrrigationOpens, NoIrrigation, StartOpening,
       StartReset, GoOn, ZeroLitres, ZeroDuration, ZeroFlow, EnterManager, Arm, ArmingSkipped,
       StartTimer, ClearExpiry, ExpiryCloses,
       NothingExpired, Drive, FlowAction, TimerFires, FlowService, Travel
  <2> QED
    BY <2>1, <2>2, <2>3
<1>2. ClosedIsClean /\ [Next]_vars =>
        [valve_state = "CLOSE" /\ valve_state' = "OPEN" =>
           water_flow' = 0 \/ (ClockOpens /\ pc \in Resetting)]_vars
  BY <1>1, Zenon
<1> QED
  BY <1>2, ClosedValveIsClean, PTL DEF Spec

-----------------------------------------------------------------------------
(* While the valve timer runs, no expiry of an earlier opening is pending, *)
(* for all periods and wherever the timer fires: the flag is cleared after *)
(* every start and raised only by the end of the timer                     *)
(* (igh_valve.cpp:63-67, 98-101).                                          *)
THEOREM TimerNeverStale == Spec => []NoStaleExpiry
<1>1. Init => NoStaleExpiry
  BY DEF Init, NoStaleExpiry
<1>2. TypeOK /\ NoStaleExpiry /\ [Next]_vars => NoStaleExpiry'
  <2> SUFFICES ASSUME TypeOK, NoStaleExpiry, [Next]_vars PROVE NoStaleExpiry'
    OBVIOUS
  <2> USE DEF TypeOK, NoStaleExpiry, flags, control
  <2>1. CASE ButtonOpens \/ IrrigationOpens
    BY <2>1 DEF ButtonOpens, IrrigationOpens, StartOpening
  <2>2. CASE ButtonCloses \/ ExpiryCloses
    BY <2>2 DEF ButtonCloses, ExpiryCloses, StartReset
  <2>3. CASE NoButton \/ NoIrrigation \/ EnterManager \/ NothingExpired
    BY <2>3 DEF NoButton, NoIrrigation, EnterManager, NothingExpired, GoOn
  <2>4. CASE WriteOpening \/ ZeroLitres \/ ZeroDuration \/ ZeroFlow
    <3>1. pc # "clear_expiry" /\ UNCHANGED <<timer_active, valve_timer_expired>>
      BY <2>4 DEF WriteOpening, ZeroLitres, ZeroDuration, ZeroFlow
    <3> QED
      BY <3>1
  <2>5. CASE Arm \/ ClearExpiry
    BY <2>5 DEF Arm, ArmingSkipped, StartTimer, ClearExpiry, ExpiryCleared, GoOn
  <2>6. CASE Drive \/ FlowAction \/ TimerFires
    BY <2>6 DEF Drive, FlowAction, TimerFires
  <2>7. CASE ClockOpens \/ FlowService \/ Travel
    BY <2>7 DEF ClockOpens, FlowService, Travel
  <2>8. CASE UNCHANGED vars
    BY <2>8 DEF vars
  <2> QED
    BY <2>1, <2>2, <2>3, <2>4, <2>5, <2>6, <2>7, <2>8 DEF Next, MainLoop, AtButton, AfterButton, TimerThread
<1> QED
  BY <1>1, <1>2, TypeCorrect, PTL DEF Spec
=============================================================================
