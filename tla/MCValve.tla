------------------------------ MODULE MCValve ------------------------------
(* Instances of Valve for TLC: two amounts, so that one opening can run    *)
(* over another's, one duration (only its being set or cleared matters)    *)
(* and up to two litres a second against a meter that holds four.          *)
EXTENDS Valve

MCAmounts == {1, 2}
MCDurations == {1}
MCPulses == 0 .. 2
MCFlowBound == 4
=============================================================================
