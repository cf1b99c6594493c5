------------------------------ MODULE MCButton ------------------------------
(* Instances of Button for TLC, on the instances of Valve: a press of one  *)
(* second toggles the valve, one of two seconds the system.                *)
EXTENDS Button

MCAmounts == {1, 2}
MCDurations == {1}
MCPulses == 0 .. 2
MCFlowBound == 3
=============================================================================
