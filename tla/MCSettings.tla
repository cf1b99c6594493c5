----------------------------- MODULE MCSettings -----------------------------
(* Instances of Settings for TLC: two or three values a block, one of them *)
(* the default and two of system_settings with the same sum, zero.         *)
EXTENDS Settings

MCSystemValues == {"s0", "s1", "s2"}
MCThresholdValues == {"t0", "t1"}
MCSumWithZero == [value \in MCSystemValues |-> IF value = "s0" THEN 17 ELSE 0]
MCThresholdSum == [value \in MCThresholdValues |-> IF value = "t0" THEN 5 ELSE 6]
=============================================================================
