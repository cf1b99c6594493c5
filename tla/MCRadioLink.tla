---------------------------- MODULE MCRadioLink ----------------------------
(* Two Spears for TLC: one with an id that fits in a byte and one whose    *)
(* low byte is the broadcast address.                                      *)
EXTENDS RadioLink

MCSpears == {1, 256}

MCPackets == [n \in MCSpears |-> IF n = 1 THEN 2 ELSE 1]
=============================================================================
