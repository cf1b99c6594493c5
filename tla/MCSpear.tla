------------------------------ MODULE MCSpear ------------------------------
(* An instance of Spear for TLC.  One of the intervals does not fit into   *)
(* 16 bits, and one of the sums of the other settings brings the checksum  *)
(* of live settings with a CO2 sensor and an interval of two to zero, and  *)
(* with an NPK sensor to that of an erased row.                            *)
EXTENDS Spear

MCIntervals == {65538}
MCRests == {186}
=============================================================================
