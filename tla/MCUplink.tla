------------------------------ MODULE MCUplink ------------------------------
(* Instances of Uplink for TLC: three messages in two seconds, so that one *)
(* file may hold two of them and another file a third.                     *)
EXTENDS Uplink
=============================================================================
