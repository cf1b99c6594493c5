------------------------------ MODULE Courier ------------------------------
(* What the radio promises between the Spears and the Shield.  Packets of  *)
(* a Spear may be lost or handed over several times, but never an old one  *)
(* after a newer one.  A handover may be believed by any of some Spears,   *)
(* not only by the one whose packet it was, but a Spear believes in no     *)
(* more successes than there were handovers it may believe.                *)
EXTENDS Naturals

CONSTANTS
  Spears,      (* those who send *)
  Reached   (* for each Spear, those who may believe in its deliveries *)

VARIABLES
  offered,    (* the number of the last packet each Spear began to send *)
  taken,      (* the number of the last one the Shield took from it, or 0 *)
  owed        (* the handovers each Spear may still believe in *)

courierVars == <<offered, taken, owed>>

Init ==
  /\ offered = [n \in Spears |-> 0]
  /\ taken = [n \in Spears |-> 0]
  /\ owed = [n \in Spears |-> 0]

Offer(n) ==
  /\ offered' = [offered EXCEPT ![n] = @ + 1]
  /\ UNCHANGED <<taken, owed>>

Take(n) ==
  /\ \E number \in taken[n] .. offered[n] :
        number > 0 /\ taken' = [taken EXCEPT ![n] = number]
  /\ owed' = [m \in Spears |-> IF m \in Reached[n] THEN owed[m] + 1 ELSE owed[m]]
  /\ UNCHANGED offered

Confirm(n) ==
  /\ owed[n] > 0
  /\ owed' = [owed EXCEPT ![n] = @ - 1]
  /\ UNCHANGED <<offered, taken>>

Next == \E n \in Spears : Offer(n) \/ Take(n) \/ Confirm(n)

Spec == Init /\ [][Next]_courierVars
=============================================================================
