----------------------------- MODULE RadioLink -----------------------------
(***************************************************************************)
(* The radio between the Spears and the Shield: packets are sent with      *)
(* retries until acknowledged (the Spear's igh_spear_rfm69.cpp over        *)
(* rfm69_hal/RFM69.cpp), the Shield polls its radio once a pass of the     *)
(* main loop, copies what it finds and acknowledges it (igh_rfm69.cpp over *)
(* RFM69-Particle.cpp).                                                    *)
(*                                                                         *)
(* The two drivers differ in what an interrupt does.  The Shield's reads   *)
(* the packet out of the chip at once, over the one before; the Spear's    *)
(* only notes that there is one (_haveData), and it stays in the chip,     *)
(* which hears nothing else, until receiveDone is called.                  *)
(*                                                                         *)
(* A frame is heard by any of the radios that listen while it is sent, and *)
(* lost to the others; waiting for a free channel (canSend) makes a loss   *)
(* less likely and changes nothing else.  A frame that arrives while a     *)
(* driver waits for the channel is thrown away by its receiveDone, which   *)
(* is a loss too.                                                          *)
(***************************************************************************)
EXTENDS Integers

CONSTANTS
  Spears,      (* the ids of the Spears: 10 bits in their driver *)
  Shield,      (* the id of the Shield, a byte *)
  IdBytes,     (* values of a byte, which is an id in the Shield's driver *)
  Retries,     (* repetitions of a packet that is not acknowledged *)
  PacketsBound (* for each Spear, bound on the packets it sends *)

(* Mutant for TypeOK: the whole id.                                        *)
WholeId(id) == id

LowByte(id) == id % IdBytes

(* RF69_BROADCAST_ADDR of the Spear's driver.                              *)
Broadcast == 0

(* Whom the acknowledgement of a packet of Spear n can reach: the Shield   *)
(* answers to a byte, which may be the id of another Spear or, when it is  *)
(* the broadcast address, mean every Spear.                                *)
Believers(n) == {m \in Spears : LowByte(n) \in {m, Broadcast}}

(* No two nodes have one id (igh_spear_rfm69.cpp:25); their low bytes may  *)
(* be the same.  The Shield's is not 255, the broadcast address of its own *)
(* driver, which acknowledges nothing that is sent there.                  *)
ASSUME RadioAssumption ==
  /\ IdBytes \in Nat \ {0}
  /\ Spears \subseteq Nat
  /\ Shield \in 0 .. IdBytes - 2 /\ Shield \notin Spears
  /\ Retries \in Nat
  /\ PacketsBound \in [Spears -> Nat]

VARIABLES
  s_at,       (* Spear: where its loop is *)
  tries,      (* Spear: transmissions of the packet it is sending *)
  number,     (* Spear: the number of its last packet *)
  s_mode,     (* Spear: _mode of its driver *)
  s_fifo,     (* Spear: the frame waiting in the chip *)
  h_at,       (* Shield: where its main loop is *)
  h_mode,     (* Shield: _mode of its driver *)
  h_held,     (* Shield: the frame in DATA, if PAYLOADLEN is not 0 *)
  sender,     (* Shield: whom sendACK acknowledges *)
  stuck,      (* Shield: the chip holds a frame whose interrupt was ignored *)
  last,       (* history: the last packet the Shield copied from each Spear *)
  repeats,    (* history: how often it has copied that packet *)
  owed        (* history: copies whose acknowledgement can reach a Spear, *)
              (* less the successes of its sendWithRetry *)

spearVars   == <<s_at, tries, number, s_mode, s_fifo>>
shieldRadio == <<h_mode, h_held, stuck>>
copyVars    == <<last, repeats>>
shieldVars  == <<h_at, sender, shieldRadio, copyVars>>
radioVars   == <<spearVars, shieldVars, owed>>

Data(n)   == [kind |-> "data", to |-> Shield, from |-> n, number |-> number[n]]
Ack(id)   == [kind |-> "ack", to |-> id, from |-> Shield, number |-> 0]
Nothing   == [kind |-> "none", to |-> 0, from |-> 0, number |-> 0]

DataFrames == [kind : {"data"}, to : {Shield}, from : Spears, number : Nat \ {0}]
AckFrames  == [kind : {"ack"}, to : 0 .. IdBytes - 1, from : {Shield}, number : {0}]

Init ==
  /\ s_at = [n \in Spears |-> "idle"]
  /\ tries = [n \in Spears |-> 0]
  /\ number = [n \in Spears |-> 0]
  /\ s_mode = [n \in Spears |-> "STANDBY"]
  /\ s_fifo = [n \in Spears |-> Nothing]
  /\ h_at = "poll" /\ h_mode = "STANDBY" /\ h_held = Nothing
  /\ sender = 0 /\ stuck = FALSE
  /\ last = [n \in Spears |-> 0]
  /\ repeats = [n \in Spears |-> 0]
  /\ owed = [n \in Spears |-> 0]

-----------------------------------------------------------------------------
(* The air.                                                                *)

SpearListens(n) == s_mode[n] = "RX" /\ s_fifo[n] = Nothing

(* Inside "entering" the chip listens and _mode does not say so yet.       *)
ShieldListens == (h_mode = "RX" \/ h_at = "entering") /\ ~stuck

(* What the Shield's interrupt makes of a frame.  With _mode not RX it is  *)
(* ignored, and as the frame stays in the chip there is no other.          *)
ShieldHears(f) ==
  /\ ShieldListens
  /\ IF h_at = "entering"
     THEN stuck' = TRUE /\ UNCHANGED <<h_mode, h_held>>
     ELSE /\ h_held' = IF f.to = Shield THEN f ELSE Nothing
          /\ UNCHANGED <<h_mode, stuck>>

(* sendFrame: the chip of the one who sends loses what it held.            *)
SpearsHear(f, source) ==
  \E hearers \in SUBSET {n \in Spears \ {source} : SpearListens(n)} :
     s_fifo' = [n \in Spears |->
                  IF n = source THEN Nothing
                  ELSE IF n \in hearers THEN f ELSE s_fifo[n]]

(* A frame of another network member, to neither Shield nor Spear, makes   *)
(* the Shield's driver drop the packet that waits to be polled.            *)
Stranger ==
  /\ ShieldHears(Nothing)
  /\ UNCHANGED <<spearVars, h_at, sender, copyVars, owed>>

-----------------------------------------------------------------------------
(* The Spear.  igh_spear_rfm69_send_2_shield: sendWithRetry, whose result  *)
(* is only logged, then receiveDone.                                       *)

Report(n) ==
  /\ s_at[n] = "idle" /\ number[n] < PacketsBound[n]
  /\ number' = [number EXCEPT ![n] = @ + 1]
  /\ s_at' = [s_at EXCEPT ![n] = "send"]
  /\ UNCHANGED <<tries, s_mode, s_fifo, shieldVars, owed>>

(* Transmissions after one more (mutant for SendingEnds: not counted).     *)
NotCounted(n) == tries[n]

Counted(n) == tries[n] + 1

Transmit(n) ==
  /\ s_at[n] = "send"
  /\ s_at' = [s_at EXCEPT ![n] = "wait"]
  /\ tries' = [tries EXCEPT ![n] = Counted(n)]
  /\ s_mode' = [s_mode EXCEPT ![n] = "STANDBY"]
  /\ SpearsHear(Data(n), n)
  /\ ShieldHears(Data(n)) \/ UNCHANGED shieldRadio
  /\ UNCHANGED <<number, h_at, sender, copyVars, owed>>

(* The filter of interruptHandler.  (Mutant for ImplementsCourier: every   *)
(* frame of the network is taken, as in spy mode.)                         *)
ForMeSpying(n, f) == f # Nothing

ForMe(n, f) == f.to \in {n, Broadcast}

AckWaits(n) ==
  /\ s_mode[n] = "RX"
  /\ ForMe(n, s_fifo[n])
  /\ s_fifo[n].kind = "ack" /\ s_fifo[n].from = Shield

(* ACKReceived: receiveDone, and the frame is an acknowledgement of the    *)
(* Shield.                                                                 *)
Confirmed(n) ==
  /\ s_at[n] = "wait" /\ AckWaits(n)
  /\ owed' = [owed EXCEPT ![n] = @ - 1]
  /\ s_at' = [s_at EXCEPT ![n] = "idle"]
  /\ tries' = [tries EXCEPT ![n] = 0]
  /\ s_fifo' = [s_fifo EXCEPT ![n] = Nothing]
  /\ UNCHANGED <<number, s_mode, shieldVars>>

(* receiveDone otherwise: it takes the driver to RX (receiveBegin), throws *)
(* away a frame for someone else, or returns true to a caller that has no  *)
(* use for the frame; the next call then goes back to RX.  Also            *)
(* igh_spear_process_shield_message, which only logs what it is sent.      *)
Listen(n) ==
  /\ s_at[n] = "idle" \/ (s_at[n] = "wait" /\ ~AckWaits(n))
  /\ s_mode[n] = "STANDBY" \/ s_fifo[n] # Nothing
  /\ s_mode' = [s_mode EXCEPT ![n] = "RX"]
  /\ s_fifo' = [s_fifo EXCEPT ![n] = Nothing]
  /\ UNCHANGED <<s_at, tries, number, shieldVars, owed>>

(* The time to wait for the acknowledgement is over.                       *)
TryAgain(n) == tries[n] <= Retries

Unanswered(n) ==
  /\ s_at[n] = "wait"
  /\ s_at' = [s_at EXCEPT ![n] = IF TryAgain(n) THEN "send" ELSE "idle"]
  /\ tries' = [tries EXCEPT ![n] = IF TryAgain(n) THEN @ ELSE 0]
  /\ UNCHANGED <<number, s_mode, s_fifo, shieldVars, owed>>

RestartSpear(n) ==
  /\ s_at' = [s_at EXCEPT ![n] = "idle"]
  /\ tries' = [tries EXCEPT ![n] = 0]
  /\ s_mode' = [s_mode EXCEPT ![n] = "STANDBY"]
  /\ s_fifo' = [s_fifo EXCEPT ![n] = Nothing]
  /\ UNCHANGED <<number, shieldVars, owed>>

Spear(n) ==
  Report(n) \/ Transmit(n) \/ Confirmed(n) \/ Listen(n) \/ Unanswered(n) \/ RestartSpear(n)

-----------------------------------------------------------------------------
(* The Shield.                                                             *)

(* receiveBegin.  Between the chip's mode and _mode another thread may run *)
(* long enough for a frame to arrive.  (Mutants for ShieldListensAgain:    *)
(* the driver stays in STANDBY; for RepeatsBounded: the packet stays.)     *)
ReceiveBeginKeeping ==
  /\ h_held' = h_held /\ stuck' = FALSE
  /\ h_mode' = "STANDBY" /\ h_at' = "entering"

ReceiveBeginDeaf ==
  /\ h_held' = Nothing /\ stuck' = FALSE
  /\ h_mode' = "STANDBY" /\ h_at' = "poll"

ReceiveBegin ==
  /\ h_held' = Nothing /\ stuck' = FALSE
  /\ h_mode' = "STANDBY" /\ h_at' = "entering"

Entered ==
  /\ h_at = "entering"
  /\ h_mode' = "RX" /\ h_at' = "poll"
  /\ UNCHANGED <<spearVars, sender, h_held, stuck, copyVars, owed>>

(* igh_rfm69_receive_raw_bytes: receiveDone is true, and the packet is     *)
(* copied; SENDERID is a byte.  Without a packet receiveDone goes back to  *)
(* RX if it is not there.                                                  *)
CopyPacket ==
  /\ h_at = "poll" /\ h_mode = "RX" /\ h_held # Nothing
  /\ h_mode' = "STANDBY"
  /\ h_at' = "ack"
  /\ sender' = LowByte(h_held.from)
  /\ last' = [last EXCEPT ![h_held.from] = h_held.number]
  /\ repeats' = [repeats EXCEPT ![h_held.from] =
                   IF last[h_held.from] = h_held.number THEN @ + 1 ELSE 1]
  /\ owed' = [m \in Spears |->
                IF m \in Believers(h_held.from) THEN owed[m] + 1 ELSE owed[m]]
  /\ UNCHANGED <<spearVars, h_held, stuck>>

NoPacket ==
  /\ h_at = "poll" /\ h_mode = "STANDBY"
  /\ ReceiveBegin
  /\ UNCHANGED <<spearVars, sender, copyVars, owed>>

(* sendACK, to the byte of the sender, and the receiveDone that follows.   *)
Acknowledge ==
  /\ h_at = "ack"
  /\ SpearsHear(Ack(sender), Shield)
  /\ sender' = 0
  /\ ReceiveBegin
  /\ UNCHANGED <<s_at, tries, number, s_mode, copyVars, owed>>

(* igh_rfm69_service sets the radio up anew when settings have changed:    *)
(* the driver starts in STANDBY, with PAYLOADLEN as it was.                *)
SetUpAgain ==
  /\ h_at = "poll"
  /\ h_mode' = "STANDBY" /\ stuck' = FALSE
  /\ UNCHANGED <<spearVars, h_at, sender, h_held, copyVars, owed>>

RestartShield ==
  /\ h_at' = "poll" /\ h_mode' = "STANDBY" /\ h_held' = Nothing
  /\ sender' = 0 /\ stuck' = FALSE
  /\ UNCHANGED <<spearVars, copyVars, owed>>

MainLoop == Entered \/ CopyPacket \/ NoPacket \/ Acknowledge

Next ==
  (\E n \in Spears : Spear(n)) \/ MainLoop \/ SetUpAgain \/ RestartShield \/ Stranger

(* Both main loops go on, and the time to wait for an answer passes.       *)
Fairness ==
  /\ WF_radioVars(MainLoop)
  /\ \A n \in Spears : WF_radioVars(Transmit(n) \/ Unanswered(n) \/ Confirmed(n))

Spec == Init /\ [][Next]_radioVars

FairSpec == Spec /\ Fairness

-----------------------------------------------------------------------------
TypeOK ==
  /\ s_at \in [Spears -> {"idle", "send", "wait"}]
  /\ tries \in [Spears -> 0 .. Retries + 1]
  /\ number \in [Spears -> Nat]
  /\ s_mode \in [Spears -> {"STANDBY", "RX"}]
  /\ s_fifo \in [Spears -> DataFrames \cup AckFrames \cup {Nothing}]
  /\ h_at \in {"poll", "ack", "entering"}
  /\ h_mode \in {"STANDBY", "RX"}
  /\ h_held \in DataFrames \cup {Nothing}
  /\ sender \in 0 .. IdBytes - 1
  /\ stuck \in BOOLEAN
  /\ last \in [Spears -> Nat]
  /\ repeats \in [Spears -> Nat]
  /\ owed \in [Spears -> Nat]

(* The radio is a Courier: a Spear believes in no more deliveries than     *)
(* there were of packets whose acknowledgement it can take for its own,    *)
(* through lost acknowledgements, late ones and ones to the broadcast      *)
(* address, and no packet is taken after a newer one of the same Spear     *)
(* (sendWithRetry, ACKReceived, igh_rfm69_receive_raw_bytes).              *)
Promise == INSTANCE Courier WITH
  offered <- number, taken <- last, owed <- owed,
  Reached <- [n \in Spears |-> Believers(n)]

ImplementsCourier == Promise!Spec

(* A packet whose acknowledgements are lost is staged again each time, but *)
(* no more often than it was sent: one copy per transmission, whatever     *)
(* waits in the drivers in between.                                        *)
RepeatsBounded == \A n \in Spears : repeats[n] <= Retries + 1

(* sendWithRetry returns, answered or not.                                 *)
SendingEnds == \A n \in Spears : s_at[n] # "idle" ~> s_at[n] = "idle"

(* The Shield never stays deaf: after each packet, each acknowledgement    *)
(* and each new setup its radio listens again, unless a frame came inside  *)
(* setMode and neither settings nor a restart set the radio up again.      *)
ShieldListensAgain == <>[]stuck \/ []<>ShieldListens
=============================================================================
