-------------------------- MODULE RadioLink_proofs --------------------------
(***************************************************************************)
(* Proofs about RadioLink, for any Spears, whatever their ids have in      *)
(* common, any number of retries and packets.  One invariant stands behind all: which  *)
(* packet may wait in the Shield's driver, how often it may still be       *)
(* copied, and whose acknowledgement may still arrive.                     *)
(***************************************************************************)
EXTENDS RadioLink, TLAPS

Frames == DataFrames \cup AckFrames \cup {Nothing}

(* TypeOK but for what the Spears are owed, which is a natural number only *)
(* because of OwedForAcks below.                                           *)
SpearTyped ==
  /\ s_at \in [Spears -> {"idle", "send", "wait"}]
  /\ tries \in [Spears -> 0 .. Retries + 1]
  /\ number \in [Spears -> Nat]
  /\ s_mode \in [Spears -> {"STANDBY", "RX"}]
  /\ s_fifo \in [Spears -> Frames]

ShieldTyped ==
  /\ h_at \in {"poll", "ack", "entering"}
  /\ h_mode \in {"STANDBY", "RX"}
  /\ h_held \in DataFrames \cup {Nothing}
  /\ sender \in 0 .. IdBytes - 1

HistoryTyped ==
  /\ last \in [Spears -> Nat]
  /\ repeats \in [Spears -> Nat]
  /\ owed \in [Spears -> Int]

Typed == SpearTyped /\ ShieldTyped /\ HistoryTyped

(* A Spear that sends has a packet, and a transmission of it left before   *)
(* it transmits.                                                           *)
Sending ==
  \A n \in Spears :
    /\ s_at[n] = "idle" => tries[n] = 0
    /\ s_at[n] = "send" => tries[n] <= Retries
    /\ s_at[n] # "idle" => number[n] > 0

(* While the Shield acknowledges a packet or begins to listen no frame can *)
(* take the place of the one it holds.                                     *)
Polling ==
  /\ h_at # "poll" => h_mode = "STANDBY"
  /\ h_at = "entering" => h_held = Nothing

(* A packet that waits to be polled is not older than what was copied.     *)
HeldInOrder ==
  /\ \A n \in Spears : last[n] <= number[n]
  /\ h_held # Nothing =>
       last[h_held.from] <= h_held.number /\ h_held.number <= number[h_held.from]

(* An acknowledgement that a Spear will take for its own is one it is      *)
(* owed, and so is the one the Shield is about to send.                    *)
AckHeard(n) == s_fifo[n].kind = "ack" /\ s_fifo[n].to \in {n, Broadcast}
AckDue(n)   == h_at = "ack" /\ sender \in {n, Broadcast}

OwedForAcks ==
  \A n \in Spears :
    /\ owed[n] >= 0
    /\ AckHeard(n) => owed[n] >= 1
    /\ AckDue(n) => owed[n] >= 1
    /\ AckHeard(n) /\ AckDue(n) => owed[n] >= 2

LinkInv == Typed /\ Sending /\ Polling /\ HeldInOrder /\ OwedForAcks

-----------------------------------------------------------------------------
LEMMA LowByteTyped == \A id \in Nat : LowByte(id) \in 0 .. IdBytes - 1
BY RadioAssumption DEF LowByte

LEMMA FrameTypes ==
  /\ \A n \in Spears : number[n] \in Nat \ {0} => Data(n) \in DataFrames
  /\ \A id \in 0 .. IdBytes - 1 : Ack(id) \in AckFrames
  /\ \A f \in DataFrames : f.kind = "data" /\ f.from \in Spears /\ f.number \in Nat \ {0}
  /\ \A f \in AckFrames : f.kind = "ack"
  /\ Nothing.kind = "none"
BY DEF Data, Ack, Nothing, DataFrames, AckFrames

(* What a frame on the air does to the radios.                             *)
LEMMA HearingShield ==
  ASSUME NEW f, ShieldHears(f) \/ UNCHANGED shieldRadio
  PROVE  /\ h_mode' = h_mode
         /\ \/ h_held' = h_held
            \/ h_mode = "RX" /\ h_at # "entering" /\ h_held' \in {f, Nothing}
<1>1. CASE UNCHANGED shieldRadio
  BY <1>1, Zenon DEF shieldRadio
<1>2. CASE ShieldHears(f) /\ h_at = "entering"
  BY <1>2, Zenon DEF ShieldHears
<1>3. CASE ShieldHears(f) /\ h_at # "entering"
  BY <1>3, Zenon DEF ShieldHears, ShieldListens
<1> QED
  BY <1>1, <1>2, <1>3

LEMMA HearingSpears ==
  ASSUME SpearTyped, NEW f \in Frames, NEW source, SpearsHear(f, source)
  PROVE  /\ s_fifo' \in [Spears -> Frames]
         /\ \A n \in Spears : \/ s_fifo'[n] \in {Nothing, s_fifo[n]}
                              \/ s_fifo[n] = Nothing /\ s_fifo'[n] = f
<1>1. PICK hearers \in SUBSET {n \in Spears \ {source} : SpearListens(n)} :
        s_fifo' = [n \in Spears |->
                     IF n = source THEN Nothing
                     ELSE IF n \in hearers THEN f ELSE s_fifo[n]]
  BY DEF SpearsHear
<1>2. \A n \in hearers : s_fifo[n] = Nothing
  BY DEF SpearListens
<1> QED
  BY <1>1, <1>2 DEF SpearTyped, Frames

-----------------------------------------------------------------------------
(* The invariant holds, action by action.                                  *)
LEMMA LinkInit == Init => LinkInv
<1> SUFFICES ASSUME Init PROVE LinkInv
  OBVIOUS
<1>1. Typed
  BY RadioAssumption DEF Init, Typed, SpearTyped, ShieldTyped, HistoryTyped, Frames
<1>2. Sending /\ Polling /\ HeldInOrder
  BY RadioAssumption DEF Init, Sending, Polling, HeldInOrder
<1>3. OwedForAcks
  <2> SUFFICES ASSUME NEW n \in Spears PROVE owed[n] >= 0 /\ ~AckHeard(n) /\ ~AckDue(n)
    BY Zenon DEF OwedForAcks
  <2>1. ~AckHeard(n) /\ ~AckDue(n)
    BY DEF Init, Nothing, AckHeard, AckDue
  <2>2. owed[n] >= 0
    BY DEF Init
  <2> QED
    BY <2>1, <2>2
<1> QED
  BY <1>1, <1>2, <1>3 DEF LinkInv

(* A report, a transmission and its ends change nothing on the Shield      *)
(* but, perhaps, the packet it holds.                                      *)
LEMMA ReportKeeps ==
  ASSUME LinkInv, NEW n \in Spears, Report(n) PROVE LinkInv'
<1> USE DEF LinkInv, Report, shieldVars, shieldRadio, copyVars
<1>1. Typed'
  BY RadioAssumption DEF Typed, SpearTyped, ShieldTyped, HistoryTyped
<1>2. Sending'
  BY RadioAssumption DEF Sending, Typed, SpearTyped
<1>3. Polling'
  BY DEF Polling
<1>4. HeldInOrder'
  BY DEF HeldInOrder, Typed, SpearTyped, ShieldTyped, HistoryTyped, DataFrames
<1>5. OwedForAcks'
  BY DEF OwedForAcks, AckHeard, AckDue
<1> QED
  BY <1>1, <1>2, <1>3, <1>4, <1>5

LEMMA TransmitKeeps ==
  ASSUME LinkInv, NEW n \in Spears, Transmit(n) PROVE LinkInv'
<1>1. Data(n) \in DataFrames
  BY FrameTypes DEF LinkInv, Transmit, Sending, Typed, SpearTyped
<1>2. /\ s_fifo' \in [Spears -> Frames]
      /\ \A k \in Spears : \/ s_fifo'[k] \in {Nothing, s_fifo[k]}
                           \/ s_fifo'[k] = Data(n)
  BY <1>1, HearingSpears DEF LinkInv, Transmit, Typed, Frames
<1>3. /\ h_mode' = h_mode
      /\ \/ h_held' = h_held
         \/ h_at # "entering" /\ h_held' \in {Data(n), Nothing}
  BY HearingShield DEF Transmit
<1> USE DEF LinkInv, Transmit, copyVars
<1>4. Typed'
  <2>1. SpearTyped'
    <3>1. tries[n] + 1 \in 0 .. Retries + 1
      BY RadioAssumption DEF Typed, SpearTyped, Sending
    <3> QED
      BY <1>2, <3>1 DEF Typed, SpearTyped, Counted
  <2>2. ShieldTyped' /\ HistoryTyped'
    BY <1>1, <1>3 DEF Typed, ShieldTyped, HistoryTyped
  <2> QED
    BY <2>1, <2>2 DEF Typed
<1>5. Sending'
  BY DEF Sending, Typed, SpearTyped
<1>6. Polling'
  BY <1>3 DEF Polling
<1>7. HeldInOrder'
  BY <1>3 DEF HeldInOrder, Data, Typed, SpearTyped
<1>8. OwedForAcks'
  BY <1>1, <1>2, FrameTypes DEF OwedForAcks, AckHeard, AckDue
<1> QED
  BY <1>4, <1>5, <1>6, <1>7, <1>8

(* What the Spear is owed shrinks with the acknowledgement it has heard.   *)
LEMMA ConfirmedKeeps ==
  ASSUME LinkInv, NEW n \in Spears, Confirmed(n) PROVE LinkInv' /\ owed[n] > 0
<1> USE DEF LinkInv, Confirmed, shieldVars, shieldRadio, copyVars
<1>1. AckHeard(n)
  BY DEF AckHeard, AckWaits, ForMe
<1>2. Typed'
  BY RadioAssumption DEF Typed, SpearTyped, ShieldTyped, HistoryTyped, Frames
<1>3. Sending' /\ Polling' /\ HeldInOrder'
  BY DEF Sending, Polling, HeldInOrder, Typed, SpearTyped
<1>4. OwedForAcks' /\ owed[n] > 0
  BY <1>1, FrameTypes DEF OwedForAcks, AckHeard, AckDue, Typed, SpearTyped, HistoryTyped
<1> QED
  BY <1>2, <1>3, <1>4

(* The other steps of a Spear empty its chip or leave it alone.            *)
LEMMA SpearKeeps ==
  ASSUME LinkInv, NEW n \in Spears, Listen(n) \/ Unanswered(n) \/ RestartSpear(n)
  PROVE  LinkInv'
<1> USE DEF LinkInv, Listen, Unanswered, RestartSpear, TryAgain, shieldVars, shieldRadio, copyVars
<1>1. Typed'
  BY RadioAssumption DEF Typed, SpearTyped, ShieldTyped, HistoryTyped, Frames
<1>2. Sending' /\ Polling' /\ HeldInOrder'
  BY DEF Sending, Polling, HeldInOrder, Typed, SpearTyped
<1>3. OwedForAcks'
  BY FrameTypes DEF OwedForAcks, AckHeard, AckDue, Typed, SpearTyped
<1> QED
  BY <1>1, <1>2, <1>3

LEMMA CopyKeeps == ASSUME LinkInv, CopyPacket PROVE LinkInv'
<1> USE DEF LinkInv, CopyPacket, spearVars
<1>1. h_held \in DataFrames /\ h_held.from \in Spears /\ h_held.number \in Nat \ {0}
  BY FrameTypes DEF Typed, ShieldTyped
<1>2. Typed'
  <2>1. SpearTyped'
    BY DEF Typed, SpearTyped
  <2>2. ShieldTyped'
    <3>1. sender' \in 0 .. IdBytes - 1
      BY <1>1, LowByteTyped, RadioAssumption
    <3> QED
      BY <3>1 DEF Typed, ShieldTyped
  <2>3. HistoryTyped'
    <3>1. last' \in [Spears -> Nat]
      BY <1>1, RadioAssumption DEF Typed, HistoryTyped
    <3>2. repeats' \in [Spears -> Nat]
      BY <1>1 DEF Typed, HistoryTyped
    <3>3. owed' \in [Spears -> Int]
      BY <1>1 DEF Typed, HistoryTyped
    <3> QED
      BY <3>1, <3>2, <3>3 DEF HistoryTyped
  <2> QED
    BY <2>1, <2>2, <2>3 DEF Typed
<1>3. Sending' /\ Polling'
  BY DEF Sending, Polling
<1>4. HeldInOrder'
  BY <1>1 DEF HeldInOrder, Typed, HistoryTyped
<1>5. OwedForAcks'
  <2> SUFFICES ASSUME NEW n \in Spears
               PROVE  /\ owed'[n] >= 0
                      /\ AckHeard(n)' => owed'[n] >= 1
                      /\ AckDue(n)' => owed'[n] >= 1
                      /\ AckHeard(n)' /\ AckDue(n)' => owed'[n] >= 2
    BY Zenon DEF OwedForAcks
  <2>1. owed'[n] = IF n \in Believers(h_held.from) THEN owed[n] + 1 ELSE owed[n]
    OBVIOUS
  <2>2. AckDue(n)' => n \in Believers(h_held.from)
    BY DEF AckDue, Believers
  <2>3. AckHeard(n)' = AckHeard(n)
    BY DEF AckHeard
  <2> QED
    BY <2>1, <2>2, <2>3 DEF OwedForAcks, Typed, HistoryTyped
<1> QED
  BY <1>2, <1>3, <1>4, <1>5

(* The acknowledgement on its way is one that was due.                     *)
LEMMA AcknowledgeKeeps == ASSUME LinkInv, Acknowledge PROVE LinkInv'
<1>1. Ack(sender) \in AckFrames /\ Ack(sender).to = sender
  BY FrameTypes DEF LinkInv, Typed, ShieldTyped, Ack
<1>2. /\ s_fifo' \in [Spears -> Frames]
      /\ \A k \in Spears : \/ s_fifo'[k] \in {Nothing, s_fifo[k]}
                           \/ s_fifo'[k] = Ack(sender)
  BY <1>1, HearingSpears DEF LinkInv, Acknowledge, Typed, Frames
<1> USE DEF LinkInv, Acknowledge, ReceiveBegin, copyVars
<1>3. Typed'
  BY <1>2, RadioAssumption DEF Typed, SpearTyped, ShieldTyped, HistoryTyped
<1>4. Sending' /\ Polling' /\ HeldInOrder'
  BY DEF Sending, Polling, HeldInOrder
<1>5. OwedForAcks'
  BY <1>1, <1>2, FrameTypes DEF OwedForAcks, AckHeard, AckDue, Typed, HistoryTyped
<1> QED
  BY <1>3, <1>4, <1>5

(* The other steps of the Shield empty its driver or leave it alone.       *)
LEMMA ShieldKeeps ==
  ASSUME LinkInv, Entered \/ NoPacket \/ SetUpAgain \/ RestartShield \/ Stranger
  PROVE  LinkInv'
<1>1. CASE Stranger
  <2>1. /\ h_mode' = h_mode
        /\ h_held' = h_held \/ h_held' = Nothing
    BY <1>1, HearingShield DEF Stranger
  <2> QED
    BY <1>1, <2>1 DEF Stranger, spearVars, copyVars, LinkInv, Typed, SpearTyped, ShieldTyped,
       HistoryTyped, Sending, Polling, HeldInOrder, OwedForAcks, AckHeard, AckDue
<1>2. CASE Entered \/ NoPacket \/ SetUpAgain \/ RestartShield
  BY <1>2, RadioAssumption DEF Entered, NoPacket, ReceiveBegin, SetUpAgain, RestartShield,
     spearVars, copyVars, LinkInv, Typed, SpearTyped, ShieldTyped, HistoryTyped,
     Sending, Polling, HeldInOrder, OwedForAcks, AckHeard, AckDue
<1> QED
  BY <1>1, <1>2

LEMMA LinkStutter == ASSUME LinkInv, UNCHANGED radioVars PROVE LinkInv'
BY DEF radioVars, spearVars, shieldVars, shieldRadio, copyVars, LinkInv, Typed, SpearTyped,
   ShieldTyped, HistoryTyped, Sending, Polling, HeldInOrder, OwedForAcks, AckHeard, AckDue

LEMMA LinkHolds == Spec => []LinkInv
<1>1. LinkInv /\ [Next]_radioVars => LinkInv'
  BY ReportKeeps, TransmitKeeps, ConfirmedKeeps, SpearKeeps, CopyKeeps, AcknowledgeKeeps,
     ShieldKeeps, LinkStutter, Zenon DEF Next, Spear, MainLoop
<1> QED
  BY LinkInit, <1>1, PTL DEF Spec
-----------------------------------------------------------------------------
(* Every variable of Spear, Shield and history keeps its type, for any     *)
(* Spears and any number of retries: no count of transmissions passes its  *)
(* limit, nothing but frames of the two kinds waits in a chip, the byte    *)
(* the Shield answers to is a byte, and no Spear is told of more than was  *)
(* taken.                                                                  *)
THEOREM TypeCorrect == Spec => []TypeOK
<1>1. Init => stuck \in BOOLEAN
  BY Zenon DEF Init
<1>2. stuck \in BOOLEAN /\ [Next]_radioVars => (stuck \in BOOLEAN)'
  <2>1. [Next]_radioVars => stuck' = TRUE \/ stuck' = FALSE \/ stuck' = stuck
    BY Zenon DEF Next, Spear, MainLoop, Report, Transmit, Confirmed, Listen, Unanswered,
       RestartSpear, Entered, CopyPacket, NoPacket, Acknowledge, ReceiveBegin, SetUpAgain,
       RestartShield, Stranger, ShieldHears, radioVars, shieldVars, shieldRadio
  <2> QED
    BY <2>1, Zenon
<1>3. LinkInv /\ stuck \in BOOLEAN => TypeOK
  <2>1. LinkInv => owed \in [Spears -> Nat]
    BY DEF LinkInv, Typed, HistoryTyped, OwedForAcks
  <2> QED
    BY <2>1, Zenon DEF LinkInv, Typed, SpearTyped, ShieldTyped, HistoryTyped, Frames, TypeOK
<1> QED
  BY <1>1, <1>2, <1>3, LinkHolds, PTL DEF Spec

-----------------------------------------------------------------------------
(* The radio keeps the promise of Courier, whatever is lost, repeated or   *)
(* late: igh_rfm69_receive_raw_bytes never takes a packet after a newer    *)
(* one of the same Spear, and sendWithRetry succeeds at most once for each *)
(* copy the Shield made of packets of that Spear.                          *)
THEOREM RadioIsCourier == Spec => ImplementsCourier
<1>1. Init => Promise!Init
  BY Zenon DEF Init, Promise!Init
<1>2. LinkInv /\ [Next]_radioVars => [Promise!Next]_Promise!courierVars
  <2> SUFFICES ASSUME LinkInv, [Next]_radioVars
               PROVE  Promise!Next \/ UNCHANGED <<number, last, owed>>
    BY Zenon DEF Promise!courierVars
  <2>1. ASSUME NEW n \in Spears, Report(n) PROVE Promise!Offer(n)
    BY <2>1, Zenon DEF Report, Promise!Offer, shieldVars, copyVars
  <2>2. ASSUME NEW n \in Spears, Confirmed(n) PROVE Promise!Confirm(n)
    BY <2>2, ConfirmedKeeps, Zenon DEF Confirmed, Promise!Confirm, shieldVars, copyVars
  <2>3. ASSUME CopyPacket PROVE h_held.from \in Spears /\ Promise!Take(h_held.from)
    <3>1. h_held.from \in Spears /\ h_held.number \in Nat \ {0}
      BY <2>3, FrameTypes DEF CopyPacket, LinkInv, Typed, ShieldTyped
    <3>2. h_held.number \in last[h_held.from] .. number[h_held.from] /\ h_held.number > 0
      BY <2>3, <3>1 DEF CopyPacket, LinkInv, HeldInOrder, Typed, SpearTyped, HistoryTyped
    <3> QED
      BY <2>3, <3>1, <3>2, Zenon DEF CopyPacket, Promise!Take, spearVars
  <2>4. ASSUME NEW n \in Spears,
               Transmit(n) \/ Listen(n) \/ Unanswered(n) \/ RestartSpear(n)
        PROVE  UNCHANGED <<number, last, owed>>
    BY <2>4, Zenon DEF Transmit, Listen, Unanswered, RestartSpear, shieldVars, copyVars
  <2>5. ASSUME Entered \/ NoPacket \/ Acknowledge \/ SetUpAgain \/ RestartShield \/ Stranger
        PROVE  UNCHANGED <<number, last, owed>>
    BY <2>5, Zenon DEF Entered, NoPacket, Acknowledge, SetUpAgain, RestartShield, Stranger,
       spearVars, copyVars
  <2>6. ASSUME UNCHANGED radioVars PROVE UNCHANGED <<number, last, owed>>
    BY <2>6, Zenon DEF radioVars, spearVars, shieldVars, copyVars
  <2> QED
    BY <2>1, <2>2, <2>3, <2>4, <2>5, <2>6, Zenon DEF Next, Spear, MainLoop, Promise!Next
<1> QED
  BY <1>1, <1>2, LinkHolds, PTL DEF Spec, ImplementsCourier, Promise!Spec
-----------------------------------------------------------------------------
(* Copies made and still to be made of packet k of Spear n: those of the   *)
(* packet a Spear is sending are no more than its transmissions.           *)
Copies(n, k) == IF last[n] = k THEN repeats[n] ELSE 0

Waits(n, k) ==
  IF h_at # "ack" /\ h_held # Nothing /\ h_held.from = n /\ h_held.number = k THEN 1 ELSE 0

CopiesBounded ==
  \A n \in Spears :
    /\ repeats[n] + Waits(n, last[n]) <= Retries + 1
    /\ s_at[n] # "idle" => Copies(n, number[n]) + Waits(n, number[n]) <= tries[n]

LEMMA CountTypes ==
  ASSUME Typed
  PROVE  \A n \in Spears :
           /\ repeats[n] \in Nat /\ tries[n] \in Nat /\ number[n] \in Nat /\ last[n] \in Nat
           /\ Waits(n, last[n]) \in {0, 1} /\ Waits(n, number[n]) \in {0, 1}
           /\ Copies(n, number[n]) \in Nat
<1>1. \A n \in Spears :
        repeats[n] \in Nat /\ tries[n] \in Nat /\ number[n] \in Nat /\ last[n] \in Nat
  BY DEF Typed, SpearTyped, HistoryTyped
<1>2. \A n \in Spears : /\ Waits(n, last[n]) \in {0, 1} /\ Waits(n, number[n]) \in {0, 1}
                       /\ Copies(n, number[n]) \in Nat
  BY <1>1 DEF Copies, Waits
<1> QED
  BY <1>1, <1>2

LEMMA Bound ==
  ASSUME LinkInv, CopiesBounded, NEW n \in Spears,
         NEW w \in {0, 1}, w <= Waits(n, last[n])
  PROVE  repeats[n] + w <= Retries + 1
<1>1. repeats[n] \in Nat /\ Waits(n, last[n]) \in {0, 1}
  BY CountTypes DEF LinkInv
<1>2. repeats[n] + Waits(n, last[n]) <= Retries + 1
  BY DEF CopiesBounded
<1> QED
  BY <1>1, <1>2, RadioAssumption

LEMMA SendingBound ==
  ASSUME LinkInv, CopiesBounded, NEW n \in Spears, s_at[n] # "idle",
         NEW w \in {0, 1}, w <= Waits(n, number[n])
  PROVE  Copies(n, number[n]) + w <= tries[n]
<1>1. Copies(n, number[n]) \in Nat /\ Waits(n, number[n]) \in {0, 1} /\ tries[n] \in Nat
  BY CountTypes DEF LinkInv
<1>2. Copies(n, number[n]) + Waits(n, number[n]) <= tries[n]
  BY DEF CopiesBounded
<1> QED
  BY <1>1, <1>2

(* A new packet has no copies, a transmission is at most one more to make. *)
LEMMA ReportCopies ==
  ASSUME LinkInv, CopiesBounded, NEW n \in Spears, Report(n) PROVE CopiesBounded'
<1> SUFFICES ASSUME NEW m \in Spears
             PROVE  /\ repeats'[m] + Waits(m, last[m])' <= Retries + 1
                    /\ s_at'[m] # "idle" =>
                         Copies(m, number[m])' + Waits(m, number[m])' <= tries'[m]
  BY DEF CopiesBounded
<1>1. UNCHANGED <<h_at, h_held, last, repeats, tries>>
  BY DEF Report, shieldVars, shieldRadio, copyVars
<1>2. CASE m # n
  BY <1>1, <1>2 DEF Report, CopiesBounded, Copies, Waits, LinkInv, Typed, SpearTyped
<1>3. CASE m = n
  <2>1. number'[n] = number[n] + 1 /\ last[n] <= number[n] /\ tries'[n] = 0
    BY <1>1, <1>3 DEF Report, LinkInv, Sending, HeldInOrder, Typed, SpearTyped
  <2>2. h_held # Nothing /\ h_held.from = n => h_held.number <= number[n]
    BY DEF LinkInv, HeldInOrder
  <2>3. h_held # Nothing => h_held.number \in Nat
    BY FrameTypes DEF LinkInv, Typed, ShieldTyped
  <2> QED
    BY <1>1, <1>3, <2>1, <2>2, <2>3, CountTypes
       DEF CopiesBounded, Copies, Waits, LinkInv
<1> QED
  BY <1>2, <1>3

LEMMA TransmitCopies ==
  ASSUME LinkInv, CopiesBounded, NEW n \in Spears, Transmit(n) PROVE CopiesBounded'
<1> SUFFICES ASSUME NEW m \in Spears
             PROVE  /\ repeats'[m] + Waits(m, last[m])' <= Retries + 1
                    /\ s_at'[m] # "idle" =>
                         Copies(m, number[m])' + Waits(m, number[m])' <= tries'[m]
  BY DEF CopiesBounded
<1>1. UNCHANGED <<h_at, number, last, repeats>>
  BY DEF Transmit, copyVars
<1>2. h_held' = h_held \/ h_held' \in {Data(n), Nothing}
  BY HearingShield DEF Transmit
<1>3. /\ Copies(m, number[m])' = Copies(m, number[m])
      /\ Data(n).from = n /\ Data(n).number = number[n]
  BY <1>1 DEF Copies, Data
<1>4. CASE m # n
  <2>1. Waits(m, last[m])' <= Waits(m, last[m]) /\ Waits(m, number[m])' <= Waits(m, number[m])
    BY <1>1, <1>2, <1>3, <1>4 DEF Waits
  <2>2. s_at'[m] = s_at[m] /\ tries'[m] = tries[m]
    BY <1>4 DEF Transmit, LinkInv, Typed, SpearTyped
  <2>3. Waits(m, last[m])' \in {0, 1} /\ Waits(m, number[m])' \in {0, 1}
    BY DEF Waits
  <2> QED
    BY <1>1, <1>3, <2>1, <2>2, <2>3, Bound, SendingBound
<1>5. CASE m = n
  <2>1. tries'[n] = tries[n] + 1 /\ s_at[n] = "send" /\ tries[n] <= Retries
    BY DEF Transmit, Counted, LinkInv, Sending, Typed, SpearTyped
  <2>2. Waits(n, number[n])' \in {0, 1} /\ Waits(n, last[n])' \in {0, 1}
    BY DEF Waits
  <2>3. Copies(n, number[n]) <= tries[n]
    BY <2>1, CountTypes DEF CopiesBounded, LinkInv
  <2>4. repeats'[n] + Waits(n, last[n])' <= Retries + 1
    <3>1. CASE last[n] = number[n]
      BY <1>1, <2>1, <2>2, <2>3, <3>1, CountTypes, RadioAssumption DEF Copies, LinkInv
    <3>2. CASE last[n] # number[n]
      <4>1. Waits(n, last[n])' <= Waits(n, last[n])
        BY <1>1, <1>2, <1>3, <3>2 DEF Waits
      <4> QED
        BY <1>1, <2>2, <4>1, Bound
    <3> QED
      BY <3>1, <3>2
  <2> QED
    BY <1>3, <1>5, <2>1, <2>2, <2>3, <2>4, CountTypes DEF LinkInv
<1> QED
  BY <1>4, <1>5

(* A copy made is one less to make.                                        *)
LEMMA CopyCopies ==
  ASSUME LinkInv, CopiesBounded, CopyPacket PROVE CopiesBounded'
<1> SUFFICES ASSUME NEW m \in Spears
             PROVE  /\ repeats'[m] + Waits(m, last[m])' <= Retries + 1
                    /\ s_at'[m] # "idle" =>
                         Copies(m, number[m])' + Waits(m, number[m])' <= tries'[m]
  BY DEF CopiesBounded
<1>1. /\ UNCHANGED <<s_at, tries, number, h_held>>
      /\ h_held # Nothing /\ h_held.from \in Spears /\ h_held.number \in Nat
      /\ h_at # "ack" /\ h_at' = "ack"
  BY FrameTypes DEF CopyPacket, spearVars, LinkInv, Typed, ShieldTyped
<1>2. Waits(m, last[m])' = 0 /\ Waits(m, number[m])' = 0
  BY <1>1 DEF Waits
<1>3. CASE m # h_held.from
  <2>1. last'[m] = last[m] /\ repeats'[m] = repeats[m]
    BY <1>3 DEF CopyPacket, LinkInv, Typed, HistoryTyped
  <2>2. Copies(m, number[m])' = Copies(m, number[m])
    BY <1>1, <2>1 DEF Copies
  <2> QED
    BY <1>1, <1>2, <2>1, <2>2, CountTypes, RadioAssumption DEF CopiesBounded, LinkInv
<1>4. CASE m = h_held.from
  <2>1. /\ last'[m] = h_held.number
        /\ repeats'[m] = IF last[m] = h_held.number THEN repeats[m] + 1 ELSE 1
    BY <1>4 DEF CopyPacket, LinkInv, Typed, HistoryTyped
  <2>2. CASE last[m] = h_held.number
    BY <1>1, <1>2, <1>4, <2>1, <2>2, CountTypes DEF CopiesBounded, Copies, Waits, LinkInv
  <2>3. CASE last[m] # h_held.number
    BY <1>1, <1>2, <1>4, <2>1, <2>3, CountTypes, RadioAssumption
       DEF CopiesBounded, Copies, Waits, LinkInv
  <2> QED
    BY <2>2, <2>3
<1> QED
  BY <1>3, <1>4

(* No other step adds a packet to be copied, and what ends the sending of  *)
(* one does not count.                                                     *)
LEMMA OtherCopies ==
  ASSUME LinkInv, CopiesBounded,
         UNCHANGED copyVars, UNCHANGED number,
         h_held' \in {h_held, Nothing},
         h_at = "ack" /\ h_at' # "ack" => h_held' = Nothing,
         \A n \in Spears : s_at'[n] # "idle" => s_at[n] # "idle" /\ tries'[n] = tries[n]
  PROVE  CopiesBounded'
<1> SUFFICES ASSUME NEW m \in Spears
             PROVE  /\ repeats'[m] + Waits(m, last[m])' <= Retries + 1
                    /\ s_at'[m] # "idle" =>
                         Copies(m, number[m])' + Waits(m, number[m])' <= tries'[m]
  BY DEF CopiesBounded
<1>1. UNCHANGED <<last, repeats, number>>
  BY DEF copyVars
<1>2. Waits(m, last[m])' <= Waits(m, last[m]) /\ Waits(m, number[m])' <= Waits(m, number[m])
  BY <1>1 DEF Waits
<1>3. Copies(m, number[m])' = Copies(m, number[m])
  BY <1>1 DEF Copies
<1>4. Waits(m, last[m])' \in {0, 1} /\ Waits(m, number[m])' \in {0, 1}
  BY DEF Waits
<1> QED
  BY <1>1, <1>2, <1>3, <1>4, Bound, SendingBound

(* A packet is copied no more often than it was sent, whatever is lost and *)
(* whatever waits in the drivers (the retries of sendWithRetry against     *)
(* igh_rfm69_receive_raw_bytes).                                           *)
THEOREM NoEndlessRepeats == Spec => []RepeatsBounded
<1>1. Init => CopiesBounded
  <2> SUFFICES ASSUME Init, NEW n \in Spears
               PROVE  repeats[n] + Waits(n, last[n]) <= Retries + 1 /\ s_at[n] = "idle"
    BY DEF CopiesBounded
  <2>1. repeats[n] = 0 /\ s_at[n] = "idle" /\ h_held = Nothing
    BY DEF Init
  <2>2. Waits(n, last[n]) = 0
    BY <2>1 DEF Waits
  <2> QED
    BY <2>1, <2>2, RadioAssumption
<1>2. LinkInv /\ CopiesBounded /\ [Next]_radioVars => CopiesBounded'
  <2> SUFFICES ASSUME LinkInv, CopiesBounded, [Next]_radioVars PROVE CopiesBounded'
    OBVIOUS
  <2>1. ASSUME NEW n \in Spears, Confirmed(n) \/ Listen(n) \/ Unanswered(n) \/ RestartSpear(n)
        PROVE  CopiesBounded'
    <3>1. UNCHANGED <<copyVars, number, h_held, h_at>>
      BY <2>1, Zenon DEF Confirmed, Listen, Unanswered, RestartSpear, shieldVars, shieldRadio
    <3>2. \A m \in Spears : s_at'[m] # "idle" => s_at[m] # "idle" /\ tries'[m] = tries[m]
      BY <2>1 DEF Confirmed, Listen, Unanswered, RestartSpear, TryAgain, LinkInv, Typed, SpearTyped
    <3> QED
      BY <3>1, <3>2, OtherCopies, Zenon
  <2>2. ASSUME Entered \/ NoPacket \/ Acknowledge \/ SetUpAgain \/ RestartShield \/ Stranger
        PROVE  CopiesBounded'
    <3>1. UNCHANGED <<copyVars, number, s_at, tries>>
      BY <2>2, Zenon DEF Entered, NoPacket, Acknowledge, SetUpAgain, RestartShield, Stranger,
         spearVars
    <3>2. Stranger => h_held' \in {h_held, Nothing} /\ h_at' = h_at
      BY HearingShield DEF Stranger
    <3>3. /\ h_held' \in {h_held, Nothing}
          /\ h_at = "ack" /\ h_at' # "ack" => h_held' = Nothing
      BY <2>2, <3>2 DEF Entered, NoPacket, Acknowledge, ReceiveBegin, SetUpAgain, RestartShield
    <3> QED
      BY <3>1, <3>3, OtherCopies
  <2>3. ASSUME UNCHANGED radioVars PROVE CopiesBounded'
    BY <2>3, OtherCopies DEF radioVars, spearVars, shieldVars, shieldRadio
  <2> QED
    BY <2>1, <2>2, <2>3, ReportCopies, TransmitCopies, CopyCopies, Zenon DEF Next, Spear, MainLoop
<1>3. LinkInv /\ CopiesBounded => RepeatsBounded
  <2> SUFFICES ASSUME LinkInv, CopiesBounded, NEW n \in Spears
               PROVE  repeats[n] <= Retries + 1
    BY DEF RepeatsBounded
  <2>1. repeats[n] \in Nat /\ 0 <= Waits(n, last[n])
    BY CountTypes DEF LinkInv
  <2>2. repeats[n] + 0 <= Retries + 1
    BY <2>1, Bound
  <2> QED
    BY <2>1, <2>2
<1> QED
  BY <1>1, <1>2, <1>3, LinkHolds, PTL DEF Spec
-----------------------------------------------------------------------------
(* Spears beyond a byte, and the deaf Shield.                              *)

(* An acknowledgement goes to the low byte of a Spear that sent a packet.  *)
AckBytes ==
  /\ \A n \in Spears : s_fifo[n].kind = "ack" => \E m \in Spears : LowByte(m) = s_fifo[n].to
  /\ h_at = "ack" => \E m \in Spears : LowByte(m) = sender

LEMMA AckBytesHold == Spec => []AckBytes
<1>1. Init => AckBytes
  BY DEF Init, AckBytes, Nothing
<1>2. LinkInv /\ AckBytes /\ [Next]_radioVars => AckBytes'
  <2> SUFFICES ASSUME LinkInv, AckBytes, [Next]_radioVars PROVE AckBytes'
    OBVIOUS
  <2>1. ASSUME NEW n \in Spears, Transmit(n) PROVE AckBytes'
    <3>1. Data(n) \in DataFrames
      BY <2>1, FrameTypes DEF LinkInv, Transmit, Sending, Typed, SpearTyped
    <3>2. \A k \in Spears : s_fifo'[k] \in {Nothing, s_fifo[k], Data(n)}
      BY <2>1, <3>1, HearingSpears DEF LinkInv, Transmit, Typed, Frames
    <3> QED
      BY <2>1, <3>1, <3>2, FrameTypes DEF Transmit, AckBytes
  <2>2. ASSUME Acknowledge PROVE AckBytes'
    <3>1. Ack(sender) \in AckFrames /\ Ack(sender).to = sender
      BY FrameTypes DEF LinkInv, Typed, ShieldTyped, Ack
    <3>2. \A k \in Spears : s_fifo'[k] \in {Nothing, s_fifo[k], Ack(sender)}
      BY <2>2, <3>1, HearingSpears DEF LinkInv, Acknowledge, Typed, Frames
    <3> QED
      BY <2>2, <3>1, <3>2, FrameTypes DEF Acknowledge, ReceiveBegin, AckBytes
  <2>3. ASSUME CopyPacket PROVE AckBytes'
    <3>1. h_held.from \in Spears
      BY <2>3, FrameTypes DEF CopyPacket, LinkInv, Typed, ShieldTyped
    <3> QED
      BY <2>3, <3>1 DEF CopyPacket, spearVars, AckBytes
  <2>4. ASSUME NEW n \in Spears, Report(n) \/ Confirmed(n) \/ Listen(n) \/ Unanswered(n)
                                  \/ RestartSpear(n)
        PROVE  AckBytes'
    BY <2>4, FrameTypes DEF Report, Confirmed, Listen, Unanswered, RestartSpear, shieldVars,
       AckBytes, LinkInv, Typed, SpearTyped
  <2>5. ASSUME Entered \/ NoPacket \/ SetUpAgain \/ RestartShield \/ Stranger PROVE AckBytes'
    BY <2>5 DEF Entered, NoPacket, ReceiveBegin, SetUpAgain, RestartShield, Stranger, spearVars,
       AckBytes
  <2>6. ASSUME UNCHANGED radioVars PROVE AckBytes'
    BY <2>6 DEF radioVars, spearVars, shieldVars, AckBytes
  <2> QED
    BY <2>1, <2>2, <2>3, <2>4, <2>5, <2>6, Zenon DEF Next, Spear, MainLoop
<1> QED
  BY <1>1, <1>2, LinkHolds, PTL DEF Spec

(* The Shield's driver knows a sender by one byte, so no acknowledgement   *)
(* is ever meant for a Spear whose id does not fit in one: it is told that *)
(* a packet arrived only by one to the broadcast address, which there is   *)
(* only when some Spear's low byte is 0.  Otherwise each of its packets    *)
(* goes out Retries + 1 times, taken by the Shield or not, unless the      *)
(* Spear restarts first (sendACK of RFM69-Particle.cpp against             *)
(* interruptHandler and ACKReceived of rfm69_hal/RFM69.cpp).               *)
THEOREM WideIdsNeedBroadcast ==
  Spec => [][\A n \in Spears : n >= IdBytes =>
               /\ Confirmed(n) => /\ s_fifo[n].to = Broadcast
                                  /\ \E m \in Spears : LowByte(m) = Broadcast
               /\ s_at[n] # "idle" /\ s_at'[n] = "idle" =>
                    tries[n] = Retries + 1 \/ RestartSpear(n) \/ Confirmed(n)]_radioVars
<1>1. ASSUME LinkInv, AckBytes, NEW n \in Spears, n >= IdBytes, Confirmed(n)
      PROVE  s_fifo[n].to = Broadcast /\ \E m \in Spears : LowByte(m) = Broadcast
  <2>1. s_fifo[n].kind = "ack" /\ s_fifo[n].to \in {n, Broadcast} /\ s_fifo[n] \in Frames
    BY <1>1 DEF Confirmed, AckWaits, ForMe, LinkInv, Typed, SpearTyped
  <2>2. s_fifo[n] \in AckFrames
    BY <2>1, FrameTypes DEF Frames
  <2>3. s_fifo[n].to \in 0 .. IdBytes - 1
    BY <2>2 DEF AckFrames
  <2>4. s_fifo[n].to = Broadcast
    BY <1>1, <2>1, <2>3, RadioAssumption
  <2> QED
    BY <1>1, <2>1, <2>4 DEF AckBytes
<1>2. ASSUME LinkInv, [Next]_radioVars, NEW n \in Spears, ~Confirmed(n),
             s_at[n] # "idle", s_at'[n] = "idle"
      PROVE  tries[n] = Retries + 1 \/ RestartSpear(n)
  <2>1. PICK m \in Spears : Report(m) \/ Transmit(m) \/ Confirmed(m) \/ Unanswered(m)
                              \/ RestartSpear(m)
    <3>1. s_at' # s_at
      BY <1>2
    <3> QED
      BY <1>2, <3>1, Zenon DEF Next, Spear, MainLoop, Listen, Entered, CopyPacket, NoPacket,
         Acknowledge, SetUpAgain, RestartShield, Stranger, radioVars, spearVars
  <2>2. m = n
    BY <1>2, <2>1 DEF Report, Transmit, Confirmed, Unanswered, RestartSpear, LinkInv, Typed,
       SpearTyped
  <2>3. ~Report(n) /\ ~Transmit(n)
    BY <1>2 DEF Report, Transmit, LinkInv, Typed, SpearTyped
  <2>4. Unanswered(n) => tries[n] = Retries + 1
    BY <1>2, RadioAssumption DEF Unanswered, TryAgain, LinkInv, Typed, SpearTyped
  <2> QED
    BY <1>2, <2>1, <2>2, <2>3, <2>4, Zenon
<1>3. LinkInv /\ AckBytes /\ [Next]_radioVars =>
        [\A n \in Spears : n >= IdBytes =>
           /\ Confirmed(n) => /\ s_fifo[n].to = Broadcast
                              /\ \E m \in Spears : LowByte(m) = Broadcast
           /\ s_at[n] # "idle" /\ s_at'[n] = "idle" =>
                tries[n] = Retries + 1 \/ RestartSpear(n) \/ Confirmed(n)]_radioVars
  BY <1>1, <1>2, Zenon
<1> QED
  BY <1>3, LinkHolds, AckBytesHold, PTL DEF Spec

(* A frame whose interrupt the driver ignored leaves it with nothing, on   *)
(* its way to RX or there.                                                 *)
StuckInv ==
  stuck => h_held = Nothing /\ (h_at = "entering" \/ (h_at = "poll" /\ h_mode = "RX"))

LEMMA StuckStays == Spec => []StuckInv
<1>1. Init => StuckInv
  BY Zenon DEF Init, StuckInv
<1>2. LinkInv /\ StuckInv /\ [Next]_radioVars => StuckInv'
  <2> SUFFICES ASSUME LinkInv, StuckInv, [Next]_radioVars PROVE StuckInv'
    OBVIOUS
  <2> USE DEF StuckInv
  <2>1. ASSUME NEW f, ShieldHears(f), h_at' = h_at PROVE StuckInv'
    <3>1. CASE h_at = "entering"
      BY <2>1, <3>1, Zenon DEF ShieldHears, ShieldListens, LinkInv, Polling
    <3>2. CASE h_at # "entering"
      BY <2>1, <3>2, Zenon DEF ShieldHears, ShieldListens
    <3> QED
      BY <3>1, <3>2
  <2>2. ASSUME UNCHANGED shieldRadio, h_at' = h_at PROVE StuckInv'
    BY <2>2, Zenon DEF shieldRadio
  <2>3. ASSUME NEW n \in Spears, Spear(n) PROVE StuckInv'
    BY <2>1, <2>2, <2>3, Zenon DEF Spear, Report, Transmit, Confirmed, Listen, Unanswered,
       RestartSpear, shieldVars
  <2>4. CASE Entered \/ CopyPacket
    BY <2>4, Zenon DEF Entered, CopyPacket
  <2>5. CASE NoPacket \/ Acknowledge \/ SetUpAgain \/ RestartShield
    BY <2>5, Zenon DEF NoPacket, Acknowledge, ReceiveBegin, SetUpAgain, RestartShield
  <2>6. CASE Stranger
    BY <2>1, <2>6, Zenon DEF Stranger
  <2>7. CASE UNCHANGED radioVars
    BY <2>2, <2>7, Zenon DEF radioVars, shieldVars
  <2> QED
    BY <2>3, <2>4, <2>5, <2>6, <2>7, Zenon DEF Next, MainLoop
<1> QED
  BY <1>1, <1>2, LinkHolds, PTL DEF Spec

(* The main loop alone never wakes a Shield that has gone deaf inside      *)
(* setMode: while it is, igh_rfm69_receive_raw_bytes finds no packet, and  *)
(* only new settings or a restart make it hear again.                      *)
THEOREM DeafUntilSetUp ==
  Spec => [][stuck => /\ UNCHANGED copyVars
                      /\ ~stuck' => SetUpAgain \/ RestartShield]_radioVars
<1>1. ASSUME StuckInv, [Next]_radioVars, stuck
      PROVE  UNCHANGED copyVars /\ (~stuck' => SetUpAgain \/ RestartShield)
  <2>1. ~CopyPacket /\ ~NoPacket /\ ~Acknowledge
    BY <1>1, Zenon DEF StuckInv, CopyPacket, NoPacket, Acknowledge
  <2>2. ASSUME NEW f PROVE ~ShieldHears(f)
    BY <1>1, Zenon DEF ShieldHears, ShieldListens
  <2> QED
    BY <1>1, <2>1, <2>2, Zenon DEF Next, Spear, MainLoop, Report, Transmit, Confirmed, Listen,
       Unanswered, RestartSpear, Entered, SetUpAgain, RestartShield, Stranger, radioVars,
       shieldVars, shieldRadio, copyVars
<1>2. StuckInv /\ [Next]_radioVars =>
        [stuck => /\ UNCHANGED copyVars
                  /\ ~stuck' => SetUpAgain \/ RestartShield]_radioVars
  BY <1>1, Zenon
<1> QED
  BY <1>2, StuckStays, PTL DEF Spec
=============================================================================
