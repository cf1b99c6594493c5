---------------------------- MODULE Spear_proofs ----------------------------
(***************************************************************************)
(* Proofs about Spear, for all intervals and all sums of the bytes of the  *)
(* other settings: what the settings in use have to do with those in       *)
(* flash, and what a packet is made of.                                    *)
(***************************************************************************)
EXTENDS Spear, TLAPS

(* The settings have their types, and what is being saved is sealed.       *)
SettingsTyped ==
  /\ at \in {"boot", "tick", "settings", "erase", "write"}
  /\ active \in Sealed \cup {Default, Erased}
  /\ candidate \in Sealed \cup {Default}
  /\ flash \in Sealed \cup {Virgin, Erased}
  /\ at \in {"erase", "write"} => candidate \in Sealed

(* Every sensor that is read has been set up: the type of the serial       *)
(* sensor only changes after the node has been told of it.                 *)
SetUpFor(type) ==
  /\ type = CO2 => "co2" \in ready
  /\ type = NPK => "npk" \in ready

SetUp ==
  /\ at # "boot" => {"base", "air"} \subseteq ready
  /\ at # "boot" /\ ~type_updated => SetUpFor(active.type)
  /\ at \in {"erase", "write"} /\ ~type_updated => candidate.type = active.type

(* Nothing is left from one packet to the next.                            *)
PacketTyped ==
  /\ new_data = {}
  /\ ready \subseteq Sensors
  /\ payload_tick \in Nat
  /\ packet \in [sensors : SUBSET Sensors, read : SUBSET Sensors, length : Nat]

PacketSound ==
  /\ packet.sensors = packet.read
  /\ at = "boot" => packet = NoPacket

Flags ==
  /\ type_updated \in BOOLEAN /\ due \in BOOLEAN /\ charged \in BOOLEAN
  /\ reports \in BOOLEAN

-----------------------------------------------------------------------------
(* Settings as they are sealed, and read back.                             *)
LEMMA SealedShape ==
  ASSUME NEW s \in Sealed
  PROVE  /\ s.state \in {SHIPPING, LIVE, Ones} /\ s.type \in Types \cup {Ones}
         /\ s.interval \in {SixteenBits(i) : i \in Intervals} \cup {DefaultInterval, Endless}
         /\ s.rest \in Rests \cup {DefaultRest, Erased.rest}
         /\ s.sum = Checksum(s)
<1>1. PICK f \in Fields : s = WithSum(f, Checksum(f))
  BY DEF Sealed
<1>2. /\ s.state = f.state /\ s.type = f.type /\ s.interval = f.interval /\ s.rest = f.rest
      /\ s.sum = Checksum(f)
  BY <1>1 DEF WithSum
<1>3. Checksum(s) = Checksum(f)
  BY <1>2 DEF Checksum
<1> QED
  BY <1>2, <1>3 DEF Fields

LEMMA DefaultShape ==
  /\ Default.state = SHIPPING /\ Default.type = CO2 /\ Default.interval = DefaultInterval
  /\ Default.rest = DefaultRest
BY DEF Default, WithSum

LEMMA RequestSealed ==
  ASSUME active \in Sealed \cup {Default, Erased}, NEW s \in Requested
  PROVE  WithSum(s, Checksum(s)) \in Sealed /\ WithSum(s, Checksum(s)).type = s.type
<1>1. s \in Fields
  BY SealedShape, DefaultShape DEF Requested, Fields, Types, Erased
<1> QED
  BY <1>1 DEF Sealed, WithSum

(* The bytes of an erased row do not have the sum of its checksum.         *)
LEMMA ErasedUnsealed == Checksum(Erased) # Erased.sum
<1>1. IntervalSum(Endless) = 4 * Ones
  BY DEF IntervalSum
<1> QED
  BY <1>1 DEF Checksum, Erased, Ones

(* A restart finds settings that have been written, unless their checksum  *)
(* is zero.                                                                *)
LEMMA LoadedTyped ==
  ASSUME flash \in Sealed \cup {Virgin, Erased}
  PROVE  Loaded \in Sealed \cup {Default}
BY ErasedUnsealed DEF Loaded, Readable, Virgin

LEMMA SealedReadable ==
  ASSUME NEW s \in Sealed, Checksum(s) # 0 PROVE Readable(s)
BY SealedShape DEF Readable

-----------------------------------------------------------------------------
LEMMA SettingsHold == Spec => [](SettingsTyped /\ RunsOnFlash)
<1>1. Init => SettingsTyped /\ RunsOnFlash
  BY DEF Init, SettingsTyped, RunsOnFlash
<1>2. SettingsTyped /\ RunsOnFlash /\ [Next]_spearVars => (SettingsTyped /\ RunsOnFlash)'
  <2> SUFFICES ASSUME SettingsTyped, RunsOnFlash, [Next]_spearVars
               PROVE  (SettingsTyped /\ RunsOnFlash)'
    OBVIOUS
  <2> USE DEF SettingsTyped, RunsOnFlash
  <2>1. CASE Boot
    <3>1. Loaded' = Loaded
      BY <2>1 DEF Boot, Loaded
    <3> QED
      BY <2>1, <3>1, LoadedTyped DEF Boot
  <2>2. CASE Resting \/ Counting \/ NoMessage \/ DropMessage
    <3>1. at' \in {"tick", "settings"} /\ at \in {"tick", "settings"}
      BY <2>2 DEF Resting, Counting, NoMessage, DropMessage
    <3>2. UNCHANGED <<active, candidate, flash>>
      BY <2>2, Zenon DEF Resting, Counting, NoMessage, DropMessage, settings
    <3> QED
      BY <3>1, <3>2 DEF Loaded
  <2>3. CASE TakeMessage
    BY <2>3, RequestSealed DEF TakeMessage
  <2>4. CASE Erase
    BY <2>4 DEF Erase
  <2>5. CASE Write
    <3>1. CASE flash' = Erased
      <4>1. active' \in {active, Erased}
        BY <2>5, <3>1, Zenon DEF Write, ReadBack
      <4> QED
        BY <2>5, <3>1, <4>1 DEF Write
    <3>2. CASE flash' = candidate
      <4>1. active' = candidate /\ candidate \in Sealed
        BY <2>5, <3>2 DEF Write, ReadBack
      <4>2. Checksum(candidate) # 0 => Loaded' = candidate
        BY <3>2, <4>1, SealedReadable DEF Loaded
      <4>3. Checksum(active)' = Checksum(candidate)
        BY <4>1
      <4> QED
        BY <2>5, <3>2, <4>1, <4>2, <4>3 DEF Write
    <3> QED
      BY <2>5, <3>1, <3>2 DEF Write
  <2>6. CASE SecondPasses \/ BatteryChanges \/ UNCHANGED spearVars
    <3>1. UNCHANGED <<active, candidate, flash, at>>
      BY <2>6, Zenon DEF SecondPasses, BatteryChanges, spearVars, settings
    <3> QED
      BY <3>1 DEF Loaded
  <2>7. CASE PowerFails
    BY <2>7 DEF PowerFails
  <2> QED
    BY <2>1, <2>2, <2>3, <2>4, <2>5, <2>6, <2>7, Zenon DEF Next, Loop
<1> QED
  BY <1>1, <1>2, PTL DEF Spec

(* The node runs on what a restart would find, through messages, dropped   *)
(* messages and power failures between erasing and writing; or the last    *)
(* write did not take and the row is still erased; or its settings are     *)
(* some whose bytes sum to zero (igh_spear_settings_init,                  *)
(* igh_spear_settings_save).                                               *)
THEOREM NodeRunsOnFlash == Spec => []RunsOnFlash
BY SettingsHold, PTL
-----------------------------------------------------------------------------
(* What is read has been set up, and never for both serial sensors.        *)
LEMMA ReadIsSetUp ==
  ASSUME SetUp, at # "boot", NEW read \in Read
  PROVE  read \subseteq ready /\ read \subseteq Sensors /\ ~({"co2", "npk"} \subseteq read)
<1>1. PICK air \in {{}, {"air"}} : read = {"base"} \cup air \cup SerialRead
  BY DEF Read
<1>2. SerialRead \subseteq {"co2", "npk"}
  BY DEF SerialRead
<1>3. "co2" \in SerialRead => Selected(CO2)
  BY DEF SerialRead
<1>4. "npk" \in SerialRead => Selected(NPK)
  BY DEF SerialRead
<1>5. Selected(CO2) => active.type = CO2 /\ "co2" \in ready
  BY Zenon DEF Selected, SetUp, SetUpFor
<1>6. Selected(NPK) => active.type = NPK /\ "npk" \in ready
  BY Zenon DEF Selected, SetUp, SetUpFor
<1>7. {"base", "air"} \subseteq ready
  BY Zenon DEF SetUp
<1>8. SerialRead \subseteq ready
  BY <1>2, <1>3, <1>4, <1>5, <1>6, Zenon
<1>9. ~("co2" \in SerialRead /\ "npk" \in SerialRead)
  BY <1>3, <1>4, <1>5, <1>6 DEF CO2, NPK
<1>10. read \subseteq ready /\ read \subseteq Sensors
  BY <1>1, <1>2, <1>7, <1>8 DEF Sensors
<1>11. "co2" \in read => "co2" \in SerialRead
  BY <1>1
<1>12. "npk" \in read => "npk" \in SerialRead
  BY <1>1
<1> QED
  BY <1>9, <1>10, <1>11, <1>12

(* Without both serial sensors a packet is short enough for the radio.     *)
LEMMA LengthBounded ==
  ASSUME NEW sensors \in SUBSET Sensors
  PROVE  /\ Length(sensors) \in Nat
         /\ ~({"co2", "npk"} \subseteq sensors) => Length(sensors) <= 61
<1>1. /\ Share("base", sensors) \in {0, 20} /\ Share("air", sensors) \in {0, 8}
      /\ Share("co2", sensors) = (IF "co2" \in sensors THEN 6 ELSE 0)
      /\ Share("npk", sensors) = (IF "npk" \in sensors THEN 12 ELSE 0)
  BY DEF Share, Bytes
<1> QED
  BY <1>1 DEF Length

PacketInv ==
  /\ PacketTyped
  /\ PacketSound
  /\ OnlySetUp
  /\ packet.length <= 61

LEMMA PacketStep ==
  ASSUME SettingsTyped, SetUp, PacketInv, [Next]_spearVars PROVE PacketInv'
<1> USE DEF PacketInv, PacketTyped, PacketSound, OnlySetUp
<1>1. CASE Counting /\ SendReadings
  <2>1. at = "tick" /\ at' = "settings" /\ payload_tick' \in Nat
    BY <1>1 DEF Counting, Seconds
  <2>2. PICK read \in Read :
          /\ packet' = [sensors |-> new_data \cup read, read |-> read,
                        length |-> Length(new_data \cup read)]
          /\ new_data' = NewDataAfter(new_data \cup read)
    BY <1>1 DEF SendReadings
  <2>3. new_data \cup read = read /\ new_data' = {} /\ ready' = ready
    BY <1>1, <2>2 DEF NewDataAfter, SendReadings
  <2>4. read \subseteq ready /\ read \in SUBSET Sensors /\ Length(read) \in Nat /\ Length(read) <= 61
    BY <2>1, ReadIsSetUp, LengthBounded
  <2> QED
    BY <2>1, <2>2, <2>3, <2>4
<1>2. CASE UNCHANGED readings /\ payload_tick' \in Nat /\ at' # "boot"
  BY <1>2 DEF readings
<1>3. CASE Boot
  BY <1>3 DEF Boot, Sensors, NoPacket
<1>4. CASE PowerFails
  BY <1>4 DEF PowerFails, NoPacket
<1>5. ASSUME Counting PROVE SendReadings \/ (UNCHANGED readings /\ payload_tick' \in Nat /\ at' # "boot")
  BY <1>5 DEF Counting, Seconds
<1>6. ASSUME Resting \/ NoMessage \/ DropMessage \/ TakeMessage \/ Erase \/ Write
      PROVE  UNCHANGED readings /\ payload_tick' \in Nat /\ at' # "boot"
  BY <1>6 DEF Resting, NoMessage, DropMessage, TakeMessage, Erase, Write
<1>7. ASSUME SecondPasses \/ BatteryChanges \/ UNCHANGED spearVars
      PROVE  UNCHANGED readings /\ payload_tick' = payload_tick /\ at' = at
  BY <1>7, Zenon DEF SecondPasses, BatteryChanges, spearVars
<1>8. CASE SecondPasses \/ BatteryChanges \/ UNCHANGED spearVars
  BY <1>7, <1>8 DEF readings
<1> QED
  BY <1>1, <1>2, <1>3, <1>4, <1>5, <1>6, <1>8, Zenon DEF Next, Loop
-----------------------------------------------------------------------------
(* No step but a message about it changes the type in use, and nobody is   *)
(* told less than before until the node restarts.                          *)
LEMMA SetUpStep ==
  ASSUME SettingsTyped, SetUp, [Next]_spearVars PROVE SetUp'
<1>1. CASE Boot
  <2>1. ready' = {"base", "air"} \cup (IF Loaded.type = CO2 THEN {"co2"} ELSE {})
                               \cup (IF Loaded.type = NPK THEN {"npk"} ELSE {})
        /\ active' = Loaded /\ at' = "tick"
    BY <1>1 DEF Boot
  <2>2. {"base", "air"} \subseteq ready' /\ SetUpFor(active.type)'
    BY <2>1 DEF SetUpFor
  <2> QED
    BY <2>1, <2>2 DEF SetUp
<1>2. CASE Resting \/ Counting \/ NoMessage \/ DropMessage
  <2>1. at # "boot" /\ at' \notin {"erase", "write"}
    BY <1>2 DEF Resting, Counting, NoMessage, DropMessage
  <2>2. UNCHANGED <<active, ready>>
    BY <1>2, Zenon DEF Resting, Counting, SendReadings, NoMessage, DropMessage, settings, readings
  <2>3. ~type_updated' => ~type_updated
    BY <1>2, Zenon DEF Resting, Counting, NoMessage, DropMessage, TypeTold, settings
  <2>4. SetUpFor(active.type)' = SetUpFor(active.type)
    BY <2>2, Zenon DEF SetUpFor
  <2> QED
    BY <2>1, <2>2, <2>3, <2>4, Zenon DEF SetUp
<1>3. CASE TakeMessage
  <2>1. PICK s \in Requested : TypeTold(s) /\ candidate' = WithSum(s, Checksum(s))
    BY <1>3, Zenon DEF TakeMessage
  <2>2. candidate'.type = s.type
    BY <2>1, RequestSealed DEF SettingsTyped
  <2>3. ~type_updated' => ~type_updated /\ s.type = active.type
    BY <2>1, Zenon DEF TypeTold
  <2>4. at = "settings" /\ UNCHANGED <<active, ready>>
    BY <1>3, Zenon DEF TakeMessage, readings
  <2>5. at # "boot"
    BY <2>4
  <2>6. SetUpFor(active.type)' = SetUpFor(active.type)
    BY <2>4, Zenon DEF SetUpFor
  <2> QED
    BY <2>2, <2>3, <2>4, <2>5, <2>6, Zenon DEF SetUp
<1>4. CASE Erase \/ Write
  <2>1. at \in {"erase", "write"} /\ at # "boot"
    BY <1>4 DEF Erase, Write
  <2>2. UNCHANGED <<ready, type_updated>> /\ (Erase => candidate' = candidate)
    BY <1>4, Zenon DEF Erase, Write, readings
  <2>3. active' = active \/ active' = candidate \/ active' = Erased
    <3>1. Write => flash' = candidate \/ flash' = Erased
      BY DEF Write
    <3>2. Write => active' = flash' \/ active' = active
      BY Zenon DEF Write, ReadBack
    <3> QED
      BY <1>4, <3>1, <3>2, Zenon DEF Erase
  <2>4. Write => at' = "tick"
    BY DEF Write
  <2>5. Erase => active' = active
    BY DEF Erase
  <2>6. \A type : SetUpFor(type)' = SetUpFor(type)
    BY <2>2, Zenon DEF SetUpFor
  <2>7. SetUpFor(active.type)' = SetUpFor(active'.type)
    BY <2>2, Zenon DEF SetUpFor
  <2>8. ~type_updated => SetUpFor(active'.type)
    <3>1. SetUpFor(Erased.type)
      BY DEF SetUpFor, Erased, Ones, CO2, NPK
    <3>2. ~type_updated => SetUpFor(active.type) /\ candidate.type = active.type
      BY <2>1, Zenon DEF SetUp
    <3> QED
      BY <2>3, <3>1, <3>2, Zenon
  <2>9. at' \in {"erase", "write"} => Erase
    BY <1>4, <2>4
  <2> QED
    BY <2>1, <2>2, <2>5, <2>7, <2>8, <2>9, Zenon DEF SetUp, SetUpFor
<1>5. CASE SecondPasses \/ BatteryChanges \/ UNCHANGED spearVars
  BY <1>5, Zenon DEF SecondPasses, BatteryChanges, spearVars, settings, readings, SetUp, SetUpFor
<1>6. CASE PowerFails
  BY <1>6 DEF PowerFails, SetUp
<1> QED
  BY <1>1, <1>2, <1>3, <1>4, <1>5, <1>6, Zenon DEF Next, Loop

LEMMA PacketsHold == Spec => [](PacketInv /\ SetUp)
<1>1. Init => PacketInv
  BY DEF Init, PacketInv, PacketTyped, PacketSound, OnlySetUp, NoPacket
<1>2. Init => SetUp
  BY DEF Init, SetUp
<1> QED
  BY <1>1, <1>2, PacketStep, SetUpStep, SettingsHold, PTL DEF Spec

(* "don't send old data": each packet holds what was read for it and       *)
(* nothing of the packets before, for any order of failing sensors         *)
(* (igh_spear_payload_build_pkt).                                          *)
THEOREM PacketsAreFresh == Spec => []PacketIsFresh
BY PacketsHold, PTL DEF PacketInv, PacketSound, PacketIsFresh

(* No tuple without an id: the serial sensor is only read if it was set up *)
(* since the restart (type_updated against igh_spear_npk_setup and         *)
(* igh_spear_mhz19_setup).                                                 *)
THEOREM ReadsOnlySetUp == Spec => []OnlySetUp
BY PacketsHold, PTL DEF PacketInv

(* The radio never cuts a packet: the readings of both serial sensors are  *)
(* never in one (igh_spear_payload_collect_sensor_data).                   *)
THEOREM PacketsAreCarried == Spec => []PacketCarried
BY PacketsHold, PTL DEF PacketInv, PacketCarried

(* All variables keep their types, the flash among them: it holds sealed   *)
(* settings, what it held when it was new, or an erased row.               *)
THEOREM SpearTypeCorrect == Spec => []TypeOK
<1>1. Init => Flags
  BY Zenon DEF Init, Flags
<1>2. Flags /\ [Next]_spearVars => Flags'
  <2> SUFFICES ASSUME Flags, [Next]_spearVars PROVE Flags'
    OBVIOUS
  <2>1. type_updated' = TRUE \/ type_updated' = FALSE \/ type_updated' = type_updated
    BY Zenon DEF Next, Loop, Boot, Resting, Counting, NoMessage, DropMessage, TakeMessage, TypeTold,
       Erase, Write, SecondPasses, BatteryChanges, PowerFails, spearVars, settings
  <2>2. due' = TRUE \/ due' = FALSE \/ due' = due
    BY Zenon DEF Next, Loop, Boot, Resting, Counting, NoMessage, DropMessage, TakeMessage,
       Erase, Write, SecondPasses, BatteryChanges, PowerFails, spearVars
  <2>3. charged' = ~charged \/ charged' = charged
    BY Zenon DEF Next, Loop, Boot, Resting, Counting, NoMessage, DropMessage, TakeMessage,
       Erase, Write, SecondPasses, BatteryChanges, PowerFails, spearVars
  <2>4. reports' = ~reports \/ reports' = reports
    BY Zenon DEF Next, Loop, Boot, Resting, Counting, SendReadings, NoMessage, DropMessage,
       TakeMessage, Erase, Write, SecondPasses, BatteryChanges, PowerFails, spearVars, readings
  <2> QED
    BY <2>1, <2>2, <2>3, <2>4, Zenon DEF Flags
<1>3. SettingsTyped /\ PacketInv /\ Flags => TypeOK
  <2>1. {} \subseteq Sensors
    OBVIOUS
  <2> QED
    BY <2>1, Zenon DEF SettingsTyped, PacketInv, PacketTyped, Flags, TypeOK
<1> QED
  BY <1>1, <1>2, <1>3, SettingsHold, PacketsHold, PTL DEF Spec
-----------------------------------------------------------------------------
(* What a packet can be too long of, and how long a node can count.        *)
PacketShape ==
  \/ packet = NoPacket
  \/ /\ packet.sensors \subseteq Sensors /\ "base" \in packet.sensors
     /\ ~({"co2", "npk"} \subseteq packet.sensors)
     /\ packet.length = Length(packet.sensors)

LEMMA ShapeHolds == Spec => []PacketShape
<1>1. Init => PacketShape
  BY Zenon DEF Init, PacketShape
<1>2. SetUp /\ PacketInv /\ PacketShape /\ [Next]_spearVars => PacketShape'
  <2> SUFFICES ASSUME SetUp, PacketInv, PacketShape, [Next]_spearVars PROVE PacketShape'
    OBVIOUS
  <2>1. CASE UNCHANGED packet
    BY <2>1, Zenon DEF PacketShape
  <2>2. CASE packet' = NoPacket
    BY <2>2, Zenon DEF PacketShape
  <2>3. CASE Counting /\ SendReadings
    <3>1. PICK read \in Read :
            packet' = [sensors |-> new_data \cup read, read |-> read,
                       length |-> Length(new_data \cup read)]
      BY <2>3 DEF SendReadings
    <3>2. new_data \cup read = read
      BY DEF PacketInv, PacketTyped
    <3>3. packet'.sensors = read /\ packet'.length = Length(read)
      BY <3>1, <3>2
    <3>4. read \subseteq Sensors /\ ~({"co2", "npk"} \subseteq read)
      BY <2>3, ReadIsSetUp DEF Counting
    <3>5. "base" \in read
      BY DEF Read
    <3> QED
      BY <3>3, <3>4, <3>5 DEF PacketShape
  <2>4. packet' = packet \/ packet' = NoPacket \/ (Counting /\ SendReadings)
    BY Zenon DEF Next, Loop, Boot, Resting, Counting, NoMessage, DropMessage, TakeMessage, Erase,
       Write, SecondPasses, BatteryChanges, PowerFails, spearVars, readings
  <2> QED
    BY <2>1, <2>2, <2>3, <2>4
<1> QED
  BY <1>1, <1>2, PacketsHold, PTL DEF Spec

(* Which packets are longer than payload_scratchpad: those of a node with  *)
(* the NPK sensor whose reading of the air succeeds, all of them and no    *)
(* other; a node with the CO2 sensor never overruns it                     *)
(* (igh_spear_payload_build_pkt against MAX_PAYLOAD_LENGTH).               *)
THEOREM OverrunsAreNpkWithAir ==
  Spec => [](~PacketFits <=> packet.sensors = {"base", "air", "npk"})
<1>1. PacketShape => (~PacketFits <=> packet.sensors = {"base", "air", "npk"})
  <2>1. CASE packet = NoPacket
    BY <2>1 DEF NoPacket, PacketFits
  <2>2. CASE packet # NoPacket /\ PacketShape
    <3> DEFINE sensors == packet.sensors
    <3>1. /\ sensors \subseteq Sensors /\ "base" \in sensors
          /\ ~("co2" \in sensors /\ "npk" \in sensors)
          /\ packet.length = Length(sensors)
      BY <2>2 DEF PacketShape
    <3>2. /\ Share("base", sensors) = 20
          /\ Share("air", sensors) = (IF "air" \in sensors THEN 8 ELSE 0)
          /\ Share("co2", sensors) = (IF "co2" \in sensors THEN 6 ELSE 0)
          /\ Share("npk", sensors) = (IF "npk" \in sensors THEN 12 ELSE 0)
      BY <3>1 DEF Share, Bytes
    <3>3. ~PacketFits <=> "air" \in sensors /\ "npk" \in sensors
      BY <3>1, <3>2 DEF Length, PacketFits
    <3>4. sensors = {"base", "air", "npk"} <=> "air" \in sensors /\ "npk" \in sensors
      BY <3>1 DEF Sensors
    <3> QED
      BY <3>3, <3>4
  <2> QED
    BY <2>1, <2>2
<1> QED
  BY <1>1, ShapeHolds, PTL

LEMMA IntervalBounded ==
  ASSUME NEW s \in Sealed \cup {Default, Erased}
  PROVE  s.interval = Endless \/ (s.interval \in Nat /\ s.interval < 65536)
<1>1. ASSUME NEW i \in Intervals PROVE SixteenBits(i) \in Nat /\ SixteenBits(i) < 65536
  <2>1. i \in Nat
    BY Zenon, SpearAssumption DEF SpearAssumption
  <2> QED
    BY <2>1 DEF SixteenBits
<1>2. DefaultInterval \in Nat /\ DefaultInterval < 65536
  BY DEF DefaultInterval
<1>3. CASE s \in Sealed
  BY <1>1, <1>2, <1>3, SealedShape
<1>4. CASE s = Default
  BY <1>2, <1>4, DefaultShape
<1>5. CASE s = Erased
  BY <1>5 DEF Erased
<1> QED
  BY <1>3, <1>4, <1>5

(* A node never counts for longer than 16 bits of seconds, whatever        *)
(* SEND_INTERVAL a message asks for and whenever it comes, unless it has   *)
(* taken an erased row for its settings: a long interval that is replaced  *)
(* by a short one while the node counts ends the wait with the next        *)
(* second (igh_spear_payload_tick).                                        *)
THEOREM CountNeverOverflows ==
  Spec => [][active.interval # Endless /\ payload_tick' # payload_tick =>
               payload_tick' < 65535]_spearVars
<1> DEFINE Counts == active.interval # Endless /\ payload_tick' # payload_tick =>
                       payload_tick' < 65535
<1>1. ASSUME SettingsTyped, PacketInv, [Next]_spearVars PROVE Counts
  <2> SUFFICES ASSUME active.interval # Endless, payload_tick' # payload_tick
               PROVE  payload_tick' < 65535
    OBVIOUS
  <2>1. CASE Counting
    <3>1. active.interval \in Nat /\ active.interval < 65536
      BY <1>1, IntervalBounded DEF SettingsTyped
    <3>2. Seconds \in Nat
      BY <1>1 DEF Seconds, PacketInv, PacketTyped
    <3> QED
      BY <2>1, <3>1, <3>2 DEF Counting
  <2>2. CASE payload_tick' = 0
    BY <2>2
  <2>3. Counting \/ payload_tick' = payload_tick \/ payload_tick' = 0
    BY <1>1, Zenon DEF Next, Loop, Boot, Resting, NoMessage, DropMessage, TakeMessage, Erase,
       Write, SecondPasses, BatteryChanges, PowerFails, spearVars
  <2> QED
    BY <1>1, <2>1, <2>2, <2>3
<1>2. SettingsTyped /\ PacketInv /\ [Next]_spearVars => [Counts]_spearVars
  <2> HIDE DEF Counts
  <2> QED
    BY <1>1, Zenon
<1> QED
  BY <1>2, SettingsHold, PacketsHold, PTL DEF Spec

(* The flash changes in one way only: erased before a write and then,      *)
(* unless the power or the write fails, holding sealed settings.  The node *)
(* goes on with other settings only once it has read them back from there, *)
(* or after a restart; what has been written is what it goes on with; and  *)
(* a write that did not take changes nothing, unless the checksum of the   *)
(* new settings was that of an erased row (igh_spear_settings_save,        *)
(* igh_spear_payload_get_new_settings, igh_spear_settings_init).           *)
FlashThenUse ==
  /\ flash' # flash => flash' = Erased \/ (flash = Erased /\ flash' \in Sealed)
  /\ flash' # flash /\ flash' # Erased => active' = flash'
  /\ active' # active => active' = flash' \/ active' = Default
  /\ active' # active /\ active' = Erased => candidate.sum = Erased.sum

THEOREM FlashBeforeUse == Spec => [][FlashThenUse]_spearVars
<1>1. Init => (at = "write" => flash = Erased)
  BY DEF Init
<1>2. (at = "write" => flash = Erased) /\ [Next]_spearVars => (at = "write" => flash = Erased)'
  BY DEF Next, Loop, Boot, Resting, Counting, NoMessage, DropMessage, TakeMessage, Erase, Write,
     SecondPasses, BatteryChanges, PowerFails, spearVars, settings
<1>3. ASSUME SettingsTyped, at = "write" => flash = Erased, [Next]_spearVars
      PROVE  FlashThenUse
  <2>1. CASE Write
    <3>1. CASE flash' = Erased
      <4>1. active' = IF Erased.sum = candidate.sum THEN Erased ELSE active
        BY <2>1, <3>1, Zenon DEF Write, ReadBack
      <4>2. flash = Erased
        BY <1>3, <2>1 DEF Write
      <4> QED
        BY <3>1, <4>1, <4>2, Zenon DEF FlashThenUse
    <3>2. CASE flash' = candidate
      <4>1. active' = candidate /\ flash = Erased /\ candidate \in Sealed
        BY <1>3, <2>1, <3>2 DEF Write, ReadBack, SettingsTyped
      <4>2. candidate # Erased
        BY <4>1, SealedShape, ErasedUnsealed
      <4> QED
        BY <3>2, <4>1, <4>2, Zenon DEF FlashThenUse
    <3> QED
      BY <2>1, <3>1, <3>2 DEF Write
  <2>2. CASE Boot
    <3>1. flash' = flash /\ (active' = flash' \/ active' = Default)
      BY <2>2, Zenon DEF Boot, Loaded
    <3>2. active' # Erased
      BY <1>3, <2>2, LoadedTyped, SealedShape, ErasedUnsealed, DefaultShape
         DEF Boot, SettingsTyped, DefaultInterval, Erased, Endless
    <3> QED
      BY <3>1, <3>2, Zenon DEF FlashThenUse
  <2>3. CASE Erase
    BY <2>3, Zenon DEF Erase, FlashThenUse
  <2>4. CASE PowerFails
    <3>1. Default # Erased
      BY DefaultShape DEF DefaultInterval, Erased, Endless
    <3> QED
      BY <2>4, <3>1, Zenon DEF PowerFails, FlashThenUse
  <2>5. CASE UNCHANGED <<active, flash>>
    BY <2>5, Zenon DEF FlashThenUse
  <2>6. Write \/ Boot \/ Erase \/ PowerFails \/ UNCHANGED <<active, flash>>
    BY <1>3, Zenon DEF Next, Loop, Resting, Counting, NoMessage, DropMessage, TakeMessage,
       SecondPasses, BatteryChanges, spearVars, settings
  <2> QED
    BY <2>1, <2>2, <2>3, <2>4, <2>5, <2>6
<1>4. SettingsTyped /\ (at = "write" => flash = Erased) /\ [Next]_spearVars =>
        [FlashThenUse]_spearVars
  BY <1>3, Zenon
<1> QED
  BY <1>1, <1>2, <1>4, SettingsHold, PTL DEF Spec
=============================================================================
