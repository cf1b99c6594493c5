------------------------------- MODULE Spear -------------------------------
(***************************************************************************)
(* The sensor node: its loop (igh_spear.ino), the packet it builds from    *)
(* the readings of its sensors (igh_spear_payload.cpp) and its settings    *)
(* with their copy in flash (igh_spear_settings.cpp, flash/FlashStorage).  *)
(* One pass of the loop looks after the readings and then after a message  *)
(* with new settings from the serial port; power may fail anywhere.  What  *)
(* becomes of a packet on the air is the business of RadioLink.            *)
(***************************************************************************)
EXTENDS Integers

CONSTANTS
  Intervals,  (* the values messages give SEND_INTERVAL, four bytes *)
  Rests,      (* the sums the bytes of the other settings may have *)
  DefaultRest,(* their sum in the default settings *)
  TickBound   (* bound on the seconds counted toward an endless interval *)

SHIPPING == 0
LIVE == 66
NPK == 1
CO2 == 2
NoSerialSensor == 0  (* any other byte *)
DefaultInterval == 5

VARIABLES
  active,        (* active_system_setting *)
  candidate,     (* new_system_settings, while they are being saved *)
  flash,         (* settings_store *)
  type_updated,  (* spear_serial_sensor_type_updated *)
  new_data,      (* the sensors whose slot of payload_data_store is new_data *)
  ready,         (* the sensors whose slot has an id and a byte count *)
  payload_tick,
  due,           (* a second has passed since payload_millis_counter *)
  charged,       (* the battery is above battery_low_threshold *)
  at,            (* where the program is *)
  packet,        (* the last packet: its sensors, those read for it, its length *)
  reports        (* history: flips with each packet *)

settings  == <<active, candidate, flash, type_updated>>
readings  == <<new_data, ready, packet, reports>>
spearVars == <<settings, readings, payload_tick, due, charged, at>>

(* Sensors that are read together; the serial port serves one of the last  *)
(* two.                                                                    *)
Sensors == {"base", "air", "co2", "npk"}

-----------------------------------------------------------------------------
(* Settings: the three fields the loop depends on, the byte sum of all     *)
(* others and the checksum byte.                                           *)

(* SEND_INTERVAL passes through a variable of 16 bits.                     *)
SixteenBits(interval) == interval % 65536

ASSUME SpearAssumption ==
  /\ Intervals \subseteq Nat
  /\ Rests \subseteq Nat
  /\ DefaultRest \in Nat
  /\ TickBound \in Nat /\ TickBound >= DefaultInterval
  /\ \A i \in Intervals : TickBound >= SixteenBits(i)

Types == {NPK, CO2, NoSerialSensor}

(* A byte of ones, and four of them: an interval that does not end.        *)
Ones == 255
Endless == 2147483647

(* An erased row is all ones, 27 bytes and the checksum.                   *)
Erased == [state |-> Ones, type |-> Ones, interval |-> Endless, rest |-> 21 * Ones, sum |-> Ones]

Fields == [state : {SHIPPING, LIVE, Ones}, type : Types \cup {Ones},
           interval : {SixteenBits(i) : i \in Intervals} \cup {DefaultInterval, Endless},
           rest : Rests \cup {DefaultRest, Erased.rest}]

IntervalSum(interval) ==
  IF interval = Endless THEN 4 * Ones ELSE (interval % 256) + (interval \div 256)

(* igh_spear_settings_calculate_checksum                                   *)
Checksum(s) == (s.state + s.type + IntervalSum(s.interval) + s.rest) % 256

WithSum(s, sum) ==
  [state |-> s.state, type |-> s.type, interval |-> s.interval, rest |-> s.rest, sum |-> sum]

Sealed == {WithSum(s, Checksum(s)) : s \in Fields}

(* igh_spear_settings_get_defaults leaves the checksum zero.               *)
Default == WithSum([state |-> SHIPPING, type |-> CO2, interval |-> DefaultInterval,
                    rest |-> DefaultRest], 0)

(* The flash of a new program is zero.                                     *)
Virgin == [state |-> 0, type |-> 0, interval |-> 0, rest |-> 0, sum |-> 0]

Readable(s) == s.sum # 0 /\ s.sum = Checksum(s)

(* igh_spear_settings_init (mutant for TypeOK: what is stored is not       *)
(* looked at).                                                             *)
LoadedUnchecked == flash

Loaded == IF Readable(flash) THEN flash ELSE Default

-----------------------------------------------------------------------------
NoPacket == [sensors |-> {}, read |-> {}, length |-> 0]

Init ==
  /\ active = Default /\ candidate = Default
  /\ flash = Virgin
  /\ type_updated = FALSE
  /\ new_data = {} /\ ready = {}
  /\ payload_tick = 0 /\ due = FALSE /\ charged \in BOOLEAN
  /\ at = "boot"
  /\ packet = NoPacket /\ reports = FALSE

(* Is the serial port's sensor read at all?  After a message about its     *)
(* type no longer, until the next restart has set it up.                   *)
Selected(type) == active.type = type /\ ~type_updated

(* setup: the slot of a sensor gets its id and its byte count.  The one of *)
(* the serial port is set up for its type only.                            *)
Boot ==
  /\ at = "boot"
  /\ active' = Loaded
  /\ ready' = {"base", "air"} \cup (IF Loaded.type = CO2 THEN {"co2"} ELSE {})
                              \cup (IF Loaded.type = NPK THEN {"npk"} ELSE {})
  /\ new_data' = {}
  /\ at' = "tick"
  /\ UNCHANGED <<candidate, flash, type_updated, packet, reports, payload_tick, due, charged>>

(* The services of the sensors; only the one of the air can fail.  (Mutant *)
(* for PacketCarried: both serial sensors are read.)                       *)
SerialReadBoth == {"co2", "npk"}

SerialRead ==
  (IF Selected(CO2) THEN {"co2"} ELSE {}) \cup (IF Selected(NPK) THEN {"npk"} ELSE {})

Read == {{"base"} \cup air \cup SerialRead : air \in {{}, {"air"}}}

(* Bytes of a sensor's tuples; those of the packet before them are the     *)
(* header, the serial number and the version.                              *)
Bytes == [base |-> 5 * 4, air |-> 2 * 4, co2 |-> 6, npk |-> 3 * 4]

Share(sensor, sensors) == IF sensor \in sensors THEN Bytes[sensor] ELSE 0

Length(sensors) ==
  2 + 14 + 5 + Share("base", sensors) + Share("air", sensors)
             + Share("co2", sensors) + Share("npk", sensors)

(* What is left of new_data after the packet (mutant for PacketIsFresh:    *)
(* all of it).                                                             *)
NewDataKept(sensors) == sensors

NewDataAfter(sensors) == {}

(* igh_spear_payload_collect_sensor_data, igh_spear_payload_build_pkt: a   *)
(* packet with all that is new, sent or not.                               *)
SendReadings ==
  /\ \E read \in Read :
       /\ packet' = [sensors |-> new_data \cup read, read |-> read,
                     length |-> Length(new_data \cup read)]
       /\ new_data' = NewDataAfter(new_data \cup read)
  /\ reports' = ~reports
  /\ UNCHANGED ready

(* Seconds counted since the last packet (mutant for LiveNodeReports: each *)
(* pass starts to count anew).                                             *)
SecondsForgotten == IF due THEN 1 ELSE 0

Seconds == IF due THEN payload_tick + 1 ELSE payload_tick

(* igh_spear_payload_tick, its first half: nothing unless the node is live *)
(* and charged.                                                            *)
Resting ==
  /\ at = "tick"
  /\ ~(active.state = LIVE /\ charged)
  /\ at' = "settings"
  /\ UNCHANGED <<settings, readings, payload_tick, due, charged>>

Counting ==
  /\ at = "tick"
  /\ active.state = LIVE /\ charged
  /\ due' = FALSE
  /\ \/ /\ Seconds >= active.interval
        /\ payload_tick' = 0
        /\ SendReadings
     \/ /\ Seconds < active.interval
        /\ payload_tick' = Seconds
        /\ UNCHANGED readings
  /\ at' = "settings"
  /\ UNCHANGED <<settings, charged>>

-----------------------------------------------------------------------------
(* igh_spear_payload_get_new_settings                                      *)

NoMessage ==
  /\ at = "settings"
  /\ at' = "tick"
  /\ UNCHANGED <<settings, readings, payload_tick, due, charged>>

(* igh_spear_payload_parse_new_settings for each tuple: the fields of a    *)
(* message, and is its type of the serial sensor among them?  (Mutant for  *)
(* OnlySetUp: nobody is told of the type.)                                 *)
Requested ==
  [state : {active.state, SHIPPING, LIVE}, type : {active.type} \cup Types,
   interval : {active.interval} \cup {SixteenBits(i) : i \in Intervals},
   rest : {active.rest} \cup Rests]

TypeUntold(s) == type_updated' = type_updated

TypeTold(s) ==
  \/ type_updated' = TRUE
  \/ s.type = active.type /\ type_updated' = type_updated

(* An unknown tuple or one of another length drops the message: its fields *)
(* are lost, but the type has been told.                                   *)
DropMessage ==
  /\ at = "settings"
  /\ \E s \in Requested : TypeTold(s)
  /\ at' = "tick"
  /\ UNCHANGED <<active, candidate, flash, readings, payload_tick, due, charged>>

TakeMessage ==
  /\ at = "settings"
  /\ \E s \in Requested : TypeTold(s) /\ candidate' = WithSum(s, Checksum(s))
  /\ at' = "erase"
  /\ UNCHANGED <<active, flash, readings, payload_tick, due, charged>>

(* settings_store.write: the row is erased, then the page is written.      *)
Erase ==
  /\ at = "erase"
  /\ flash' = Erased
  /\ at' = "write"
  /\ UNCHANGED <<active, candidate, type_updated, readings, payload_tick, due, charged>>

(* ... and the row is read back: only its checksum is compared, and if it  *)
(* is that of the new settings the node runs on what it has read, if not   *)
(* on the settings it had.  The settings fill less than a page, which one  *)
(* command writes: if it does not take, the row stays erased.  The new     *)
(* settings are not looked at again.  (Mutant for RunsOnFlash: what was    *)
(* read back is not used.)                                                 *)
ReadBackNot == active

ReadBack == flash'

Write ==
  /\ at = "write"
  /\ flash' \in {candidate, Erased}
  /\ active' = IF flash'.sum = candidate.sum THEN ReadBack ELSE active
  /\ candidate' = Default
  /\ at' = "tick"
  /\ UNCHANGED <<type_updated, readings, payload_tick, due, charged>>

-----------------------------------------------------------------------------
(* The bound only stops the count of a node whose interval does not end,   *)
(* any other has been reached before.                                      *)
SecondPasses ==
  /\ ~due /\ payload_tick < TickBound
  /\ due' = TRUE
  /\ UNCHANGED <<settings, readings, payload_tick, charged, at>>

BatteryChanges ==
  /\ charged' = ~charged
  /\ UNCHANGED <<settings, readings, payload_tick, due, at>>

PowerFails ==
  /\ at' = "boot"
  /\ active' = Default /\ candidate' = Default
  /\ type_updated' = FALSE
  /\ new_data' = {} /\ ready' = {}
  /\ payload_tick' = 0 /\ due' = FALSE
  /\ packet' = NoPacket
  /\ UNCHANGED <<flash, reports, charged>>

Loop == Boot \/ Resting \/ Counting \/ NoMessage \/ DropMessage \/ TakeMessage \/ Erase \/ Write

Next == Loop \/ SecondPasses \/ BatteryChanges \/ PowerFails

Spec == Init /\ [][Next]_spearVars

(* The loop has nothing to wait for, and time passes.                      *)
FairSpec == Spec /\ WF_spearVars(Loop) /\ WF_spearVars(SecondPasses)

-----------------------------------------------------------------------------
TypeOK ==
  /\ active \in Sealed \cup {Default, Erased}
  /\ candidate \in Sealed \cup {Default}
  /\ flash \in Sealed \cup {Virgin, Erased}
  /\ type_updated \in BOOLEAN
  /\ new_data \subseteq Sensors /\ ready \subseteq Sensors
  /\ payload_tick \in Nat
  /\ due \in BOOLEAN /\ charged \in BOOLEAN
  /\ at \in {"boot", "tick", "settings", "erase", "write"}
  /\ packet \in [sensors : SUBSET Sensors, read : SUBSET Sensors, length : Nat]
  /\ reports \in BOOLEAN

(* The node runs on what a restart would find, through messages, dropped   *)
(* messages and power failures between erasing and writing, unless the     *)
(* last write did not take, which leaves the row erased until the next     *)
(* message; and settings whose bytes sum to zero are lost by a restart     *)
(* (igh_spear_settings_init and igh_spear_settings_save).                  *)
RunsOnFlash ==
  at \in {"tick", "settings"} =>
    active = Loaded \/ Checksum(active) = 0 \/ flash = Erased

(* "don't send old data" (igh_spear_payload.cpp:94): a packet holds what   *)
(* was read for it, all of it and nothing older, whichever sensors fail.   *)
PacketIsFresh == packet.sensors = packet.read

(* Every tuple of a packet has an id and a length: the sensor of the       *)
(* serial port is only read if it was set up since the restart, whatever   *)
(* type settings have given it since (igh_spear_npk.cpp:86,                *)
(* igh_spear_mhz19.cpp:69).                                                *)
OnlySetUp == packet.sensors \subseteq ready

(* The radio sends a packet whole: it cuts what is longer than             *)
(* RF69_MAX_DATA_LEN (RFM69.cpp:305).                                      *)
PacketCarried == packet.length <= 61

(* A node that is live and charged reports again and again, whatever       *)
(* messages it takes or drops, unless it has taken an erased row for its   *)
(* settings and no message has given it an interval since.                 *)
LiveNodeReports ==
  <>[](active.state = LIVE /\ active.interval # Endless /\ charged /\ at # "boot") =>
    []<>reports /\ []<>~reports

(* "this is limited by the maximum bytes the RFM module can transmit with  *)
(* encryption" (igh_spear_payload.cpp:24-26): a packet fits into           *)
(* payload_scratchpad, of MAX_PAYLOAD_LENGTH bytes.                        *)
PacketFits == packet.length <= 60
=============================================================================
