------------------------------ MODULE Settings ------------------------------
(***************************************************************************)
(* The settings of the Shield: the two blocks it runs on (system_settings  *)
(* and thresholds), the copies in EEPROM it boots from (igh_eeprom.cpp)    *)
(* and the updates that reach them over MQTT and the serial port           *)
(* (igh_message.cpp).  Each block carries a checksum of its own            *)
(* (igh_settings.cpp); power may fail between any two steps, the two       *)
(* writes to EEPROM of one commit included.                                *)
(***************************************************************************)
EXTENDS Integers

CONSTANTS
  SystemValues,      (* what the settings of system_settings may be together *)
  ThresholdValues,   (* what the thresholds may be together *)
  DefaultSystem,     (* igh_default_system_settings *)
  DefaultThresholds, (* igh_default_thresholds *)
  SystemSum,         (* the sum of the bytes of a block, modulo 256 *)
  ThresholdSum

ASSUME SettingsAssumption ==
  /\ DefaultSystem \in SystemValues
  /\ DefaultThresholds \in ThresholdValues
  /\ SystemSum \in [SystemValues -> 0 .. 255]
  /\ ThresholdSum \in [ThresholdValues -> 0 .. 255]

VARIABLES
  running_system, running_thresholds,  (* igh_current_..._settings *)
  stored_system, stored_thresholds,    (* EEPROM *)
  new_settings_available,              (* a commit is due *)
  pc,                                  (* where setup or the main loop is *)
  partial   (* history: a rejected update has left values in the running blocks *)

running == <<running_system, running_thresholds>>
stored  == <<stored_system, stored_thresholds>>
vars == <<running, stored, new_settings_available, pc, partial>>

BlockOf(values) == [value : values, checksum : -1 .. 255]

(* A cleared EEPROM is all 0xFF, whose checksum is not its sum.            *)
Erased(value) == [value |-> value, checksum |-> -1]

SealedSystem(value) == [value |-> value, checksum |-> SystemSum[value]]
SealedThresholds(value) == [value |-> value, checksum |-> ThresholdSum[value]]

SystemMatches(block) == block.checksum = SystemSum[block.value]
ThresholdsMatch(block) == block.checksum = ThresholdSum[block.value]

(* What a boot accepts: the checksum matches, and is not zero.             *)
SystemReadable(block) == SystemMatches(block) /\ block.checksum # 0
ThresholdsReadable(block) == ThresholdsMatch(block) /\ block.checksum # 0

(* igh_settings_reset_system_to_default: both blocks, checksums included.  *)
ResetToDefault ==
  /\ running_system' = SealedSystem(DefaultSystem)
  /\ running_thresholds' = SealedThresholds(DefaultThresholds)

(* A board whose EEPROM was never written.                                 *)
Init ==
  /\ stored_system = Erased(DefaultSystem)
  /\ stored_thresholds = Erased(DefaultThresholds)
  /\ running_system = Erased(DefaultSystem)
  /\ running_thresholds = Erased(DefaultThresholds)
  /\ new_settings_available = FALSE
  /\ pc = "boot_system"
  /\ partial = FALSE

-----------------------------------------------------------------------------
(* igh_eeprom_init: first the button held down may clear the EEPROM, then  *)
(* each block is taken from it or, unreadable, both are reset.             *)

ClearEeprom ==
  /\ pc = "boot_system"
  /\ stored_system' = Erased(DefaultSystem)
  /\ stored_thresholds' = Erased(DefaultThresholds)
  /\ UNCHANGED <<running, new_settings_available, pc, partial>>

BootSystem ==
  /\ pc = "boot_system"
  /\ \/ /\ SystemReadable(stored_system)
        /\ running_system' = stored_system
        /\ UNCHANGED <<running_thresholds, new_settings_available>>
     \/ /\ ~SystemReadable(stored_system)
        /\ ResetToDefault
        /\ new_settings_available' = TRUE
  /\ pc' = "boot_thresholds"
  /\ UNCHANGED <<stored, partial>>

BootThresholds ==
  /\ pc = "boot_thresholds"
  /\ \/ /\ ThresholdsReadable(stored_thresholds)
        /\ running_thresholds' = stored_thresholds
        /\ UNCHANGED <<running_system, new_settings_available>>
     \/ /\ ~ThresholdsReadable(stored_thresholds)
        /\ ResetToDefault
        /\ new_settings_available' = TRUE
  /\ pc' = "serial"
  /\ UNCHANGED <<stored, partial>>

-----------------------------------------------------------------------------
(* igh_message_process_settings_tuples writes tuple after tuple into the   *)
(* running blocks.  If all of them are good the callers seal both blocks   *)
(* and ask for a commit; a bad one stops it there, and what was written    *)
(* stays.                                                                  *)

SystemTuples == {[running_system EXCEPT !.value = value] : value \in SystemValues}

ThresholdTuples ==
  {[running_thresholds EXCEPT !.value = value] : value \in ThresholdValues}

(* Mutant for SealedUnlessPartial: the thresholds keep their old checksum. *)
AcceptSystemOnly ==
  /\ running_system' \in {SealedSystem(block.value) : block \in SystemTuples}
  /\ running_thresholds' \in ThresholdTuples
  /\ new_settings_available' = TRUE
  /\ partial' = FALSE

Accept ==
  /\ running_system' \in {SealedSystem(block.value) : block \in SystemTuples}
  /\ running_thresholds' \in {SealedThresholds(block.value) : block \in ThresholdTuples}
  /\ new_settings_available' = TRUE
  /\ partial' = FALSE

Reject ==
  /\ running_system' \in SystemTuples
  /\ running_thresholds' \in ThresholdTuples
  /\ partial' = (partial \/ running' # running)
  /\ UNCHANGED new_settings_available

(* RESET-SYS on the serial port.  (Mutant for RunningIsStored: the commit  *)
(* is forgotten.)                                                          *)
ResetSystemUncommitted ==
  /\ ResetToDefault
  /\ partial' = FALSE
  /\ UNCHANGED new_settings_available

ResetSystem ==
  /\ ResetToDefault
  /\ new_settings_available' = TRUE
  /\ partial' = FALSE

(* The serial port is read at the head of a pass, just before the commit.  *)
(* (A pass without an update is a rejected one that changes nothing.)      *)
Serial ==
  /\ pc = "serial"
  /\ pc' = "commit_system"
  /\ Accept \/ Reject \/ ResetSystem
  /\ UNCHANGED stored

(* igh_message_commit_new_settings: one EEPROM write after the other.      *)
NothingToCommit ==
  /\ pc = "commit_system" /\ ~new_settings_available
  /\ pc' = "mqtt"
  /\ UNCHANGED <<running, stored, new_settings_available, partial>>

CommitSystem ==
  /\ pc = "commit_system" /\ new_settings_available
  /\ stored_system' = running_system
  /\ pc' = "commit_thresholds"
  /\ UNCHANGED <<running, stored_thresholds, new_settings_available, partial>>

(* Mutants: the system block is taken for both (for TypeOK), only blocks   *)
(* without a partial update are written (for AcceptedIsStored).            *)
CommitThresholdsMixed ==
  /\ pc = "commit_thresholds"
  /\ stored_thresholds' = running_system
  /\ new_settings_available' = FALSE
  /\ pc' = "mqtt"
  /\ UNCHANGED <<running, stored_system, partial>>

CommitThresholdsChanged ==
  /\ pc = "commit_thresholds"
  /\ stored_thresholds' =
       IF partial THEN stored_thresholds ELSE running_thresholds
  /\ new_settings_available' = FALSE
  /\ pc' = "mqtt"
  /\ UNCHANGED <<running, stored_system, partial>>

CommitThresholds ==
  /\ pc = "commit_thresholds"
  /\ stored_thresholds' = running_thresholds
  /\ new_settings_available' = FALSE
  /\ pc' = "mqtt"
  /\ UNCHANGED <<running, stored_system, partial>>

(* MQTT is served later in the pass (igh_message_parse_new_settings).      *)
Mqtt ==
  /\ pc = "mqtt"
  /\ pc' = "serial"
  /\ Accept \/ Reject
  /\ UNCHANGED stored

MainLoop ==
  \/ BootSystem \/ BootThresholds
  \/ Serial \/ NothingToCommit \/ CommitSystem \/ CommitThresholds \/ Mqtt

-----------------------------------------------------------------------------
(* Power fails; RAM starts from zero.                                      *)
Restart ==
  /\ running_system' = Erased(DefaultSystem)
  /\ running_thresholds' = Erased(DefaultThresholds)
  /\ new_settings_available' = FALSE
  /\ pc' = "boot_system"
  /\ partial' = FALSE
  /\ UNCHANGED stored

Next == MainLoop \/ ClearEeprom \/ Restart

Spec == Init /\ [][Next]_vars

(* Setup and the main loop go on as long as there is power.                *)
FairSpec == Spec /\ WF_vars(MainLoop)

-----------------------------------------------------------------------------
Booting == {"boot_system", "boot_thresholds"}

TypeOK ==
  /\ running_system \in BlockOf(SystemValues)
  /\ stored_system \in BlockOf(SystemValues)
  /\ running_thresholds \in BlockOf(ThresholdValues)
  /\ stored_thresholds \in BlockOf(ThresholdValues)
  /\ new_settings_available \in BOOLEAN /\ partial \in BOOLEAN
  /\ pc \in Booting \cup {"serial", "commit_system", "commit_thresholds", "mqtt"}

(* The Shield runs on what a restart would find: unless a commit is due or *)
(* a rejected update has left its first tuples behind, both running blocks *)
(* are the stored ones, after accepted updates, resets, boots with         *)
(* unreadable blocks and power failures between the writes of a commit.    *)
RunningIsStored ==
  pc \notin Booting \cup {"commit_thresholds"} /\ ~new_settings_available /\ ~partial =>
    running = stored

(* Outside a rejected update every running block carries its own checksum: *)
(* whichever way it came to run (the callers of                            *)
(* igh_message_process_settings_tuples, igh_eeprom_init), what the next    *)
(* commit writes can be read back, but for a sum of zero.                  *)
SealedUnlessPartial ==
  pc \notin Booting /\ ~partial =>
    SystemMatches(running_system) /\ ThresholdsMatch(running_thresholds)

(* A commit that is due is made as a whole, unless power fails first: both *)
(* blocks reach EEPROM as they run (igh_message_commit_new_settings).      *)
AcceptedIsStored ==
  new_settings_available ~> running = stored \/ pc = "boot_system"
=============================================================================
