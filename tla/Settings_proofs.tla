-------------------------- MODULE Settings_proofs ---------------------------
(* Proofs about Settings, for all sets of values, defaults and sums.       *)
EXTENDS Settings, TLAPS

(* Every block that a boot, a reset or an accepted update makes is one.    *)
LEMMA Blocks ==
  /\ \A value \in SystemValues :
        /\ Erased(value) \in BlockOf(SystemValues)
        /\ SealedSystem(value) \in BlockOf(SystemValues)
  /\ \A value \in ThresholdValues :
        /\ Erased(value) \in BlockOf(ThresholdValues)
        /\ SealedThresholds(value) \in BlockOf(ThresholdValues)
<1>1. -1 \in -1 .. 255 /\ 0 .. 255 \subseteq -1 .. 255
  OBVIOUS
<1>2. \A value \in SystemValues : SystemSum[value] \in -1 .. 255
  BY <1>1, SettingsAssumption DEF SettingsAssumption
<1>3. \A value \in ThresholdValues : ThresholdSum[value] \in -1 .. 255
  BY <1>1, SettingsAssumption DEF SettingsAssumption
<1> QED
  BY <1>1, <1>2, <1>3, Zenon DEF BlockOf, Erased, SealedSystem, SealedThresholds

(* The variables of the settings keep their types, through every way they  *)
(* are booted, updated, reset and committed.                               *)
THEOREM TypeCorrect == Spec => []TypeOK
<1> USE Blocks, SettingsAssumption DEF SettingsAssumption
<1>1. Init => TypeOK
  BY DEF Init, TypeOK, Booting
<1>2. TypeOK /\ [Next]_vars => TypeOK'
  <2> SUFFICES ASSUME TypeOK, [Next]_vars PROVE TypeOK'
    OBVIOUS
  <2> USE DEF TypeOK, Booting
  <2>1. CASE ClearEeprom
    BY <2>1 DEF ClearEeprom, running
  <2>2. CASE BootSystem
    BY <2>2 DEF BootSystem, ResetToDefault, stored
  <2>3. CASE BootThresholds
    BY <2>3 DEF BootThresholds, ResetToDefault, stored
  <2>4. Accept \/ Reject \/ ResetSystem =>
          /\ running_system' \in BlockOf(SystemValues)
          /\ running_thresholds' \in BlockOf(ThresholdValues)
          /\ new_settings_available' \in BOOLEAN /\ partial' \in BOOLEAN
    <3>1. Accept => running_system' \in BlockOf(SystemValues)
                    /\ running_thresholds' \in BlockOf(ThresholdValues)
      <4>1. /\ \A block \in SystemTuples : block.value \in SystemValues
            /\ \A block \in ThresholdTuples : block.value \in ThresholdValues
        BY DEF SystemTuples, ThresholdTuples, BlockOf
      <4> QED BY <4>1 DEF Accept
    <3>2. Reject => running_system' \in BlockOf(SystemValues)
                    /\ running_thresholds' \in BlockOf(ThresholdValues)
      BY DEF Reject, SystemTuples, ThresholdTuples, BlockOf
    <3>3. ResetSystem => running_system' \in BlockOf(SystemValues)
                         /\ running_thresholds' \in BlockOf(ThresholdValues)
      BY DEF ResetSystem, ResetToDefault
    <3>4. (Accept \/ Reject \/ ResetSystem) =>
            new_settings_available' \in BOOLEAN /\ partial' \in BOOLEAN
      BY DEF Accept, Reject, ResetSystem
    <3> QED BY <3>1, <3>2, <3>3, <3>4
  <2>5. CASE Serial
    BY <2>4, <2>5 DEF Serial, stored
  <2>6. CASE Mqtt
    BY <2>4, <2>6 DEF Mqtt, stored
  <2>7. CASE NothingToCommit
    BY <2>7 DEF NothingToCommit, running, stored
  <2>8. CASE CommitSystem
    BY <2>8 DEF CommitSystem, running
  <2>9. CASE CommitThresholds
    BY <2>9 DEF CommitThresholds, running
  <2>10. CASE Restart
    BY <2>10 DEF Restart, stored
  <2>11. CASE UNCHANGED vars
    BY <2>11 DEF vars, running, stored
  <2> QED
    BY <2>1, <2>2, <2>3, <2>5, <2>6, <2>7, <2>8, <2>9, <2>10, <2>11 DEF Next, MainLoop
<1> QED BY <1>1, <1>2, PTL DEF Spec

-----------------------------------------------------------------------------
(* RunningIsStored says nothing of a boot or a commit that is half done.   *)
(* What those have reached by then makes it inductive.                     *)
HalfWay ==
  /\ pc = "boot_system" => ~new_settings_available
  /\ pc \in Booting => ~partial
  /\ pc = "boot_thresholds" /\ ~new_settings_available => running_system = stored_system
  /\ pc = "commit_thresholds" => new_settings_available /\ running_system = stored_system

StoredInv == RunningIsStored /\ HalfWay

(* Unless a commit is due or a rejected update has left its first tuples,  *)
(* the Shield runs on the blocks that a restart would find.                *)
THEOREM RunsOnWhatIsStored == Spec => []RunningIsStored
<1> USE DEF StoredInv, RunningIsStored, HalfWay, Booting
<1>1. Init => StoredInv
  BY DEF Init
<1>2. StoredInv /\ [Next]_vars => StoredInv'
  <2> SUFFICES ASSUME StoredInv, [Next]_vars PROVE StoredInv'
    OBVIOUS
  <2> USE DEF running, stored
  <2>1. CASE ClearEeprom
    BY <2>1 DEF ClearEeprom
  <2>2. CASE BootSystem
    BY <2>2 DEF BootSystem
  <2>3. CASE BootThresholds
    BY <2>3 DEF BootThresholds
  <2>4. CASE Serial
    BY <2>4 DEF Serial, Accept, Reject, ResetSystem
  <2>5. CASE Mqtt
    BY <2>5 DEF Mqtt, Accept, Reject
  <2>6. CASE NothingToCommit
    BY <2>6 DEF NothingToCommit
  <2>7. CASE CommitSystem
    BY <2>7 DEF CommitSystem
  <2>8. CASE CommitThresholds
    BY <2>8 DEF CommitThresholds
  <2>9. CASE Restart
    BY <2>9 DEF Restart
  <2>10. CASE UNCHANGED vars
    BY <2>10 DEF vars
  <2> QED
    BY <2>1, <2>2, <2>3, <2>4, <2>5, <2>6, <2>7, <2>8, <2>9, <2>10 DEF Next, MainLoop
<1> QED BY <1>1, <1>2, PTL DEF Spec

-----------------------------------------------------------------------------
(* A boot takes the system block first, which is sealed by then.           *)
SealedInv ==
  /\ SealedUnlessPartial
  /\ pc \in Booting => ~partial
  /\ pc = "boot_thresholds" => SystemMatches(running_system)

LEMMA SealedHolds == Spec => []SealedInv
<1> USE DEF SealedInv, SealedUnlessPartial, Booting
<1>1. Init => SealedInv
  BY DEF Init
<1>2. SealedInv /\ [Next]_vars => SealedInv'
  <2> SUFFICES ASSUME SealedInv, [Next]_vars PROVE SealedInv'
    OBVIOUS
  <2> USE DEF running, SystemMatches, ThresholdsMatch
  <2>1. ResetToDefault => SystemMatches(running_system)' /\ ThresholdsMatch(running_thresholds)'
    BY DEF ResetToDefault, SealedSystem, SealedThresholds
  <2>2. Accept => SystemMatches(running_system)' /\ ThresholdsMatch(running_thresholds)'
    BY DEF Accept, SealedSystem, SealedThresholds
  <2>3. Reject /\ ~partial' => ~partial /\ UNCHANGED running
    BY DEF Reject
  <2>4. CASE ClearEeprom
    BY <2>4 DEF ClearEeprom
  <2>5. CASE BootSystem
    BY <2>1, <2>5 DEF BootSystem, SystemReadable
  <2>6. CASE BootThresholds
    BY <2>1, <2>6 DEF BootThresholds, ThresholdsReadable
  <2>7. CASE Serial
    BY <2>1, <2>2, <2>3, <2>7 DEF Serial, ResetSystem
  <2>8. CASE Mqtt
    BY <2>2, <2>3, <2>8 DEF Mqtt
  <2>9. CASE NothingToCommit
    BY <2>9 DEF NothingToCommit
  <2>10. CASE CommitSystem
    BY <2>10 DEF CommitSystem
  <2>11. CASE CommitThresholds
    BY <2>11 DEF CommitThresholds
  <2>12. CASE Restart
    BY <2>12 DEF Restart
  <2>13. CASE UNCHANGED vars
    BY <2>13 DEF vars
  <2> QED
    BY <2>4, <2>5, <2>6, <2>7, <2>8, <2>9, <2>10, <2>11, <2>12, <2>13 DEF Next, MainLoop
<1> QED BY <1>1, <1>2, PTL DEF Spec

(* Outside a rejected update both running blocks carry their own checksum, *)
(* whatever the sums are: what a commit writes can be read back.           *)
THEOREM RunningBlocksAreSealed == Spec => []SealedUnlessPartial
BY SealedHolds, PTL DEF SealedInv

(* Whatever reaches EEPROM is an erasure or a block with its own checksum, *)
(* unless a rejected update has left its first tuples in the running       *)
(* blocks: power that fails between the two writes of a commit never       *)
(* leaves a block that the commit did not mean                             *)
(* (igh_message_commit_new_settings, igh_eeprom_clear).                    *)
THEOREM WritesAreSealed ==
  Spec => [][/\ stored_system' # stored_system =>
                   ClearEeprom \/ partial \/ SystemMatches(stored_system)'
             /\ stored_thresholds' # stored_thresholds =>
                   ClearEeprom \/ partial \/ ThresholdsMatch(stored_thresholds)']_vars
<1>1. ASSUME SealedInv, [Next]_vars, ~ClearEeprom, ~partial
      PROVE  /\ stored_system' # stored_system => SystemMatches(stored_system)'
             /\ stored_thresholds' # stored_thresholds => ThresholdsMatch(stored_thresholds)'
  <2>1. CASE CommitSystem
    BY <1>1, <2>1 DEF CommitSystem, SealedInv, SealedUnlessPartial, Booting, SystemMatches
  <2>2. CASE CommitThresholds
    BY <1>1, <2>2 DEF CommitThresholds, SealedInv, SealedUnlessPartial, Booting, ThresholdsMatch
  <2>3. CommitSystem \/ CommitThresholds \/ UNCHANGED stored
    BY <1>1, Zenon DEF Next, MainLoop, BootSystem, BootThresholds, Serial, NothingToCommit, Mqtt,
       Restart, vars
  <2> QED
    BY <2>1, <2>2, <2>3 DEF stored
<1>2. SealedInv /\ [Next]_vars =>
        [/\ stored_system' # stored_system =>
               ClearEeprom \/ partial \/ SystemMatches(stored_system)'
         /\ stored_thresholds' # stored_thresholds =>
               ClearEeprom \/ partial \/ ThresholdsMatch(stored_thresholds)']_vars
  BY <1>1, Zenon
<1> QED BY <1>2, SealedHolds, PTL DEF Spec

-----------------------------------------------------------------------------
(* Between the two halves of a boot: what became of the system block.      *)
BootInv ==
  /\ pc = "boot_system" => ~new_settings_available
  /\ pc = "boot_thresholds" =>
       \/ /\ SystemReadable(stored_system) /\ running_system = stored_system
          /\ ~new_settings_available
       \/ /\ ~SystemReadable(stored_system) /\ running_system = SealedSystem(DefaultSystem)
          /\ new_settings_available

(* The three ways out of a boot.                                           *)
BootTakes ==
  \/ /\ SystemReadable(stored_system) /\ ThresholdsReadable(stored_thresholds)
     /\ running' = stored /\ ~new_settings_available'
  \/ /\ ~SystemReadable(stored_system) /\ ThresholdsReadable(stored_thresholds)
     /\ running' = <<SealedSystem(DefaultSystem), stored_thresholds>>
     /\ new_settings_available'
  \/ /\ ~ThresholdsReadable(stored_thresholds)
     /\ running' = <<SealedSystem(DefaultSystem), SealedThresholds(DefaultThresholds)>>
     /\ new_settings_available'

(* What the Shield runs on after a boot, whatever the power failures       *)
(* before it left in EEPROM.  Thresholds that cannot be read take the      *)
(* system block with them; a system block that cannot be read leaves the   *)
(* thresholds alone.  A commit is due unless both were read                *)
(* (igh_eeprom_init).                                                      *)
THEOREM WhatABootTakes == Spec => [][BootThresholds => BootTakes]_vars
<1>1. Init => BootInv
  BY Zenon DEF Init, BootInv
<1>2. BootInv /\ [Next]_vars => BootInv'
  <2> SUFFICES ASSUME BootInv, [Next]_vars PROVE BootInv'
    OBVIOUS
  <2> USE DEF BootInv
  <2>1. CASE BootSystem
    <3>1. SystemReadable(stored_system)' = SystemReadable(stored_system)
      BY <2>1, Zenon DEF BootSystem, stored, SystemReadable, SystemMatches
    <3> QED
      BY <2>1, <3>1 DEF BootSystem, stored, ResetToDefault
  <2>2. CASE pc' \notin Booting
    BY <2>2 DEF Booting
  <2>3. CASE ClearEeprom \/ Restart
    BY <2>3 DEF ClearEeprom, Restart
  <2>4. CASE UNCHANGED vars
    BY <2>4, Zenon DEF vars, running, stored, SystemReadable, SystemMatches
  <2>5. BootSystem \/ pc' \notin Booting \/ ClearEeprom \/ Restart \/ UNCHANGED vars
    BY DEF Next, MainLoop, BootThresholds, Serial, NothingToCommit, CommitSystem,
       CommitThresholds, Mqtt, Booting
  <2> QED
    BY <2>1, <2>2, <2>3, <2>4, <2>5
<1>3. BootInv => (BootThresholds => BootTakes)
  BY DEF BootInv, BootThresholds, BootTakes, ResetToDefault, running, stored
<1> QED BY <1>1, <1>2, <1>3, PTL DEF Spec
=============================================================================
