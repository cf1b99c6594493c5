SPECIFICATION FairSpec
CONSTANTS
  SystemValues <- MCSystemValues
  ThresholdValues <- MCThresholdValues
  DefaultSystem = "s0"
  DefaultThresholds = "t0"
  SystemSum <- MCSumWithZero
  ThresholdSum <- MCThresholdSum
INVARIANT TypeOK
INVARIANT RunningIsStored
INVARIANT SealedUnlessPartial
PROPERTY AcceptedIsStored
