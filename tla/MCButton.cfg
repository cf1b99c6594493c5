SPECIFICATION FairButtonSpec
CONSTANTS
  ToggleValve = 1
  ToggleSystem = 2
  SampleBound = 2
  Amounts <- MCAmounts
  Durations <- MCDurations
  Pulses <- MCPulses
  FlowBound <- MCFlowBound
INVARIANT TypeOK
INVARIANT CountBacked
INVARIANT ClosedIsClean
INVARIANT NoStaleExpiry
PROPERTY OverrunCloses
PROPERTY SettlesWhereCommanded
PROPERTY PressActsOnce
PROPERTY ImplementsValve
