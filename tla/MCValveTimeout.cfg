SPECIFICATION FairSpec
CONSTANTS
  Amounts <- MCAmounts
  Durations <- MCDurations
  Pulses <- MCPulses
  FlowBound <- MCFlowBound
PROPERTY TimedOpeningCloses
