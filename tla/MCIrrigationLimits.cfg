SPECIFICATION FairIrrigationSpec
CONSTANTS
  HoursPerDay <- MCAlways
  DaysPerMonth <- MCDaysPerMonth
  IrrigationHours <- MCMidnight
  Handlers <- MCHandlers
  StoreOrders = {TRUE}
  ErasedStamp <- MCErasedStamp
  MaxOutage = 0
  Pulses <- MCPulses
  Drips <- MCDrips
  LitresBound = 3
  DaysBound = 0
  Minima <- MCMinima
  Maxima <- MCMaxima
  Amounts <- MCAmounts
  DefaultLow = 1
  DefaultHigh = 2
  DefaultAmount = 2
  DefaultHour = 0
  Readings <- MCNoReadings
  Types <- MCHourly
INVARIANT AutoDoseFits
PROPERTY AutoStopsAtMaximum
PROPERTY HourlyKeepsItsTimer
