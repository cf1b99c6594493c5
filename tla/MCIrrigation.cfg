SPECIFICATION IrrigationSpec
CONSTANTS
  HoursPerDay <- MCHoursPerDay
  DaysPerMonth <- MCDaysPerMonth
  IrrigationHours <- MCIrrigationHours
  Handlers <- MCHandlers
  StoreOrders = {FALSE}
  ErasedStamp <- MCErasedStamp
  MaxOutage = 0
  Pulses <- MCPulses
  Drips <- MCDrips
  LitresBound = 2
  DaysBound = 0
  Minima <- MCMinima
  Maxima <- MCMaximum
  Amounts <- MCAmounts
  DefaultLow = 1
  DefaultHigh = 2
  DefaultAmount = 2
  DefaultHour = 1
  Readings <- MCDry
  Types <- MCBothTypes
PROPERTY ImplementsAccount
INVARIANT IrrigationTypeOK
INVARIANT NoClockInSensorMode
INVARIANT CooldownHolds
