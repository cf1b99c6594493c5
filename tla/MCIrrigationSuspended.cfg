SPECIFICATION IrrigationSpec
CONSTANTS
  HoursPerDay <- MCHoursPerDay
  DaysPerMonth <- MCDaysPerMonth
  IrrigationHours <- MCIrrigationHours
  Handlers <- MCHandlers
  StoreOrders = {TRUE}
  ErasedStamp <- MCErasedStamp
  MaxOutage = 1
  Pulses <- MCPulses
  Drips <- MCDrips
  LitresBound = 2
  DaysBound = 1
  Minima <- MCMinima
  Maxima <- MCMaximum
  Amounts <- MCAmounts
  DefaultLow = 1
  DefaultHigh = 2
  DefaultAmount = 2
  DefaultHour = 1
  Readings <- MCNoReadings
  Types <- MCHourly
PROPERTY ClockOnlyWhenOn
