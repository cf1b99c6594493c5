SPECIFICATION Spec
CONSTANTS
  HoursPerDay <- MCHoursPerDay
  DaysPerMonth <- MCDaysPerMonth
  IrrigationHours <- MCMovingHour
  Handlers = {"button"}
  StoreOrders = {TRUE}
  ErasedStamp <- MCErasedStamp
  MaxOutage <- MCMaxOutage
  Pulses <- MCPulses
  Drips <- MCNoDrips
  LitresBound <- MCLitresBound
  DaysBound <- MCDaysBound
PROPERTY ResetIsStored
