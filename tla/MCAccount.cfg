SPECIFICATION FairSpec
CONSTANTS
  HoursPerDay <- MCHoursPerDay
  DaysPerMonth <- MCDaysPerMonth
  IrrigationHours <- MCMovingHour
  Handlers = {"button"}
  StoreOrders = {TRUE, FALSE}
  ErasedStamp <- MCErasedStamp
  MaxOutage <- MCMaxOutage
  Pulses <- MCPulses
  Drips <- MCDrips
  LitresBound <- MCLitresBound
  DaysBound <- MCDaysBound
INVARIANT TypeOK
INVARIANT NvNeverOverstates
INVARIANT EnabledCountIsTodays
PROPERTY NoSecondReset
PROPERTY DueWriteIsMade
