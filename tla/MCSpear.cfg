SPECIFICATION FairSpec
CONSTANTS
  Intervals <- MCIntervals
  Rests <- MCRests
  DefaultRest = 186
  TickBound = 5
INVARIANT TypeOK
INVARIANT RunsOnFlash
INVARIANT PacketIsFresh
INVARIANT OnlySetUp
INVARIANT PacketCarried
PROPERTY LiveNodeReports
