SPECIFICATION Spec
CONSTANTS
  Intervals <- MCIntervals
  Rests <- MCRests
  DefaultRest = 186
  TickBound = 5
INVARIANT PacketFits
