SPECIFICATION FairSpec
CONSTANTS
  Spears <- MCSpears
  Shield = 7
  IdBytes = 256
  Retries = 1
  PacketsBound <- MCPackets
INVARIANT TypeOK
INVARIANT RepeatsBounded
PROPERTY ImplementsCourier
PROPERTY SendingEnds
PROPERTY ShieldListensAgain
