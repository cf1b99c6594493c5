SPECIFICATION FairSpec
CONSTANTS
  Folder = TRUE
  MessageBound = 3
  TimeBound = 1
INVARIANT TypeOK
INVARIANT StoredOnce
PROPERTY ImplementsMailbox
PROPERTY CardDrains
