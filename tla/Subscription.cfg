SPECIFICATION FairSpec
CONSTANTS
  MaxFrames = 3
  MaxPings = 2
INVARIANTS TypeOK NoConnLeft
PROPERTIES ImplementsStream EndsCompletely
CHECK_DEADLOCK FALSE
