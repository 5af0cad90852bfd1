SPECIFICATION FairSpec
CONSTANTS
  MaxRequests = 2
  GameOver = gameover
INVARIANTS
  TypeOK
  ProcessorOwnsItsWorld
  FlagsFollowProcessor
PROPERTIES
  LoadedAfterInit
  UnloadReturns
CHECK_DEADLOCK FALSE
