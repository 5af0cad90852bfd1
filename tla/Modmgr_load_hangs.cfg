SPECIFICATION FairSpec
CONSTANTS
  MaxRequests = 1
  GameOver = gameover
PROPERTIES
  LoadReturns
CHECK_DEADLOCK FALSE
