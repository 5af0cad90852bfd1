SPECIFICATION Spec
CONSTANTS
  MaxRequests = 1
  GameOver = gameover
INVARIANTS
  FreedOnce
CHECK_DEADLOCK FALSE
