CONSTANTS
  Interval = 2
  Slots = 2
  MaxRound = 1
  MaxNow = 8
  MaxLives = 3
SPECIFICATION Spec
CHECK_DEADLOCK FALSE
INVARIANT OutageCounts
