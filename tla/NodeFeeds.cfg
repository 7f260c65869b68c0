CONSTANTS
  MaxConnections = 1
  Conn = {"c1"}
  Buffer = 2
SPECIFICATION NodeSpec
CHECK_DEADLOCK FALSE
INVARIANTS
  NoRoundCut
PROPERTIES
  SignalEndsProcess
  RoundsKeepComing
  AbandonedFeedEnds
  DropsOnlyForCause
