CONSTANTS
  Interval = 2
  Slots = 3
  MaxRound = 1
  MaxNow = 9
  MaxLives = 2
  DefaultInterval = 6
  DefaultProbeInterval = 1
  Month = 6
  HistoryFloor = 1
  HistorySlack = 1
  ProbeFloor = 1
  ProbeSlack = 1
  ProbeCeiling = 3
  Files <- MCFiles
  NodeFile <- MCNodeFile
  Windows = {2, 6}
SPECIFICATION CSpec
CHECK_DEADLOCK FALSE
INVARIANTS
  MissingTracksDowntime
  CutCountsAsMissing
  OldCopyMissesNewEntries
