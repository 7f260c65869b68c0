CONSTANTS
  DefaultInterval = 3
  DefaultProbeInterval = 6
  Month = 6
  HistoryFloor = 1
  HistorySlack = 1
  ProbeFloor = 2
  ProbeSlack = 0
  ProbeCeiling = 4
  Files <- MCFiles
  MaxSamples = 6
SPECIFICATION Spec
INVARIANTS
  CappedAndCurrent
  SavedSurvivesRestart
PROPERTIES
  DropsOnlyOldest
