CONSTANTS
  MaxNow = 3
  MaxEntries = 4
SPECIFICATION Spec
INVARIANTS
  DiskIsPrefix
  NilErrorMeansDurable
  HistorySorted
  HistorySinceExact
PROPERTIES
  DurableNeverLost
  ImplementsDurableLog
