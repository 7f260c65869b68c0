CONSTANTS
  p1 = p1
  p2 = p2
  h1 = h1
  h2 = h2
  PeerID <- MCPeerID
  Host <- MCHost
  PeerLists <- MCPeerLists
  HistoryCap = 2
  PeerLimit = 3
  MaxEntries <- MCMaxEntries
SPECIFICATION Spec
CHECK_DEADLOCK FALSE
INVARIANTS
  StatusBeyondHistoryWasLost
  CopyIsStretch
PROPERTIES
  EveryPeerAsked
  AbsenceIsShown
  CopyCatchesUp
  StopEnds
