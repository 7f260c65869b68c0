CONSTANTS
  Points = 8
  DefaultGap = 4
  MinGap = 2
  MaxGap = 10
  Width = 8
  Count = 3
  Moments <- MCMoments
  MaxChecks = 3
  MaxProbes = 4
  ProbeCap = 3
  Local <- MCLocal
  PeerNodes <- MCPeerNodes
SPECIFICATION Spec
CHECK_DEADLOCK FALSE
INVARIANTS
  GreenMeansAllPassed
  FailureReachesPage
  GreenLightIsReal
  DotIsLatestProbe
  HoleMeansSilence
  SilenceShows
  ChoiceIsFair
  OnlyPeersChangePlaces
