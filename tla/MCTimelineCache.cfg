CONSTANTS
  r1 = r1
  r2 = r2
  Request <- MCRequest
  Key <- MCKey
  Duration <- MCDuration
  MaxNow = 2
  MaxEntries = 2
SPECIFICATION Spec
SYMMETRY Symmetry
INVARIANTS
  CacheMatchesVersion
  ResponseHasItsVersion
