CONSTANTS
  Interval = 5
  Latency = 1
  MaxAge = 13
  Slot = {s1, s2}
SPECIFICATION Spec
INVARIANTS
  NoBannerMeansFresh
  HealthyShowsNoBanner
PROPERTIES
  BannerGoes
