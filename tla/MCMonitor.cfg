CONSTANTS
  h1 = h1
  h2 = h2
  N = 2
  Hosts = {h1, h2}
  Host <- OwnHosts
  Interval <- ShortIntervals
  BaseCooldown = 1
  MaxCooldown = 5
  IntBits = 8
  MaxOpens = 3
  MaxAge = 5
  TimeSteps = {1}
SPECIFICATION FairSpec
INVARIANTS
  TypeOK
  DownIsHandledByBreaker
  FailuresAccountedFor
  ClosedMeansFresh
  CooldownInRangeUntilOverflow
PROPERTIES
  ImplementsBreaker
  BackoffGrows
  CooldownLessCheck
  NoSiteForgotten
  RecoveredSitesClose
  StopReturns
CHECK_DEADLOCK FALSE
