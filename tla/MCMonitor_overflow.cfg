CONSTANTS
  h1 = h1
  h2 = h2
  N = 1
  Hosts = {h1}
  Host <- OneHost
  Interval <- LongInterval
  BaseCooldown = 10
  MaxCooldown = 300
  IntBits = 16
  MaxOpens = 17
  MaxAge = 300
  TimeSteps = {300}
SPECIFICATION Spec
INVARIANTS
  CooldownInRange
CHECK_DEADLOCK FALSE
