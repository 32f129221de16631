SPECIFICATION FairSpec
CONSTANTS
  a1 = a1
  a2 = a2
  f1 = f1
  f2 = f2
  f3 = f3
  Nobody = Nobody
  Fds <- MCFds
  Ips <- MCIps
  MAX_REQUESTS_PER_SEC = 2
  RATE_THRESHOLD = 3
  MAX_CONNECTIONS = 2
  WindowTicks = 2
  BlockTicks = 2
INVARIANTS FloodIsBounded WarnedBeforeBlocked
PROPERTIES ImplementsQuota BlockEnds
