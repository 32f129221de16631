SPECIFICATION FairSpec
CONSTANTS
  Urls = {url1}
  Fds <- MCFds
  server_fd = 3
  NoFd = none
  Codes <- MCCodes
  Plain = plain
  NoPiece = nothing
  Latencies <- MCLatencies
  MaxSamples = 3
  SlowAbove = 6
  FastBelow = 4
  Percents <- MCPercents
  HealthPercent = 50
  LongMax = 100
  MaxChecks = 5
  MaxSignals = 2
INVARIANTS DescriptorsAccounted StatusIsThePeers QuantilesMeanIt
  ExportIsOrdered HealthAgrees
PROPERTIES NoFlapping CheckEnds
CHECK_DEADLOCK FALSE
