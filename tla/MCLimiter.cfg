SPECIFICATION FairSpec
CONSTANTS
  Keys <- MCKeys
  maxRequests <- MCMaxRequests
  windowMs = 3
  SizeValues = 4
INVARIANTS TypeOK
PROPERTIES ImplementsQuota NoStarvation
