CONSTANTS
  a = a
  b = b
  f1 = f1
  f2 = f2
  server_fd = server_fd
  Nobody = Nobody
  Clients = {a, b}
  Fds = {f1, f2}
  MAX_CONNECTIONS = 2
  MaxRequest = 2
  Chunks = 2
  Room = 1
  MaxPieces = 3
  MaxIdle = 1
SPECIFICATION Spec
SYMMETRY Interchangeable
INVARIANTS
  TypeOK
  NoStaleEvents
  NoEdgeLost
  WatchesWhatItNeeds
  AnswersAreEarned
  BacklogNoticed
CHECK_DEADLOCK FALSE
