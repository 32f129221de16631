CONSTANTS
  a = a
  b = b
  f1 = f1
  f2 = f2
  server_fd = server_fd
  Nobody = Nobody
  Clients = {a, b}
  Fds = {f1, f2}
  MAX_CONNECTIONS = 2
  MaxRequest = 1
  Chunks = 2
  Room = 1
  MaxPieces = 1
  MaxIdle = 1
SPECIFICATION FairSpec
PROPERTIES
  RequestsAnswered
  SignalEndsLoop
  IdleIsSwept
CHECK_DEADLOCK FALSE
