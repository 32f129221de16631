CONSTANTS
  a = a
  b = b
  f1 = f1
  f2 = f2
  server_fd = server_fd
  Nobody = Nobody
  Clients = {a}
  Fds = {f1}
  MAX_CONNECTIONS = 1
  MaxRequest = 1
  Chunks = 1
  Room = 1
  MaxPieces = 1
  MaxIdle = 0
SPECIFICATION FairSpec
PROPERTIES
  ShutdownIsGraceful
CHECK_DEADLOCK FALSE
