SPECIFICATION Spec
CONSTANTS
  Servers = {s1, s2}
  Updaters = {u1}
  Workers = {w1}
  Clients = {c1}
  Listener = listener
  Main = main
  QueueSize = 1
  MaxRequests = 1
  LibraryMayFail = FALSE
  PacketFreeMayFail = FALSE
  SpawnMayFail = FALSE
  HangUps = FALSE
  NoClient = NoClient
INVARIANT NoDanglingWrite
CHECK_DEADLOCK FALSE
