SPECIFICATION FairSpec
CONSTANTS
  Servers = {s1, s2}
  Updaters = {u1}
  Workers = {w1}
  Clients = {}
  Listener = listener
  Main = main
  QueueSize = 2
  MaxRequests = 1
  LibraryMayFail = TRUE
  PacketFreeMayFail = FALSE
  SpawnMayFail = FALSE
  HangUps = FALSE
  NoClient = NoClient
PROPERTY ExpiryNoticed
CHECK_DEADLOCK FALSE
