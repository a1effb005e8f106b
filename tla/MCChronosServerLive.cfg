SPECIFICATION FairSpec
CONSTANTS
  Servers = {s1, s2}
  Updaters = {u1}
  Workers = {w1}
  Clients = {c1}
  Listener = listener
  Main = main
  QueueSize = 2
  MaxRequests = 1
  LibraryMayFail = FALSE
  PacketFreeMayFail = FALSE
  SpawnMayFail = TRUE
  HangUps = FALSE
  NoClient = NoClient
PROPERTIES UserTxnServed ExpiryNoticed OnlyReadersLinger
CHECK_DEADLOCK FALSE
