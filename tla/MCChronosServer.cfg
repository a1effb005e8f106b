SPECIFICATION Spec
CONSTANTS
  Servers = {s1}
  Updaters = {u1}
  Workers = {w1, w2}
  Clients = {c1, c2}
  Listener = listener
  Main = main
  QueueSize = 1
  MaxRequests = 1
  LibraryMayFail = TRUE
  PacketFreeMayFail = TRUE
  SpawnMayFail = FALSE
  HangUps = TRUE
  NoClient = NoClient
SYMMETRY Symmetry
INVARIANTS TypeOK NoDanglingWrite TruthfulReplies ServerNeverBlocks NoUseAfterFree
CHECK_DEADLOCK FALSE
