SPECIFICATION FairSpec
CONSTANTS
  Producers = {p1}
  Consumers = {c1, c2}
  Txns = {t1}
  QueueSize = 2
  TicketModulus = 3
  NoTxn = NoTxn
  NoThread = NoThread
INVARIANTS TypeOK AssertsHold TicketsConsecutive NoLostWakeup
PROPERTIES RefinesReadyQueue ShutdownReturns
CHECK_DEADLOCK FALSE
