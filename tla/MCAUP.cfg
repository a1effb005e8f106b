SPECIFICATION Spec
CONSTANTS
  NumItems = 2
  NumUpdaters = 1
  PerUpdater = 2
  AVI = 10
  BetaNum = 12
  BetaDen = 10
  PollPeriod = 2
  MaxFrequency = 1
  MaxCycle = 3
INVARIANTS
  TypeOK
  NotForgotten
  FirstColdRelaxed
