SPECIFICATION FairSpec
CONSTANTS
  Clients = {c1, c2, c3}
  Servers = {s1}
  MaxFailures = 2
  MaxSets = 2
  NoClient = NoClient
INVARIANTS
  TypeOK
  CountCovered
PROPERTY
  WaitersReleased
\* Clients may stay silent.
CHECK_DEADLOCK FALSE
