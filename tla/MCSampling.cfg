SPECIFICATION FairSpec
CONSTANTS
  NumThreads = 1
  NumTypes = 2
  Slots = 2
  desiredDelayBoundMS = 2
  Durations = {1, 5}
  MaxXacts = 3
INVARIANTS TypeOK MinuteCounts RowsAddUp
PROPERTY DelayRecovers
