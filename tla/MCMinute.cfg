SPECIFICATION Spec
CONSTANTS
  NumThreads = 2
  NumTypes = 2
  Slots = 2
  desiredDelayBoundMS = 2
  Durations = {1, 5}
  MaxXacts = 2
INVARIANT MinuteCounts
