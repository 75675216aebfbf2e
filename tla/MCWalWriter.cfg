SPECIFICATION FairSpec
CONSTANTS
  MaxWriters = 2
  MaxChanges = 2
  BatchSize = 2
  MaxFaults = 1
CHECK_DEADLOCK FALSE
INVARIANT StopFlushes
PROPERTIES RepeatedOnlyByLeak LogSpec Drains
