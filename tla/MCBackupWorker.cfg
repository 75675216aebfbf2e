SPECIFICATION Spec
CONSTANTS
  Jobs = {j1, j2}
  Day = 2
  JobTime = 1
  MaxClock = 3
  MaxBackups = 5
  StorageLimit = 1
  MaxWritten = 7
SYMMETRY Symmetry
CHECK_DEADLOCK FALSE
INVARIANTS OneSchedule OnePerDay LatestDownloadable
