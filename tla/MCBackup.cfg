SPECIFICATION Spec
CONSTANTS
  Collections = {orders, outbox}
  Snapshots = {s1, s2}
  MaxChanges = 2
  MaxClock = 2
  WalDays = 1
  SnapshotDays = 1
  JobDays = 0
SYMMETRY Symmetry
CHECK_DEADLOCK FALSE
INVARIANTS SnapshotCoversLog MarkedIsCovered PrunedIsCovered NewestIsReplayable
