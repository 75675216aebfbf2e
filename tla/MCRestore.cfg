SPECIFICATION RestoreSpec
CONSTANTS
  Collections = {orders, outbox}
  Snapshots = {s1}
  MaxChanges = 3
  MaxCalls = 2
  MaxFaults = 1
SYMMETRY Symmetry
CHECK_DEADLOCK FALSE
INVARIANTS NotOlderThanSnapshot ExactAtPresent
