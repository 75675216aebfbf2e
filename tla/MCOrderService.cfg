SPECIFICATION Spec
CONSTANTS
  Requests = {r1, r2, r3}
  Keys = {k1}
  Hashes = {h1, h2}
  NoKey = noKey
  NoHash = noHash
SYMMETRY Symmetry
INVARIANTS OutboxMatchesOrders KeyIsALock AcceptedExists
CHECK_DEADLOCK FALSE
