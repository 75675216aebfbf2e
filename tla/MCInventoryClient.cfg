SPECIFICATION ClientFairSpec
CONSTANTS
  Requests = {r1, r2, r3}
  FailureThreshold = 2
  SuccessThreshold = 2
  Timeout = 1
  ResetTimeout = 2
INVARIANT CountersMatchState
PROPERTIES ProbationStartsClean CallsReturn Recovers ProbationIsEarned
