SPECIFICATION FairSpec
CONSTANTS
  NumEvents = 2
  Workers = {w1}
  NoWorker = none
  MaxRetries = 2
  LocalRetries = 2
  LeaseDuration = 2
  MaxDelay = 2
  MaxFaults = 2
INVARIANTS Accounted DeadLetterAfterRetries NotStranded
PROPERTY RelayFairSpec
