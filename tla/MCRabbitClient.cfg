SPECIFICATION RabbitFairSpec
CONSTANTS
  Callers = {c1, c2}
  MaxConnections = 9
  MaxFaults = 3
CHECK_DEADLOCK FALSE
INVARIANTS OneDial GoneIsNoticed
PROPERTY Reconnects
