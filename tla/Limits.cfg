CONSTANTS
  c1 = c1
  c2 = c2
  None = None
  Callers = {c1, c2}
  Skew <- MCSkew
  Burst = 2
  Cost = 5
  MaxDelay = 1
  Lateness = 2
  MaxTime = 13
  MaxCalls = 5
SPECIFICATION Spec
CHECK_DEADLOCK FALSE
INVARIANTS
  LimitsTypeOK
  Budget
PROPERTIES
  MemoryIsExact
