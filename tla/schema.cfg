SPECIFICATION FairSpec
CONSTANTS
  n1 = n1  n2 = n2  r1 = r1  r2 = r2
  Nodes <- MCNodes
  Calls <- MCCalls
  At <- MCAt
  None = none
  MaxAttempts = 3
  MaxIterations = 5
  MaxChanges = 1
  MaxFaults = 2
INVARIANTS TypeOK OneBuilder LockHasBuilder StaleOnlyByCrossing
PROPERTIES CallsProgress CallsEnd
CHECK_DEADLOCK FALSE
