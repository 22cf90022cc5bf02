SPECIFICATION ClientSpec
CONSTANTS
  MaxRequests = 3
  MaxWaiters = 1
  MaxStarts = 2
  MaxEnds = 1
INVARIANTS
  NoneForgotten
CHECK_DEADLOCK FALSE
