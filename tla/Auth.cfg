SPECIFICATION MCSpec
CONSTANTS
  i1 = i1
  i2 = i2
  c1 = c1
  c2 = c2
  c3 = c3
  Instances <- Both
  Calls <- AllCalls
  Owner <- Owners
  MaxSets = 1
  MaxExpiries = 1
  MaxFailures = 1
  MaxCrashes = 1
INVARIANTS EditsPreserved RefreshedOnce
CHECK_DEADLOCK FALSE
