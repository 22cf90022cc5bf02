SPECIFICATION Spec
CONSTANTS
  Kinds = {"user", "assistant", "label"}
  MaxEntries = 6
  MaxFaults = 0
  Forks = TRUE
  MovesDuringCompaction = FALSE
PROPERTIES CloneKeepsContext
CHECK_DEADLOCK FALSE
