SPECIFICATION MCSpec
CONSTANTS
  p1 = p1
  p2 = p2
  None = None
  Prompts = {p1, p2}
  Stops = {"full", "retryable", "overflow"}
  MaxRetries = 1
  MaxCalls = 1
  MaxSteers = 1
  MaxBash = 1
  MaxAborts = 1
  MaxCompacts = 3
INVARIANTS OneRun BashSavedOnce CallsPaired SavedAgrees NothingStranded
PROPERTIES Settles
CHECK_DEADLOCK FALSE
