SPECIFICATION MCSpec
CONSTANTS
  p1 = p1
  p2 = p2
  Procs = {p1, p2}
  MaxAttempts = 2
  Together = 2
  Commands = {"transcribe", "retry", "refresh"}
  MaxRuns = 4
  MaxCrashes = 2
  MaxEdits = 1
  Torn = {"torn"}
INVARIANTS CompletionBacked ResultBacked RevisionsIntact JournalAccounted
CHECK_DEADLOCK FALSE
