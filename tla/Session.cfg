SPECIFICATION MCSpec
CONSTANTS
  Kinds = {"user", "assistant", "toolResult", "setting", "label", "branch_summary"}
  MaxEntries = 6
  MaxFaults = 1
  Forks = TRUE
  MovesDuringCompaction = TRUE
INVARIANTS TreeIntact FileExact HistoryAccounted LossBounded ResultsPaired
CHECK_DEADLOCK FALSE
