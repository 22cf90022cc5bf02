SPECIFICATION MCSpec
CONSTANTS
  Kinds = {"prompt", "queue", "ask", "abort", "call", "replace"}
  MaxCommands = 3
INVARIANTS
  FollowsHost
  AnswersFlushed
  AbortReported
PROPERTY EveryCommandAnswered
CHECK_DEADLOCK FALSE
