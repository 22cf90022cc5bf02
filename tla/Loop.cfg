SPECIFICATION MCSpec
CONSTANTS
  SteeringMode = "one-at-a-time"
  FollowUpMode = "all"
  ToolExecution = "parallel"
  MaxCalls = 3
  MaxTurns = 2
  MaxMsgs = 3
  MaxFaults = 2
INVARIANTS ResultsInOrder CallsAreAnswered ContextMirrorsTranscript
           DeliveredOnce DeliveredInOrder
PROPERTIES RunEnds
