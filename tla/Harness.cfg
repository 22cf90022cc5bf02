SPECIFICATION Spec
CONSTANTS
  MaxPrompts = 2
  QueueMode = "one-at-a-time"
  MaxEach = 2
  MaxActs = 4
INVARIANTS HandlesExact DeferredKept ModelSeesBranch QueuedOnce
CHECK_DEADLOCK FALSE
