\* A new session, an old one and one of another tool, up to five entries.
CONSTANTS
  TAIL_SCAN = 8
  OldLogs <- AnySession
  MaxCalls = 1
  MaxAppends = 5
  MaxTrouble = 2
SPECIFICATION Spec
INVARIANTS
  ReloadRebuildsSurface
  FailureCostsOneEntry
  EveryCallIsAnswered
  NoAnswerWithoutCall
  ThinkingStaysInItsTurn
CHECK_DEADLOCK FALSE
