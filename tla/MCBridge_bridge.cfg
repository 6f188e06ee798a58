SPECIFICATION FairSpec
CONSTANTS
  Worlds <- MCWorlds
  MaxCalls = 3
INVARIANTS
  AnswersMatch
  OneAtATime
PROPERTIES
  CallsSettle
CHECK_DEADLOCK FALSE
