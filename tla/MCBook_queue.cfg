SPECIFICATION FairBook
CONSTANTS
  ReviewInterval = 2
  MaxSteps = 6
  MaxWorkerTurns = 8
  DeadlockAbortAt = 5
  LanguageModel = "cooperative"
  Crashes = FALSE
  PlanTiers <- MCShort
  Scales <- MCNone
  MaxChapter = 3
  FlatLengths <- MCFlat
  LayeredPlans <- MCNone
  Expansions <- MCNone
  NewVolumes <- MCNone
  IssueLists <- MCIssues
  VolumeIndexes <- MCNone
  ArcIndexes <- MCNone
PROPERTIES
  QueueDrains
