SPECIFICATION Spec
CONSTANTS
  ReviewInterval = 2
  MaxSteps = 1
  MaxWorkerTurns = 3
  DeadlockAbortAt = 3
  LanguageModel = "focused"
  Crashes = TRUE
  PlanTiers <- MCLong
  Scales <- MCScales
  MaxChapter = 4
  FlatLengths <- MCNone
  LayeredPlans <- MCLayered
  Expansions <- MCExpansions
  NewVolumes <- MCEitherTitle
  IssueLists <- MCNoIssues
  VolumeIndexes <- MCIndexes3
  ArcIndexes <- MCIndexes
INVARIANTS
  DuesBeforeWriting
  WriteInsideOutline
  NoVolumeTwice
PROPERTIES
  CompletionIsEarned
  OutlineGrowsAhead
