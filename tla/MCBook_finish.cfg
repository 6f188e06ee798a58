SPECIFICATION FairBook
CONSTANTS
  ReviewInterval = 2
  MaxSteps = 6
  MaxWorkerTurns = 8
  DeadlockAbortAt = 5
  LanguageModel = "cooperative"
  Crashes = FALSE
  PlanTiers <- MCShortOrLong
  Scales <- MCNone
  MaxChapter = 4
  FlatLengths <- MCFlat
  LayeredPlans <- MCLayeredOne
  Expansions <- MCExpansions
  NewVolumes <- MCNewVolumes
  IssueLists <- MCNoIssues
  VolumeIndexes <- MCIndexes3
  ArcIndexes <- MCIndexes
INVARIANTS
  FinalVolumeIsLast
PROPERTIES
  BookIsFinished
