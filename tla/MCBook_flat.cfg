SPECIFICATION FairRun
CONSTANTS
  ReviewInterval = 2
  MaxSteps = 3
  MaxWorkerTurns = 2
  DeadlockAbortAt = 3
  LanguageModel = "adversary"
  Crashes = TRUE
  PlanTiers <- MCShort
  Scales <- MCNone
  MaxChapter = 3
  FlatLengths <- MCThree
  LayeredPlans <- MCNone
  Expansions <- MCNone
  NewVolumes <- MCNone
  IssueLists <- MCFarIssues
  VolumeIndexes <- MCNone
  ArcIndexes <- MCNone
INVARIANTS
  CommittedHasFinal
  WritingHasFoundation
  FlowMatchesQueue
  DuesBeforeWriting
PROPERTIES
  ImplementsManuscript
  RunsEnd
