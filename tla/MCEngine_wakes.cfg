SPECIFICATION FairSpec
CONSTANTS
  ReviewInterval = 5
  Starts <- MCFresh
  Slots <- MCOne
  MaxSteps = 2
  MaxWorkerTurns = 1
  DeadlockAbortAt = 2
  Overlap = TRUE
  MidRun = TRUE
  Restarts = TRUE
PROPERTIES
  CancelEnds
  ResumeWakes
