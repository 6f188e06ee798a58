SPECIFICATION Spec
CONSTANTS
  ReviewInterval = 5
  Starts <- MCStarts
  Slots <- MCOne
  MaxSteps = 3
  MaxWorkerTurns = 2
  DeadlockAbortAt = 3
  Overlap = FALSE
  MidRun = FALSE
  Restarts = FALSE
INVARIANTS
  SteerHolds
  FlowRestored
  CancelAborts
  PauseYields
PROPERTIES
  CommitsKept
