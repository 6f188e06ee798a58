SPECIFICATION Spec
CONSTANTS
  ReviewInterval = 2
  Slots <- MCOne
  MaxChapter = 2
  Starts <- MCStarts
  Overlap = FALSE
  Crashes = TRUE
INVARIANTS
  CompletedHasText
  KeptStays
PROPERTIES
  DeletionIsThrough
  EditsKeepComplete
