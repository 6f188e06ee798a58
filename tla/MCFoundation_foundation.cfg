SPECIFICATION FoundationSpec
CONSTANTS
  None = None
  Chapters = {1, 2, 3}
  Callers = {s1}
  MaxCalls = 2
  Starts <- MCStarts
  Mentions <- MCMentions
  Patches <- MCPatches
  Options <- MCOptions
  Requests <- MCRequests
  Answers <- MCAnswers
  Generated <- MCGenerated
  Refinements <- MCRefinements
INVARIANTS
  StaleIsConfirmed
  FillClosesGaps
PROPERTIES
  SyncReachesStale
  FillsOnlyGaps
