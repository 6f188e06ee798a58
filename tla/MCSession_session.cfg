SPECIFICATION FairSpec
CONSTANTS
  Slots = {s1, s2}
  NoSlot = NoSlot
  Kinds <- AllKinds
INVARIANTS
  LongCallsExclude
  RunStateTells
  CancelIsHonoured
PROPERTIES
  SavesAreWanted
  CancelEnds
