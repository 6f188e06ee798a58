SPECIFICATION Spec
CONSTANTS
  Books = {a, b, c}
  None = None
  Slots = {s1}
  MaxSessions = 4
INVARIANTS
  OneServing
  KitServes
  CreatedIsListed
