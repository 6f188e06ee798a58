SPECIFICATION Spec
CONSTANTS
  Slots <- MCOne
  Contents = {a, b}
  Absent = Absent
  Empty = Empty
  Overlap = FALSE
  Crashes = TRUE
PROPERTIES
  ImplementsFile
