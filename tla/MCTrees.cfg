CONSTANTS
  Kinds = {"rb", "os", "int"}
  Data <- MCData
  Intervals <- MCIntervals
  MaxNodes = 6
  Copies = 2
SPECIFICATION Spec
INVARIANTS
  TypeOK
  KeepsContents
  FindsKth
  FindsOverlap
CHECK_DEADLOCK FALSE
