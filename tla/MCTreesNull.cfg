CONSTANTS
  Kinds = {"rb"}
  Data = {1, 2, 3, 4, 5, 6, 7, 8}
  Intervals <- MCOrdered
  MaxNodes = 8
  Copies = 1
SPECIFICATION Spec
INVARIANTS
  NeverReadsNull
CHECK_DEADLOCK FALSE
