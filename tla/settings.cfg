SPECIFICATION Spec
CONSTANTS
  Procs = {a, b}
  Keys = {bare, other}
  Bare = bare
  Absent = absent
  Garbled = garbled
  MaxRuns = 2
  MaxEdits = 2
  MaxFaults = 1
INVARIANTS BothOrNeither
PROPERTIES OthersKept NoSecondEntry ReplacedIsBackedUp
CHECK_DEADLOCK FALSE
SYMMETRY Symmetry
