SPECIFICATION Spec
CONSTANTS
  Procs = {a, b}
  Projects = {alpha, beta}
  None = None
  Missing = Missing
  Empty = Empty
  Garbled = Garbled
  MaxCalls = 4
  MaxFaults = 2
  MaxEdits = 1
CHECK_DEADLOCK FALSE
INVARIANTS UnreadableOnlyIfCut
PROPERTIES OthersKept RemovedIsBackedUp
