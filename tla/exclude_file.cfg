SPECIFICATION Spec
CONSTANTS
  Procs = {w1, w2, w3}
  p1 = p1
  p2 = p2
  PatternList <- MCPatternList
  START = START
  END = END
  Note = Note
  Junk = Junk
  MaxEdits = 1
  MaxCalls = 5
SYMMETRY Symmetry
CHECK_DEADLOCK FALSE
INVARIANTS ScanAgrees CoveredWhenDone OneBlock SoundUnlessTorn
PROPERTIES NotesKept KeepsExcluded
