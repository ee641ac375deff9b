SPECIFICATION FairSpec
CONSTANTS
  Trees = {t1, t2}
  Files = {f1, f2}
  Versions = {v1}
  Absent = Absent
  Link = Link
  MaxEdits = 1
  MaxFaults = 1
CHECK_DEADLOCK FALSE
INVARIANTS OnlyWhileCopying
PROPERTIES LeftUntouched SyncsFinish
