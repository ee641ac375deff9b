SPECIFICATION Spec
CONSTANTS
  Trees = {t1, t2}
  Files = {f1, f2}
  Versions = {v1}
  Absent = Absent
  Link = Link
  MaxEdits = 0
  MaxFaults = 1
CHECK_DEADLOCK FALSE
INVARIANT RerunExcludes
