SPECIFICATION FairSpec
CONSTANTS
  Files = {f1, f2}
  Versions = {v1, v2}
  Absent = Absent
  Link = Link
  Chunk = 1
  MaxEdits = 2
  MaxFaults = 1
CHECK_DEADLOCK FALSE
INVARIANTS ReadyToUntrack
PROPERTIES NothingLost KeepsPromise RerunsFinish
