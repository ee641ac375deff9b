SPECIFICATION Spec
CONSTANTS
  CONVENTIONS = CONVENTIONS
  AGENTS = AGENTS
  agents = agents
  v1 = v1
  v2 = v2
  Paths <- MCPaths
  Layer <- MCLayer
  AnyDepth <- MCAnyDepth
  Fold <- MCFold
  Place <- MCFold
  Nested = FALSE
  Kills = TRUE
  Versions = {v1, v2, secret}
  Bad = {secret}
  Absent = Absent
  Link = Link
  Torn = Torn
  MaxEdits = 2
  MaxFaults = 1
SYMMETRY Symmetry
CHECK_DEADLOCK FALSE
INVARIANTS ReportMatchesDisk
PROPERTIES TrackedKept ExistingKept OnlyScanned KeepsPromise
