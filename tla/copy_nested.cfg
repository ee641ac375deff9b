SPECIFICATION Spec
CONSTANTS
  CONVENTIONS = CONVENTIONS
  AGENTS = AGENTS
  agents = agents
  v1 = v1
  v2 = v2
  Paths <- MCPaths
  Layer <- MCLayer
  AnyDepth <- MCAnyDepth
  Fold <- MCFold
  Place <- MCFold
  Nested = TRUE
  Kills = FALSE
  Versions = {v1, v2, secret}
  Bad = {secret}
  Absent = Absent
  Link = Link
  Torn = Torn
  MaxEdits = 0
  MaxFaults = 0
SYMMETRY Symmetry
CHECK_DEADLOCK FALSE
PROPERTY KeepsPromise
