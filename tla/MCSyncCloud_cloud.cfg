SPECIFICATION Spec
CONSTANTS
  Records = {r1}
  VersionIds = {v1, v2, v3, v4}
  EventIds = {e1, e2, e3, e4}
  Null = Null
  MaxVersion = 4
  MaxCursor = 5
  MaxKey = 2
SYMMETRY Symmetry
INVARIANTS
  LinearHistory
  BranchesKept
  ResolutionFollowsHead
  KeysUniform
PROPERTIES
  KeepsHistory
CHECK_DEADLOCK FALSE
