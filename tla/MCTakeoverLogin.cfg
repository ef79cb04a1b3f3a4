SPECIFICATION Spec
CONSTANTS
  Debuggers = {}
  Commands = {}
  Production = prod
  Orphan = orphan
  None = none
  Alone = TRUE
  MaxEnds = 0
INVARIANT
  NeverDormant
