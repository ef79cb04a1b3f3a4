SPECIFICATION Spec
CONSTANTS
  Debuggers = {d1, d2}
  Commands = {"recover"}
  Production = prod
  Orphan = orphan
  None = none
  Alone = TRUE
  MaxEnds = 1
INVARIANTS
  SessionHasTheDock
  SomeoneOwesProduction
  NeverStranded
PROPERTIES
  NothingIsHeldOpen
