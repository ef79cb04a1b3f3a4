SPECIFICATION Spec
CONSTANTS
  Debuggers = {d1}
  Commands = {"stop"}
  Production = prod
  Orphan = orphan
  None = none
  Alone = TRUE
  MaxEnds = 0
PROPERTY
  StopStops
