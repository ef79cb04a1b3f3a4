SPECIFICATION Spec
CONSTANTS
  HeadCount = 2
  Late = 3
  MaxPushes = 2
  FetchWaits = 2
  SettleProbes = 2
  None = none
PROPERTIES
  StartEnds
