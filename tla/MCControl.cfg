SPECIFICATION Spec
CONSTANTS
  HeadCount = 2
  Late = 7
  MaxPushes = 2
  FetchWaits = 2
  SettleProbes = 2
  None = none
INVARIANTS
  KeyIsTheHeads
  ArmedIsMeasured
