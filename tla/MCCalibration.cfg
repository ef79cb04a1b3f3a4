SPECIFICATION FairSpec
CONSTANTS
    Pages = {safari, reloaded}
    Patches = 2
    MaxSittings = 2
    MaxTheirs = 2
INVARIANTS
    ReadingsAreOfTheirPatch
PROPERTIES
    SittingEnds
    StoredByWhomItIsDue
CHECK_DEADLOCK FALSE
