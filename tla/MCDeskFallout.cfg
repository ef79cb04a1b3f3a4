SPECIFICATION FairSpec
CONSTANTS
    h1 = h1
    h2 = h2
    lap = lap
    None = None
    Heads <- OneHead
    Others = {lap, pad, mon}
    Builtin = lap
    Native = None
    KeepModes = TRUE
    Fallen = small
    Chosen = {full}
    Layouts <- OneLayout
    SettleDelay = 1
    TopologySettle = 4
    MayFail = FALSE
    MaxEvents = 2
    Supervised = FALSE
    Attempts = 0
    StartTicks = 0
    Windows = FALSE
PROPERTIES
    FalloutIsPutBack
CHECK_DEADLOCK FALSE
