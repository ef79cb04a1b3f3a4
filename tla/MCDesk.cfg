SPECIFICATION FairSpec
CONSTANTS
    h1 = h1
    h2 = h2
    lap = lap
    None = None
    Heads <- TwoHeads
    Others = {lap, pad}
    Builtin = lap
    Native = None
    KeepModes = TRUE
    Fallen = small
    Chosen = {full, scaled}
    Layouts <- MCLayouts
    SettleDelay = 1
    TopologySettle = 4
    MayFail = TRUE
    MaxEvents = 2
    Supervised = FALSE
    Attempts = 1
    StartTicks = 1
    Windows = FALSE
INVARIANTS
    NothingLeftBehind
PROPERTIES
    QuietSettleKeepsChoices
    HeadsComeApart
    SettlesDown
    KnownFalloutIsPutBack
CHECK_DEADLOCK FALSE
