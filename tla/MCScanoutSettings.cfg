SPECIFICATION FairSpec
CONSTANTS
    a = a
    b = b
    off = off
    dim = dim
    none = none
    cal1 = cal1
    Rows = 2
    Cols = 1
    MacroStrips = 1
    Repeats = 3
    SweepPeriod = 1
    Content = {a, b}
    Tones = {none, dim}
    NeutralTone = none
    Cals = {off, cal1}
    NoCal = off
    DockBuffers = 2
    SeqModulus = 2
    Black = Black
    None = None

CONSTRAINT AgeBound
INVARIANTS
    NoPatchwork
PROPERTIES
    DebtDrains
    SettingsReachPanel
