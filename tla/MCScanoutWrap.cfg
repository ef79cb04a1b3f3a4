SPECIFICATION Spec
CONSTANTS
    a = a
    b = b
    off = off
    dim = dim
    none = none
    cal1 = cal1
    Rows = 1
    Cols = 1
    MacroStrips = 1
    Repeats = 3
    SweepPeriod = 2
    Content = {a, b}
    Tones = {none}
    NeutralTone = none
    Cals = {off}
    NoCal = off
    DockBuffers = 3
    SeqModulus = 4
    Black = Black
    None = None
CONSTRAINT AgeBound
PROPERTY KeyframeReachesEveryBuffer
