SPECIFICATION Spec
CONSTANTS
    a = a
    b = b
    off = off
    dim = dim
    none = none
    cal1 = cal1
    Rows = 3
    Cols = 1
    MacroStrips = 2
    Repeats = 3
    SweepPeriod = 3
    Content = {a, b}
    Tones = {none}
    NeutralTone = none
    Cals = {off}
    NoCal = off
    DockBuffers = 2
    SeqModulus = 2
    Black = Black
    None = None
SYMMETRY Symmetry
CONSTRAINT AgeBound
INVARIANTS
    PaidStripIsOnEveryBuffer
    StripsReadBack
    EveryStripFits
PROPERTIES
    ImplementsPanel
