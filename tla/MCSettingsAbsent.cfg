SPECIFICATION FairSpec
CONSTANTS
    slider = slider
    toggle = toggle
    None = None
    Keys = {slider, toggle}
    Sliders = {slider}
    Values = {1, 2}
    Default = 1
    Invalid = invalid
    Foreign <- MCForeign
    Threads = {control}
    MaxEdits = 2
    MaxOutside = 1
    MaxLag = 1
PROPERTIES
    WorkerAlwaysCatchesUp
CHECK_DEADLOCK FALSE
