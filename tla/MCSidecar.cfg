SPECIFICATION SidecarSpec
CONSTANTS
    Ladder = 5
    MaxEvents = 16
    MaxCalls = 3
INVARIANTS
    NothingForgotten
    DisconnectIsRespected
CHECK_DEADLOCK FALSE
