SPECIFICATION Spec
CONSTANTS
    StartupSeconds = 5
    HeartbeatSeconds = 3
    StopSeconds = 2
    StallSeconds = 1
    StableSeconds = 3
    MaxBackoff = 4
    MaxFailures = 3
    AllowDisplayLink = TRUE
    KillGrace = 4
    Slots = 1
    MaxCrashes = 0
    MaxAge = 8
PROPERTIES
    StoppedIsRestored
