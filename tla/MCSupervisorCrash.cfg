SPECIFICATION FairSpec
CONSTANTS
    StartupSeconds = 2
    HeartbeatSeconds = 2
    StopSeconds = 1
    StallSeconds = 1
    StableSeconds = 1
    MaxBackoff = 1
    MaxFailures = 1
    AllowDisplayLink = FALSE
    KillGrace = 3
    Slots = 2
    MaxCrashes = 1
    MaxAge = 1
PROPERTIES
    OrphansLeave
