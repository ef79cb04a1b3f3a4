SPECIFICATION FairSpec
CONSTANTS
    HeadCount = 2
    Regions = {r}
    MaxRects = 2
    RectHeads = {0}
INVARIANTS
    RectsCoverChanges
    NothingFreedInUse
PROPERTIES
    FramesAreTaken
    FailureReleases
