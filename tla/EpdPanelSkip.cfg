\* One cleanup that fails, and a deep sleep.
SPECIFICATION PanelSpec
CONSTANTS
    Frames = {"a", "b"}
    PartialLimit = 3
    HeavyLimit = 2
    CleanupHeavy = 1
    MaxFailures = 2
    MaxBoots = 2
INVARIANT SkipMeansShown
CHECK_DEADLOCK FALSE
