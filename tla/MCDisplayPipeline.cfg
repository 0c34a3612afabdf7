SPECIFICATION EpdSpec
CONSTANTS
    f1 = f1
    f2 = f2
    Frames = {f1, f2}
    Depth = 3
    MaxRevision = 4
    MaxFailures = 1
    MaxSleeps = 1
    MaxRequests = 3
    MaxActivity = 6
INVARIANTS
    ChannelSound
    ReadyMeansServed
    LedgerSound
    SleepFindsNoFrame
    FailureOwesFullRefresh
PROPERTIES
    PipelineConverges
CHECK_DEADLOCK FALSE
