SPECIFICATION PagesSpec
CONSTANTS
    Absent = Absent
    Nil = Nil
    Capacity = 2
    AckThreshold = 2
    RejectedCapacity = 2
    MaxCrashes = 1
    MaxIoErrors = 1
    MaxTornAppends = 0
    MaxFaults = 2
    MaxIds = 2
    MaxSessions = 2
    Domains = {"note", "problem"}
    LaneDepth = 2
    MaxCloudRequests = 3
    ListLength = 2
    OutboxCapacity = 2
    CompactThreshold = 2
    MaxNoteSessions = 2
    MaxOpens = 2
    MaxBoots = 1
    MaxAppendFaults = 1
    Sets = 2
    Problems = 2
    VerdictCapacity = 2
    MaxVerdicts = 3
    MaxOutboxFaults = 2
INVARIANTS
    StoreSound
    NoObservationLost
    SequencesSound
    RequestsAccounted
    NoteSessionSound
    VerdictsAccounted
CHECK_DEADLOCK FALSE
