SPECIFICATION TornSpec
CONSTANTS
    Absent = Absent
    Capacity = 2
    AckThreshold = 2
    RejectedCapacity = 2
    MaxCrashes = 0
    MaxIoErrors = 0
    MaxTornAppends = 1
    MaxFaults = 1
    MaxIds = 2
    MaxSessions = 1
INVARIANT JournalReadable
