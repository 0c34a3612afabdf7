SPECIFICATION FairSpec
CONSTANTS
    Absent = Absent
    Capacity = 2
    AckThreshold = 2
    RejectedCapacity = 2
    MaxCrashes = 1
    MaxIoErrors = 1
    MaxTornAppends = 0
    MaxFaults = 1
    MaxIds = 2
    MaxSessions = 1
PROPERTIES
    ImplementsLog
    EveryObservationResolved
