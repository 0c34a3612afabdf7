SPECIFICATION OwnersSpec
CONSTANTS
    t1 = t1
    t2 = t2
    t3 = t3
    c1 = c1
    c2 = c2
    w1 = w1
    Tasks = {t1, t2, t3}
    Blockers = {kStorage, kAudio}
    Slots = {1, 2}
    Modulus = 3
    Frames = {"a", "b"}
    PartialLimit = 3
    HeavyLimit = 2
    CleanupHeavy = 1
    MaxFailures = 2
    MaxBoots = 2
    MaxClaims = 2
    Pages = 2
    ControlFaults = 1
    ControlBoots = 1
    AudioClients = {c1, c2}
    Workers = {w1}
    AudioSlots = {1}
    ReplyDepth = 2
    MaxRequests = 4
    MaxGeneration = 1
    AudioFailures = 1
    NetQueueDepth = 2
    NetReplyDepth = 2
    RetryLimit = 2
    MaxEvents = 1
    MaxNetRequests = 2
    MaxSleeps = 2
    MaxNetFailures = 1
    MaxGestures = 2
    MaxBlocks = 1
    MaxFlashFaults = 2
INVARIANTS
    RegistrySound
    PmLockBalanced
    IdleQuiesceExcludesWork
    PanelKnown
    ResourcesSound
    ClientsServed
    ConnectivitySound
    ControlSound
    FlashSound
PROPERTIES
    ImplementsGate
    NoWindowAfterFullFrame
CHECK_DEADLOCK FALSE
