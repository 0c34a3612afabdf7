SPECIFICATION WedgeSpec
CONSTANTS
    f1 = f1
    f2 = f2
    b1 = b1
    Foreground = {f1, f2}
    Background = {b1}
    ForegroundDepth = 1
    BackgroundDepth = 1
    MaxRequests = 3
INVARIANTS
    SharedMemorySound
PROPERTIES
    ImplementsCall
    ForegroundServedSoon
    EveryCallReturns
CHECK_DEADLOCK FALSE
