SPECIFICATION BoundedSpec
CONSTANTS
    confirm = confirm
    Keys = {confirm}
    WakeKeys = {confirm}
    RingCapacity = 1
    MaxActivity = 2
    MaxGeneration = 2
INVARIANTS
    NoInputLostToIdleSleep
    IdleSleepFullyPrepared
    TransactionSound
