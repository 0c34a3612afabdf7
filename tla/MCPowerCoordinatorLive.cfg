SPECIFICATION BoundedFairSpec
CONSTANTS
    confirm = confirm
    Keys = {confirm}
    WakeKeys = {confirm}
    RingCapacity = 1
    MaxActivity = 2
    MaxGeneration = 1
PROPERTIES
    EmergencyShutsDown
    ServicesResume
