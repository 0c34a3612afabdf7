SPECIFICATION FairSpec
CONSTANTS
    Lanes <- UploadOrder
    Sequenced = {"word"}
    BatchSize = 1
    MaxRecords = 2
    MaxEvents = 1
INVARIANTS
    RoundsSound
PROPERTIES
    HeadsMove
CHECK_DEADLOCK FALSE
