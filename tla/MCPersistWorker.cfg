SPECIFICATION FairSpec
CONSTANTS
    word = word
    note = note
    Kinds = {word, note}
    PoolDepth = 2
    MaxOps = 3
    MaxResets = 1
INVARIANTS
    PoolSound
PROPERTIES
    PageShownItsOwnOutcome
    ImplementsOperation
    EveryOperationSettled
CHECK_DEADLOCK FALSE
