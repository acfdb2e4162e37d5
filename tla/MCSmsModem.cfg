SPECIFICATION FairSpec

CONSTANTS
    Slots = {1, 2, 3}
    MaxQueue = 2
    MaxArrivals = 4
    MaxParts = 2

CHECK_DEADLOCK FALSE

INVARIANTS
    TypeOK
    InStep
    RequestIsAnswered

PROPERTIES
    DataLeaves
