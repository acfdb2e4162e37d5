SPECIFICATION FairSpec

CONSTANTS
    Slots = {1, 2}
    MaxQueue = 2
    MaxArrivals = 3
    MaxParts = 1

CHECK_DEADLOCK FALSE

PROPERTY AllOfResponseSent
