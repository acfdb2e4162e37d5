SPECIFICATION Spec

CONSTANTS
    p = p
    q = q
    NoPhone = NoPhone
    Phones = {p, q}
    MaxKnown = 2
    Modulus = 5
    Numbers <- MCNumbers
    MaxCommands = 1
    MaxParts = 2

CHECK_DEADLOCK FALSE

INVARIANTS
    TypeOK
    TopIsCurrent
    ResponseIsTaken

PROPERTIES
    RunsOnceInOrder
