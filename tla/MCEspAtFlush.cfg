SPECIFICATION Spec
CONSTANTS
    Clients = {a}
    None = None
    Raw = Raw
    Other = Other
    MaxParts = 2
    Sizes = {2}
    MaxLines = 3
    MaxFaults = 0
    Patient = FALSE
PROPERTY
    ResponseIsKept
