SPECIFICATION FairSpec
CONSTANTS
    Clients = {a}
    None = None
    Raw = Raw
    Other = Other
    MaxParts = 2
    Sizes = {2}
    MaxLines = 3
    MaxFaults = 1
    Patient = TRUE
INVARIANTS
    TypeOK
    TextAtPrompt
    PartsInOrder
PROPERTY
    GoneClientIsForgotten
