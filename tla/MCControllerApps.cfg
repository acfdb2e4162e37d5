SPECIFICATION Spec
CONSTANTS
    Blinds = {a, b}
    None = None
    Commands = {"P"}
    SamePort = TRUE
    MaxSockets = 2
    MaxSent = 1
    MaxTasks = 2
INVARIANTS
    TypeOK
    LastTapWins
PROPERTY
    ImplementsTwoPhaseCommand
