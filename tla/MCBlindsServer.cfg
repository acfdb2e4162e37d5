SPECIFICATION FairSpec

CONSTANTS
    c1 = c1
    c2 = c2
    Clients = {c1, c2}
    NoClient = NoClient
    Letters = {"P", "$", "!", "_"}
    IdleTimeOut = 2
    RunTime = 1
    MaxInbox = 1

INVARIANTS
    TypeOK
    EnergisedByHeldCommand
    ArmedIsTimed
    RunKeepsClient
    ParserForgets

PROPERTIES
    ImplementsTwoPhaseCommand
    HeldIsSettled
    NextIsServed
