SPECIFICATION FairSpec

CONSTANTS
    Commands = {"c"}
    ByteSize = 2
    CounterSize = 2
    AuthTimeOut = 1
    IdleTimeOut = 1
    MaxCommands = 2
    MaxOutput = 1
    MaxTokens = 2

INVARIANTS
    TypeOK
    SessionIsTimed
    NothingCarriedOver
    HonestHashMatches

PROPERTIES
    CommandsRunInOrder
    ChallengeIsFresh
    WaitingEnds
