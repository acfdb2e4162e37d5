SPECIFICATION FairSpec

CONSTANTS
    Texts = {"home"}
    Ports = {0, 1, 5}
    PortSize = 4
    AccessPointTime = 2

INVARIANTS
    TypeOK
    JoinsAsPromised

PROPERTIES
    OneForm
    TriesToJoin
