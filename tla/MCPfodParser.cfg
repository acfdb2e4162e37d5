SPECIFICATION ParserSpec

CONSTANTS
    Chars = {"a", "b"}
    Version <- MCVersion
    pfodMaxMsgLen = 7

INVARIANTS
    ParserTypeOK
    RoundTrip

PROPERTIES
    ResyncsAtEnd
