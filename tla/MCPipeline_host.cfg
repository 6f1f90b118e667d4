CONSTANTS
    Programs = {}
    Sources <- AskSources
    MaxSize = 6
    MaxCalls = 2
    U8 = 256
    U32 = 65536
    ByteValues = 256
    MaxDepth = 40
    NumberBound = 9
    HostNatives = {"write", "prompt"}
    Entries = {"ask", "pair", "size", "ghost"}
    Indeterminate <- Garbage
    NullValue <- Null
    HostValues <- MCHostValues
SPECIFICATION FairSpec
INVARIANTS
    UnknownFunctionFails
PROPERTIES
    ArgumentsReachEntry
    AskWritesAnswers
