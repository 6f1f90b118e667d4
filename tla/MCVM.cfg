CONSTANTS
    Programs = {}
    MaxSize = 6
    MaxCalls = 3
    U8 = 8
    U32 = 64
    NumberBound = 3
    Indeterminate <- Garbage
    NullValue <- Null
    HostNatives = {}
    HostValues = {}
    Entries = {"main"}
SPECIFICATION MCSpec
INVARIANTS
    TypeOK
    LocalsInBlock
    OpenListExact
PROPERTIES
    ReturnClosesFrame
    ExitIsFinal
