CONSTANTS
    Programs = {}
    Sources <- CountedSources
    MaxSize = 16
    MaxCalls = 4
    U8 = 256
    U32 = 65536
    ByteValues = 256
    MaxDepth = 40
    NumberBound = 80
    HostNatives = {}
    HostValues = {}
    Entries = {"main"}
    Indeterminate <- Garbage
    NullValue <- Null
SPECIFICATION FairSpec
INVARIANTS
    StackDiscipline
    FullyAccounted
    NoDanglingUpvalue
    NoInternalError
    ReturnsResult
PROPERTIES
    EntryReturns
