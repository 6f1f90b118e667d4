CONSTANTS
    Programs = {}
    Sources <- AllSources
    MaxSize = 16
    MaxCalls = 4
    U8 = 256
    U32 = 65536
    ByteValues = 256
    MaxDepth = 40
    NumberBound = 9
    HostNatives = {}
    HostValues = {}
    Entries = {"main"}
    Indeterminate <- Garbage
    NullValue <- Null
SPECIFICATION PipelineSpec
INVARIANTS
    FramesNested
    DefinedUntilReturn
PROPERTIES
    FrameIsolation
