SPECIFICATION Spec
CONSTANTS
    InitialSize = 6
    Growth = 2
    MinCapacity = 4
    NoKey = NoKey
    NullValue = NullValue
    TrueValue = TrueValue
    Content <- Texts
    HashOf <- Hashes
    MaxCode = 10
    MaxData = 12
    MaxScopes = 2
INVARIANTS
    WritesInBlockUnlessMoved
    LiteralsReadable
    JumpsReadBack
CHECK_DEADLOCK FALSE
