SPECIFICATION Spec
CONSTANTS
    MinCapacity = 2
    NoKey = NoKey
    NullValue = "null"
    TrueValue = "true"
    Content <- Texts
    HashOf <- Hashes
    Name <- Names2
    Value = {"null", "v"}
INVARIANTS
    OneObjectPerContent
    BlocksAreStrings
PROPERTIES
    ImplementsNames
CHECK_DEADLOCK FALSE
