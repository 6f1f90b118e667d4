SPECIFICATION Spec
CONSTANTS
    MinCapacity = 4
    MaxCapacity = 8
    NoKey = NoKey
    NullValue = "null"
    TrueValue = "true"
    Key <- Keys
    Value = {"null", "v"}
INVARIANTS
    SearchesEnd
    SizeCountsUsed
PROPERTIES
    ImplementsMap
CHECK_DEADLOCK FALSE
