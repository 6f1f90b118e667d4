CONSTANTS
    Phrases <- ForgottenPhrases
    MaxPhrases = 3
    ByteValues = 256
    MaxDepth = 15
    NumberBound = 9
SPECIFICATION Spec
INVARIANTS
    RecoveryIsUsed
CHECK_DEADLOCK FALSE
