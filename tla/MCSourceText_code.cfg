CONSTANTS
    Phrases <- ConstructPhrases
    MaxPhrases = 5
    ByteValues = 256
    MaxDepth = 40
    NumberBound = 9
SPECIFICATION Spec
INVARIANTS
    JumpsLand
    UpvaluesResolved
    AcceptedIsBalanced
    ListsInstructions
CHECK_DEADLOCK FALSE
