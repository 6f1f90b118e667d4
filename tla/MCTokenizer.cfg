SPECIFICATION Spec
CONSTANTS
    Texts <- AllTexts
    Beyonds = {"'", "?"}
    Letters = {"i", "f"}
    Digits = {"1"}
    Keywords <- Words
    MaxIdLength = 3
    LineValues = 3
INVARIANTS
    TextIsSplit
    LinesCounted
    EscapesRemoved
    LooksNoFurther
PROPERTIES
    EndIsReached
CHECK_DEADLOCK FALSE
