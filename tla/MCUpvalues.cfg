CONSTANTS
    MaxSize = 3
    MaxUpvalues = 3
    Value = {v1, v2, null}
    NullValue = null
    Indeterminate = indeterminate
SPECIFICATION Spec
INVARIANTS
    TypeOK
    OpenListSorted
    OpenListComplete
    NoDanglingUpvalue
PROPERTIES
    ImplementsBoxes
