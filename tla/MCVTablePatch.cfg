CONSTANTS
    Slots <- MCSlots
    FnsFor <- MCFnsFor
    OriginalFn <- MCOriginalFn
    MaxEntries = 3
SPECIFICATION VTableSpec
INVARIANT OwnFunction
PROPERTY CarefulUseKeeps
