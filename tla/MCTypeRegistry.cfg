CONSTANTS
    Names = {"A", "B", "C"}
    area = area
    width = width
    Members = {area, width}
    Offsets = {0, 1, 4, 8}
    TypeModules <- MCTypeModules
    OwnTypes <- MCOwnTypes
    kInvalidTypeId = 1048576
    MaxTypes = 4
SPECIFICATION Spec
INVARIANT RegistryTypeOK
INVARIANT RegistryInv
INVARIANT AnswerIsRight
INVARIANT NamesResolve
PROPERTY OwnTakesNoPlace
PROPERTY LookupsClimb
PROPERTY LookupsEnd
