CONSTANTS
    base = base
    mul = mul
    sub = sub
    two_args = two_args
    one_arg = one_arg
    FuncIds <- MCFuncIds
    SigOf <- MCSigOf
    BaseBodies <- MCBaseBodies
    Manifests <- MCManifests
    Bodies = {base, mul, sub}
    Sigs = {two_args, one_arg}
    NativeFns = {native}
    kInvalidFuncId = kInvalidFuncId
    nullptr = nullptr
    kInvalidWrapperId = kInvalidWrapperId
    kMaxWrappers = 2
    MaxPatches = 2
SPECIFICATION CarefulSpec
INVARIANT BoundToItsFunction
INVARIANT UnpatchedIsOriginal
INVARIANT CarefulInv
PROPERTY ImplementsUndoStack
