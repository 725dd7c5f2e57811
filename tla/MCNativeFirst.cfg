CONSTANTS
    base = base
    mul = mul
    FuncIds <- OneFunction
    SigOf <- OneSigOf
    BaseBodies <- NoBodies
    Manifests <- MCNativeFirst
    Bodies = {base, mul}
    Sigs = {s1}
    NativeFns = {native}
    kInvalidFuncId = kInvalidFuncId
    nullptr = nullptr
    kInvalidWrapperId = kInvalidWrapperId
    kMaxWrappers = 2
    MaxPatches = 1
SPECIFICATION Spec
INVARIANT RollbackFlipsBack
