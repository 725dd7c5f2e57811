CONSTANTS
    base = base
    mul = mul
    FuncIds <- TwoFunctions
    SigOf <- OneSigOf
    BaseBodies <- OnlyBase
    Manifests <- MCModified
    Bodies = {base, mul}
    Sigs = {s1}
    NativeFns = {native}
    kInvalidFuncId = kInvalidFuncId
    nullptr = nullptr
    kInvalidWrapperId = kInvalidWrapperId
    kMaxWrappers = 2
    MaxPatches = 2
    Callers = {t1}
    CodeLen = 2
SPECIFICATION ConcurrentSpec
INVARIANT NeverNotFound
INVARIANT RunsItsFunction
INVARIANT ConcurrentInv
PROPERTY CallsReturn
