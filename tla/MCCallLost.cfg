CONSTANTS
    base = base
    mul = mul
    FuncIds <- OneFunction
    SigOf <- OneSigOf
    BaseBodies <- OnlyBase
    Manifests <- MCModifyOne
    Bodies = {base, mul}
    Sigs = {s1}
    NativeFns = {native}
    kInvalidFuncId = kInvalidFuncId
    nullptr = nullptr
    kInvalidWrapperId = kInvalidWrapperId
    kMaxWrappers = 1
    MaxPatches = 1
    Callers = {t1}
    CodeLen = 1
SPECIFICATION ConcurrentSpec
INVARIANT NoCallLostToPatch
