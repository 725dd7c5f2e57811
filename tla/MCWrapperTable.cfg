CONSTANTS
    FuncIds <- MCFuncIds
    SigOf <- MCSigOf
    Bodies = {b1}
    Sigs = {s1}
    NativeFns = {}
    kInvalidFuncId = kInvalidFuncId
    nullptr = nullptr
    kInvalidWrapperId = kInvalidWrapperId
    kMaxWrappers = 3
SPECIFICATION ClientSpec
INVARIANT ClientTypeOK
INVARIANT CountIsExact
PROPERTY NoImmediateReuse
PROPERTY ImplementsPool
