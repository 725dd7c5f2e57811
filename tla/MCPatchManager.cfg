CONSTANTS
    base = base
    patched = patched
    FuncIds <- MCFuncIds
    SigOf <- MCSigOf
    BaseBodies <- MCBaseBodies
    Manifests <- MCManifests
    Bodies = {base, patched}
    Sigs = {s1}
    NativeFns = {native}
    kInvalidFuncId = kInvalidFuncId
    nullptr = nullptr
    kInvalidWrapperId = kInvalidWrapperId
    kMaxWrappers = 2
    MaxPatches = 2
SPECIFICATION Spec
INVARIANT TypeOK
INVARIANT VersionIsDepth
INVARIANT DispatchSound
INVARIANT VmBindRecoverable
INVARIANT NoCallDropped
PROPERTY RecoverableGrows
INVARIANT IInv
