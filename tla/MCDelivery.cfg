CONSTANTS
    Compiled <- All
    Exported = {1}
    Started = {1}
    Asked <- MCAsked
    FuncIds <- MCFuncIds
    Bodies <- MCBodies
    Sigs <- MCSigs
    SigOf <- MCSigOf
    BaseBodies = {}
    Manifests <- MCManifests
    NativeFns = {native}
    kInvalidFuncId = kInvalidFuncId
    nullptr = nullptr
    kInvalidWrapperId = kInvalidWrapperId
    kMaxWrappers = 2
    MaxPatches = 2
SPECIFICATION DeliverySpec
INVARIANT RunsExpectedVersion
INVARIANT SignatureInStep
INVARIANT DeliveryInv
INVARIANT VersionInv
