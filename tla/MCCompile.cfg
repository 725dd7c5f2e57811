\* Compilation and execution, on arm64: the entry of the x86_64 adapter faults.
CONSTANTS
    WordBits = 8
    kMaxRegisters = 40
    MaxDepth = 8
    Blocks <- MCBlocks
    Objects <- MCObjects
    Natives <- MCNatives
    NativeOf <- MCNativeOf
    Arch = "arm64"
    kStubs = 32
    Stale = 170
    Fuel = 7
    Units <- AllUnits
    Modules <- HandBuilt
    Arguments <- MCArguments
SPECIFICATION Spec
CHECK_DEADLOCK FALSE
INVARIANT ToolchainTypeOK
INVARIANT ResultIsMeaning
INVARIANT ArgumentsArrive
INVARIANT ResultArrives
INVARIANT JumpsLand
INVARIANT HostInv
PROPERTY CallsEnd
PROPERTY HostSpec
