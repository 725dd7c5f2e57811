\* Calls through stubs on x86_64.
CONSTANTS
    WordBits = 8
    kMaxRegisters = 40
    MaxDepth = 8
    Blocks <- MCBlocks
    Objects <- MCObjects
    Natives <- MCNatives
    NativeOf <- MCNativeOf
    Arch = "x86_64"
    kStubs = 32
    Stale = 170
    Fuel = 7
    Units <- NoUnits
    Modules <- NativeOnly
    Arguments <- MCArguments
SPECIFICATION Spec
CHECK_DEADLOCK FALSE
INVARIANT StubsEnter
