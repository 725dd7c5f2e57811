\* A loop with an increment.
CONSTANTS
    WordBits = 8
    kMaxRegisters = 40
    MaxDepth = 8
    Blocks <- MCBlocks
    Objects <- MCObjects
    Natives <- MCNatives
    NativeOf <- MCNativeOf
    Arch = "arm64"
    kStubs = 32
    Stale = 170
    Fuel = 7
    Units <- ForUnits
    Modules <- NoModules
    Arguments <- MCArguments
SPECIFICATION Spec
CHECK_DEADLOCK FALSE
PROPERTY ForLoopsEnd
