SPECIFICATION ProcessSpec
CONSTANTS
    ENTRIES = 12
    FRAMES = 12
    Taken <- Reserved
    LowMemory <- MCLowMemory
    Pages <- NoPages
    Targets <- NoTargets
INVARIANTS
    FramesAccounted
    LoadedExactly
PROPERTY
    ImplementsAddressSpaces
