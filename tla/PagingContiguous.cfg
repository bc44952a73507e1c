SPECIFICATION Spec
CONSTANTS
    ENTRIES = 16
    FRAMES = 16
    Taken <- Contiguous
    LowMemory <- MCLowMemory
    Pages <- MCPages
    Targets <- MCTargets
INVARIANT
    KernelMapped
