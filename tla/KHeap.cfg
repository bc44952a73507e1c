\* The kernel heap under every sequence of calls.
CONSTANTS
    WORD = 256
    KHEAP_SIZE = 120
    Sizes <- MCSizes
    Alignments <- MCAlignments
SPECIFICATION Spec
INVARIANTS
    Tiling LiveBlocks RequestsFit FailsOnlyWhenFull
    AllReturned
