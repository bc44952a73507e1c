\* A regular file of the RAM file system, against what a file promises.
CONSTANTS
    WORD = 16
    RAMFS_MAX_FILE_SIZE = 5
    Byte <- MCByte
    Offsets <- MCOffsets
    Buffers <- MCBuffers
SPECIFICATION RamFileSpec
INVARIANT RefusedOnlyTooLarge
PROPERTY ImplementsFile
