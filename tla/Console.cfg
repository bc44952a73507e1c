SPECIFICATION MCSpec
CONSTANTS
    VGA_WIDTH = 3
    VGA_HEIGHT = 3
    TAB = 2
    WORD = 1024
    Addr <- MCAddr
    Byte <- MCByte
    Screens <- MCScreens
    Calls <- MCCalls
    MaxLines = 4
INVARIANTS
    TypeOK
    ShowsLastLines
    NumbersReadBack
    CopiesExactly
    ComparesText
    SplitsPath
