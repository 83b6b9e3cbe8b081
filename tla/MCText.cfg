SPECIFICATION Spec
CONSTANTS
    VGA_WIDTH = 3
    VGA_HEIGHT = 2
    Byte = 4
    Chars = {"a"}
    MaxChars = 5
    MaxInterrupts = 1
    Numbers = {0, 1, 12, 20, 21, 24, 99, 100, 236, 300}
    DigitCounts = {2}
INVARIANTS
    TypeOK
    ShowsText
    BufferFits
    Formatted
PROPERTIES
    NewlineRecovers
CHECK_DEADLOCK FALSE
