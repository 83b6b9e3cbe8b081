SPECIFICATION Spec
CONSTANTS
    VGA_WIDTH = 3
    VGA_HEIGHT = 2
    Byte = 4
    Chars = {"a"}
    MaxChars = 5
    MaxInterrupts = 1
    Numbers = {0, 100, 999}
    DigitCounts = {2}
INVARIANT ThreeDigitsKept
CHECK_DEADLOCK FALSE
