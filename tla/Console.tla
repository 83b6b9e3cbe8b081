------------------------------ MODULE Console ------------------------------
(***************************************************************************)
(* The text console (kernel/src/driver/vga.c).                             *)
(*                                                                         *)
(* The cursor is kept by the video hardware in two byte registers behind   *)
(* one index and one data port.  kputchar is a list of accesses to them    *)
(* and to the text memory, and an interrupt that prints may strike between *)
(* any two.  TEXT_AREA outside the window is not kept.  Colours are left   *)
(* out.                                                                    *)
(*                                                                         *)
(* Operators named for what they get wrong are faulty variants of the      *)
(* definition after them.                                                  *)
(***************************************************************************)
EXTENDS Integers, Sequences, SequencesExt

CONSTANTS
    VGA_WIDTH, VGA_HEIGHT,   \* columns and rows of the window (80, 25)
    Byte,           \* values of a register (256)
    Chars,          \* printable characters, other than Space
    MaxChars,       \* bound: characters printed by the kernel
    MaxInterrupts   \* bound: characters printed by interrupts inside a call

Space == " "
Newline == "\n"
CarriageReturn == "\r"
Tab == "\t"

VGA_EXTENT == VGA_WIDTH * VGA_HEIGHT
Positions == 0 .. (VGA_EXTENT - 1)

ASSUME ConsoleAssumption ==
    /\ VGA_WIDTH \in Nat \ {0} /\ VGA_HEIGHT \in Nat \ {0} /\ Byte \in Nat \ {0}
    /\ VGA_EXTENT < Byte * Byte /\ VGA_HEIGHT + 1 < Byte
    /\ Chars \cap {Space, Newline, CarriageReturn, Tab} = {}
    /\ MaxChars \in Nat /\ MaxInterrupts \in Nat

VARIABLES
    cells,      \* TEXT_AREA inside the window
    cursor,     \* the registers "low" (0x0F) and "high" (0x0E)
    index,      \* register selected through CURSOR_PORT_COMMAND
    calls,      \* kputchar calls, an interrupt's on top of the kernel's
    printed, interrupts,   \* characters so far, only to bound them
    terminal,   \* history: what a terminal would show, [lines, column]
    followed    \* history: nothing happened yet that the console gets wrong

consoleVars == <<cells, cursor, index, calls, printed, interrupts, terminal, followed>>

CursorAt(regs) == regs["high"] * Byte + regs["low"]
BlankLine == [column \in 0 .. (VGA_WIDTH - 1) |-> Space]

(* kernel_main: set_cursor_pos(0, 0) and clearwin *)
ConsoleInit ==
    /\ cells = [p \in Positions |-> Space]
    /\ cursor = [r \in {"low", "high"} |-> 0]
    /\ index = "high"
    /\ calls = <<>>
    /\ printed = 0 /\ interrupts = 0
    /\ terminal = [lines |-> <<BlankLine>>, column |-> 0]
    /\ followed = TRUE

-----------------------------------------------------------------------------
(***************************************************************************)
(* The steps of kputchar.                                                  *)
(***************************************************************************)

Op(op, arg) == [op |-> op, arg |-> arg]

get_cursor_pos ==
    <<Op("select", "low"), Op("in", "low"), Op("select", "high"), Op("in", "high")>>

ByteOf(register, pos) == (IF register = "low" THEN pos ELSE pos \div Byte) % Byte

OutPos(pos) ==
    <<Op("select", "low"), Op("out", ByteOf("low", pos)),
      Op("select", "high"), Op("out", ByteOf("high", pos))>>

set_cursor_pos(x, y) ==
    LET pos == x + VGA_WIDTH * y
    IN  OutPos(IF pos >= VGA_EXTENT THEN VGA_EXTENT - 1 ELSE pos)

scroll_line == <<Op("scroll", "")>> \o set_cursor_pos(0, VGA_HEIGHT - 1)

advance_cursor == get_cursor_pos \o <<Op("advance", "")>>

PutChar(c) == get_cursor_pos \o <<Op("put", c)>> \o advance_cursor

(***************************************************************************)
(* kputchar.  Before a tab the code also reads the cursor, into a variable *)
(* this branch does not use: those accesses are left out.                  *)
(***************************************************************************)
Accesses(c) ==
    CASE c = Newline -> get_cursor_pos \o <<Op("newline", "")>>
      [] c = CarriageReturn -> get_cursor_pos \o <<Op("return", "")>>
      [] c = Tab -> PutChar(Space) \o PutChar(Space) \o PutChar(Space) \o PutChar(Space)
                        \o advance_cursor
      [] OTHER -> PutChar(c)

Row(pos) == (pos \div VGA_WIDTH) % Byte

RowUnchecked(pos) == set_cursor_pos(0, (Row(pos) + 1) % Byte)

(* Where '\n' goes: the row is a byte too. *)
NextRow(pos) ==
    LET row == (Row(pos) + 1) % Byte
    IN  IF row >= VGA_HEIGHT THEN scroll_line ELSE set_cursor_pos(0, row)

(* advance_cursor writes the advanced position after a scroll as well. *)
Advanced(pos) ==
    (IF pos >= VGA_EXTENT THEN scroll_line ELSE <<>>) \o OutPos(pos)

-----------------------------------------------------------------------------
(***************************************************************************)
(* A reference terminal: lines of text, of which the last ones are shown.  *)
(***************************************************************************)

NewLine(t) ==
    LET longer == Append(t.lines, BlankLine)
    IN  [lines |-> IF Len(longer) > VGA_HEIGHT THEN Tail(longer) ELSE longer, column |-> 0]

Move(t) ==
    IF t.column + 1 = VGA_WIDTH THEN NewLine(t) ELSE [t EXCEPT !.column = @ + 1]

Type(t, c) == Move([t EXCEPT !.lines[Len(t.lines)][t.column] = c])

Shown(t, c) ==
    CASE c = Newline -> NewLine(t)
      [] c = CarriageReturn -> [t EXCEPT !.column = 0]
      [] c = Tab -> Move(Type(Type(Type(Type(t, Space), Space), Space), Space))
      [] OTHER -> Type(t, c)

-----------------------------------------------------------------------------
(***************************************************************************)
(* Actions.  A call is [char, todo, pos, whole]: the accesses left, the    *)
(* position read, and whether no interrupt struck since it began.          *)
(***************************************************************************)

NewCall(c) == [char |-> c, todo |-> Accesses(c), pos |-> 0, whole |-> TRUE]

(* The kernel prints a character: kputstr or printk. *)
Kputchar(c) ==
    /\ calls = <<>>
    /\ printed < MaxChars
    /\ printed' = printed + 1
    /\ calls' = <<NewCall(c)>>
    /\ terminal' = Shown(terminal, c)
    /\ UNCHANGED <<cells, cursor, index, interrupts, followed>>

(* An interrupt strikes inside kputchar and prints a character. *)
InterruptPrints(c) ==
    /\ Len(calls) = 1
    /\ calls[1].todo # <<>>
    /\ interrupts < MaxInterrupts
    /\ interrupts' = interrupts + 1
    /\ calls' = <<[calls[1] EXCEPT !.whole = FALSE], NewCall(c)>>
    /\ followed' = FALSE
    /\ UNCHANGED <<cells, cursor, index, printed, terminal>>

Call == Last(calls)
Access == Head(Call.todo)

(* The access done, the call goes on with position pos and the accesses in more. *)
Continue(op, pos, more) ==
    /\ calls # <<>>
    /\ Call.todo # <<>>
    /\ Access.op = op
    /\ calls' = [calls EXCEPT ![Len(calls)].todo = more \o Tail(@),
                              ![Len(calls)].pos = pos]
    /\ UNCHANGED <<printed, interrupts, terminal>>

Select ==
    /\ Continue("select", Call.pos, <<>>)
    /\ index' = Access.arg
    /\ UNCHANGED <<cells, cursor, followed>>

(* The byte is of the register selected, the caller takes it for its own. *)
In ==
    /\ Continue("in", IF Access.arg = "low" THEN cursor[index]
                      ELSE Call.pos + cursor[index] * Byte, <<>>)
    /\ UNCHANGED <<cells, cursor, index, followed>>

Out ==
    /\ Continue("out", Call.pos, <<>>)
    /\ cursor' = [cursor EXCEPT ![index] = Access.arg]
    /\ UNCHANGED <<cells, index, followed>>

(* Past the window the console and a terminal part. *)
Put ==
    /\ Continue("put", Call.pos, <<>>)
    /\ cells' = IF Call.pos < VGA_EXTENT THEN [cells EXCEPT ![Call.pos] = Access.arg]
                ELSE cells
    /\ followed' = (followed /\ Call.pos < VGA_EXTENT)
    /\ UNCHANGED <<cursor, index>>

Advance ==
    /\ Continue("advance", Call.pos, Advanced((Call.pos + 1) % (Byte * Byte)))
    /\ followed' = (followed /\ Call.pos < VGA_EXTENT)
    /\ UNCHANGED <<cells, cursor, index>>

Return ==
    /\ Continue("return", Call.pos, set_cursor_pos(0, Row(Call.pos)))
    /\ followed' = (followed /\ Call.pos < VGA_EXTENT)
    /\ UNCHANGED <<cells, cursor, index>>

GoToNextRow ==
    /\ Continue("newline", Call.pos, NextRow(Call.pos))
    /\ UNCHANGED <<cells, cursor, index, followed>>

LastRowKept(p) == IF p + VGA_WIDTH < VGA_EXTENT THEN cells[p + VGA_WIDTH] ELSE cells[p]

Scrolled(p) == IF p + VGA_WIDTH < VGA_EXTENT THEN cells[p + VGA_WIDTH] ELSE Space

Scroll ==
    /\ Continue("scroll", Call.pos, <<>>)
    /\ cells' = [p \in Positions |-> Scrolled(p)]
    /\ UNCHANGED <<cursor, index, followed>>

Finish ==
    /\ calls # <<>>
    /\ Call.todo = <<>>
    /\ calls' = Front(calls)
    /\ UNCHANGED <<cells, cursor, index, printed, interrupts, terminal, followed>>

AllChars == Chars \cup {Newline, CarriageReturn, Tab}

ConsoleNext ==
    \/ \E c \in AllChars : Kputchar(c) \/ InterruptPrints(c)
    \/ Select \/ In \/ Out \/ Put \/ Advance \/ Return \/ GoToNextRow \/ Scroll
    \/ Finish

-----------------------------------------------------------------------------

(* Type correctness of the console: the registers hold a byte each. *)
ConsoleTypeOK ==
    /\ cells \in [Positions -> Chars \cup {Space}]
    /\ cursor \in [{"low", "high"} -> 0 .. (Byte - 1)]
    /\ index \in {"low", "high"}
    /\ Len(calls) <= 2
    /\ \A i \in DOMAIN calls : calls[i].pos \in 0 .. (Byte * Byte - 1)

Window(t) ==
    [p \in Positions |->
        LET row == p \div VGA_WIDTH
        IN  IF row < Len(t.lines) THEN t.lines[row + 1][p % VGA_WIDTH] ELSE Space]

(***************************************************************************)
(* Between calls the window shows what a terminal shows that wraps and     *)
(* scrolls, through newlines, returns and tabs, until an interrupt prints  *)
(* inside a call or a character other than '\n' follows one in the last    *)
(* cell: advance_cursor scrolls and leaves the cursor past the window.     *)
(***************************************************************************)
ShowsText == followed /\ calls = <<>> => cells = Window(terminal)

(***************************************************************************)
(* A newline that no interrupt struck leaves the cursor at the start of a  *)
(* row of the window, wherever it was: past the window after a full one,   *)
(* or anywhere after an interrupt broke up a register access.              *)
(***************************************************************************)
NewlineRecovers ==
    [][(Finish /\ Call.char = Newline /\ Call.whole) =>
            CursorAt(cursor) \in {VGA_WIDTH * row : row \in 0 .. (VGA_HEIGHT - 1)}]_consoleVars

=============================================================================
