------------------------------- MODULE Printk -------------------------------
(***************************************************************************)
(* Number conversions of printk (kernel/src/log.c) with the string helpers *)
(* they use (kernel/src/utility/strings.c) and their buffer from kmalloc.  *)
(*                                                                         *)
(* A conversion is as it is written in the format; a value is its sign and *)
(* its number of digits.  The text in the buffer is a sequence of classes  *)
(* of characters, DIGIT standing for any digit of a value other than 0.    *)
(* Where the text goes is putc's matter (Console).                         *)
(*                                                                         *)
(* Operators named for what they get wrong are faulty variants of the      *)
(* definition after them.                                                  *)
(***************************************************************************)
EXTENDS Kmalloc, FiniteSets

CONSTANTS
    Numbers,    \* widths and precisions in the format, 0 for none, below 1000
    DigitCounts \* numbers of digits of a value, besides 1 and the most it can have

ASSUME PrintkAssumption == Numbers \subseteq 0 .. 999 /\ DigitCounts \subseteq Nat

VARIABLES
    conv,       \* the conversion under way: [step, spec, value, cell, start, text]
    format      \* what the format has written for it

printkVars == <<conv, format>>

DIGIT == "d"
Sequence(char, n) == [i \in 1 .. n |-> char]

Idle == [step |-> "idle"]
Nothing == [step |-> "nothing"]

PrintkInit == conv = Idle /\ format = <<>>

-----------------------------------------------------------------------------
(***************************************************************************)
(* __parse_specifier.                                                      *)
(***************************************************************************)

Flags == {"-", "0", "+", " ", "#"}
Lengths == {"", "h", "hh", "l", "ll"}
Letters == {"d", "u", "x", "o", "p"}

(* As written: the letter is the one of the conversion meant. *)
Written == [flags : SUBSET Flags, width : Numbers, precision : Numbers,
            length : Lengths, letter : Letters]

NotTruncated(n) == n

(* __parse_spec_number: three digits at most, in a byte. *)
SpecNumber(n) == n % 256

(* After three digits the loop that skips further ones takes a character more. *)
Swallows(n) == n >= 100

LengthSpec(length) ==
    CASE length = "hh" -> "H"
      [] length = "ll" -> "L"
      [] length \in {"h", "l"} -> "l"
      [] OTHER -> ""

(* The length that is left when its first character was swallowed *)
Shorter(length) == IF length = "ll" THEN "l" ELSE IF length = "hh" THEN "h" ELSE ""

(* A character that is no letter of a number: a digit, other text, the end. *)
NoLetter == "none"

DotSwallowed(w) == Swallows(w.width) /\ w.precision # 0

LetterSwallowed(w) == (Swallows(w.width) \/ Swallows(w.precision)) /\ w.length = ""

(***************************************************************************)
(* What the parser takes for the letter.  The swallowed character is the   *)
(* dot, the first of the length, or the letter.  Without the dot a digit   *)
(* of the precision is taken; without the letter the character after it,   *)
(* whatever it is.                                                         *)
(***************************************************************************)
LettersRead(w) ==
    IF DotSwallowed(w) THEN {NoLetter}
    ELSE IF LetterSwallowed(w) THEN Letters \cup {NoLetter}
    ELSE {w.letter}

Base(letter) ==
    CASE letter \in {"x", "p"} -> 16
      [] letter = "o" -> 8
      [] OTHER -> 10

parse_specifier(w, letter) ==
    [flags |-> w.flags, width |-> SpecNumber(w.width), precision |-> SpecNumber(w.precision),
     lengthspec |-> LengthSpec(IF Swallows(w.width) \/ Swallows(w.precision)
                               THEN Shorter(w.length) ELSE w.length),
     base |-> Base(letter),
     signed |-> letter = "d"]

(* __vprintk: %p is a 64 bit hexadecimal number of 16 digits with a prefix. *)
Specifier(w, letter) ==
    IF letter = "p"
    THEN [parse_specifier(w, letter) EXCEPT !.flags = @ \cup {"#"}, !.precision = 16,
                                            !.lengthspec = "L"]
    ELSE parse_specifier(w, letter)

-----------------------------------------------------------------------------
(***************************************************************************)
(* The argument.  A length other than "hh" and none reads 64 bits, "h"     *)
(* included, whatever the caller passed.                                   *)
(***************************************************************************)

Bits(lengthspec) ==
    CASE lengthspec = "H" -> 8
      [] lengthspec = "" -> 32
      [] OTHER -> 64

MaxDigits(spec) ==
    LET bits == Bits(spec.lengthspec)
    IN  CASE spec.base = 16 -> bits \div 4
          [] spec.base = 8 -> (bits + 2) \div 3
          [] spec.signed /\ bits = 64 -> 19
          [] OTHER -> CASE bits = 8 -> 3 [] bits = 32 -> 10 [] OTHER -> 20

(* 0 has the one digit "0"; sign is -1, 0 or 1. *)
Values(spec) ==
    {[sign |-> 0, digits |-> 1]} \cup
    {[sign |-> s, digits |-> d] :
        s \in IF spec.signed THEN {-1, 1} ELSE {1},
        d \in {1, MaxDigits(spec)} \cup (DigitCounts \cap (1 .. MaxDigits(spec)))}

Digits(value) ==
    IF value.sign = 0 THEN <<"0">> ELSE Sequence(DIGIT, value.digits)

itoa(value) == (IF value.sign < 0 THEN <<"-">> ELSE <<>>) \o Digits(value)
utoa(value) == Digits(value)

-----------------------------------------------------------------------------
(***************************************************************************)
(* rjust and ljust of the text from character start on.                    *)
(***************************************************************************)

Before(text, start) == SubSeq(text, 1, start)
From(text, start) == SubSeq(text, start + 1, Len(text))

rjust(text, start, n, pad) ==
    LET length == Len(text) - start
    IN  IF length < n
        THEN Before(text, start) \o Sequence(pad, n - length) \o From(text, start)
        ELSE text

ljust(text, n, pad) ==
    IF Len(text) < n THEN text \o Sequence(pad, n - Len(text)) ELSE text

prepend(text, prefix) == prefix \o text

AtLeast(a, b) == IF a > b THEN a ELSE b

SignNotCounted(spec) == AtLeast(AtLeast(24, spec.precision), spec.width)

buffer_size(spec) == AtLeast(AtLeast(24, spec.precision + 4), spec.width + 4)

-----------------------------------------------------------------------------
(***************************************************************************)
(* __vprint_putsigned and __vprint_putunsigned.                            *)
(***************************************************************************)

(* __vprintk reaches the conversion, takes the argument and gets a buffer. *)
Convert(w, letter, value) ==
    LET spec == Specifier(w, letter)
    IN  /\ conv = Idle
        /\ format' = w
        /\ conv' = [step |-> "sign", spec |-> spec, value |-> value,
                    cell |-> kmalloc(buffer_size(spec)), start |-> 0,
                    text |-> IF spec.signed THEN itoa(value) ELSE utoa(value)]

(* Without a letter nothing is converted and no argument is taken. *)
Skip(w) ==
    /\ conv = Idle
    /\ NoLetter \in LettersRead(w)
    /\ conv' = Nothing
    /\ format' = w

Has(flag) == flag \in conv.spec.flags

(* start is where unsigned_part points to, after the first character for 0 too. *)
AddSign ==
    /\ conv.step = "sign"
    /\ conv.spec.signed
    /\ UNCHANGED format
    /\ LET sign == IF Has("+") THEN <<"+">> ELSE IF Has(" ") THEN <<" ">> ELSE <<>>
           added == IF conv.value.sign >= 0 THEN sign ELSE <<>>
       IN  conv' = [conv EXCEPT !.step = "precision",
                        !.text = added \o @,
                        !.start = IF added # <<>> \/ conv.value.sign <= 0 THEN 1 ELSE 0]

Prefix(base) == IF base = 8 THEN <<"0", "o">> ELSE <<"0", "x">>

(* numeric_part is not set for a decimal with "#": start is then -1. *)
AddPrefix ==
    /\ conv.step = "sign"
    /\ ~conv.spec.signed
    /\ UNCHANGED format
    /\ conv' =
        IF ~Has("#") THEN [conv EXCEPT !.step = "precision"]
        ELSE IF conv.spec.base = 10 THEN [conv EXCEPT !.step = "precision", !.start = -1]
        ELSE [conv EXCEPT !.step = "precision", !.start = 2,
                  !.text = prepend(@, Prefix(conv.spec.base))]

(***************************************************************************)
(* Justifying through a pointer never set, or to a negative length, which  *)
(* is a huge size_t, overwrites memory: the model stops there.             *)
(***************************************************************************)
Justify(n, next) ==
    IF conv.start < 0 \/ n < 0
    THEN [conv EXCEPT !.step = "wild"]
    ELSE [conv EXCEPT !.step = next, !.text = rjust(@, conv.start, n, "0")]

ApplyPrecision ==
    /\ conv.step = "precision"
    /\ UNCHANGED format
    /\ conv' = IF conv.spec.precision > 0 THEN Justify(conv.spec.precision, "width")
               ELSE [conv EXCEPT !.step = "width"]

ZerosBeforeSign ==
    /\ conv.step = "width"
    /\ UNCHANGED format
    /\ LET spec == conv.spec
       IN  conv' = CASE spec.width = 0 -> [conv EXCEPT !.step = "put"]
                     [] spec.width > 0 /\ Has("-") ->
                            [conv EXCEPT !.step = "put", !.text = ljust(@, spec.width, " ")]
                     [] OTHER ->
                            [conv EXCEPT !.step = "put", !.text = rjust(@, 0, spec.width,
                                IF spec.precision = 0 /\ Has("0") THEN "0" ELSE " ")]

ApplyWidth ==
    /\ conv.step = "width"
    /\ UNCHANGED format
    /\ LET spec == conv.spec
       IN  conv' = CASE spec.width = 0 -> [conv EXCEPT !.step = "put"]
                     [] spec.width > 0 /\ Has("-") ->
                            [conv EXCEPT !.step = "put", !.text = ljust(@, spec.width, " ")]
                     [] spec.width > 0 /\ ~Has("-") /\ spec.precision = 0 /\ Has("0") ->
                            Justify(spec.width - conv.start, "put")
                     [] OTHER ->
                            [conv EXCEPT !.step = "put", !.text = rjust(@, 0, spec.width, " ")]

(* __vprint_putstr, then kfree of the buffer *)
PutAndFree ==
    /\ conv.step \in {"put", "nothing"}
    /\ conv' = Idle
    /\ format' = <<>>

PrintkNext ==
    \/ /\ conv = Idle
       /\ \E w \in Written :
            \/ \E letter \in LettersRead(w) \cap Letters :
                  \E value \in Values(Specifier(w, letter)) : Convert(w, letter, value)
            \/ Skip(w)
    \/ AddSign \/ AddPrefix \/ ApplyPrecision \/ ApplyWidth
    \/ PutAndFree

-----------------------------------------------------------------------------

(* Type correctness of a conversion: a width and a precision fit in a byte. *)
PrintkTypeOK ==
    conv \notin {Idle, Nothing} =>
        /\ conv.step \in {"sign", "precision", "width", "put", "wild"}
        /\ conv.spec.width \in 0 .. 255 /\ conv.spec.precision \in 0 .. 255
        /\ conv.cell.cache \in Caches
        /\ conv.start \in {-1, 0, 1, 2}

(* "%#u" with a precision or zeros, and "%#01x" *)
WildPointer(spec) ==
    /\ ~spec.signed /\ "#" \in spec.flags
    /\ \/ spec.base = 10 /\ spec.precision > 0
       \/ /\ spec.precision = 0 /\ spec.width > 0
          /\ "0" \in spec.flags /\ "-" \notin spec.flags
          /\ spec.base = 10 \/ spec.width = 1

(* "%#llo" of a number of 22 digits in the smallest buffer *)
LongOctal(c) ==
    ~c.spec.signed /\ "#" \in c.spec.flags /\ c.spec.base = 8
        /\ c.value.digits = 22 /\ c.cell.size = 24

(***************************************************************************)
(* The text and its terminator stay within the cell kmalloc returned, at   *)
(* every step and for every flag, width, precision and value: the buffer   *)
(* size of log.c and the size classes of kmalloc leave room for sign,      *)
(* prefix and padding.  Two cases are excepted, which the code gets wrong. *)
(***************************************************************************)
BufferFits ==
    conv \notin {Idle, Nothing} =>
        /\ conv.step = "wild" => WildPointer(conv.spec)
        /\ ~LongOctal(conv) => Len(conv.text) + 1 <= conv.cell.size

(* The layout of C's printf, with 0o and 0x for prefixes *)
Expected(spec, value) ==
    LET lead == CASE spec.signed /\ value.sign < 0 -> <<"-">>
                  [] spec.signed /\ value.sign >= 0 /\ "+" \in spec.flags -> <<"+">>
                  [] spec.signed /\ value.sign >= 0 /\ "+" \notin spec.flags
                                 /\ " " \in spec.flags -> <<" ">>
                  [] ~spec.signed /\ "#" \in spec.flags /\ spec.base # 10 -> Prefix(spec.base)
                  [] OTHER -> <<>>
        zeroed == "0" \in spec.flags /\ "-" \notin spec.flags /\ spec.precision = 0
        least == IF zeroed THEN spec.width - Len(lead) ELSE spec.precision
        number == lead \o Sequence("0", least - value.digits) \o Digits(value)
        padding == Sequence(" ", spec.width - Len(number))
    IN  IF "-" \in spec.flags THEN number \o padding ELSE padding \o number

(* What the format asks for: its numbers as they are written. *)
Meant(w) ==
    [flags |-> IF w.letter = "p" THEN w.flags \cup {"#"} ELSE w.flags,
     width |-> w.width,
     precision |-> IF w.letter = "p" THEN 16 ELSE w.precision,
     base |-> Base(w.letter),
     signed |-> w.letter = "d"]

(* 0 with a precision and no sign, which gets a zero too many *)
ZeroWithPrecision(spec, value) ==
    spec.signed /\ value.sign = 0 /\ spec.precision > 0 /\ spec.flags \cap {"+", " "} = {}

AsWritten ==
    /\ conv.step = "put"
    /\ ZeroWithPrecision(Meant(format), conv.value)
         \/ conv.text = Expected(Meant(format), conv.value)

Ended == conv.step \in {"put", "nothing"}

(***************************************************************************)
(* A conversion whose width and precision have at most two digits is put   *)
(* out, in the layout that C's printf gives what the format says: sign or  *)
(* prefix first, zeros up to the precision or the width, spaces on the     *)
(* side asked for.  Excepted are 0 with a precision and the length "h",    *)
(* which reads a long.                                                     *)
(***************************************************************************)
Formatted ==
    Ended /\ format.width < 100 /\ format.precision < 100 /\ format.length # "h" => AsWritten

(***************************************************************************)
(* log.c, of the numbers in a format: "we chop off anything after 3        *)
(* digits".  A number of three digits is therefore a width or a precision  *)
(* like any other.                                                         *)
(***************************************************************************)
ThreeDigitsKept == Ended /\ format.length # "h" => AsWritten

=============================================================================
