----------------------------- MODULE TextProofs -----------------------------
(***************************************************************************)
(* Proofs about the console and printk's conversions, for every size of    *)
(* the window, every character and every number in a format.               *)
(*                                                                         *)
(* The console: a call is a list of port and memory accesses, so the       *)
(* invariant says which tail of which list is left (Reading, Writing) and  *)
(* what the registers and the window hold meanwhile.  For a newline that   *)
(* is enough to know where the cursor ends up (NewlineInv).  For the text, *)
(* as long as no interrupt broke in, the window is that of a terminal t    *)
(* and what is left of the call takes t to the terminal expected (TextInv).*)
(*                                                                         *)
(* Conversions: the text is at every step a lead (sign, space or prefix),  *)
(* zeros and digits, padded (Stage), and is never longer than the buffer   *)
(* (Fits).                                                                 *)
(***************************************************************************)
EXTENDS MCText, SequenceTheorems, TLAPS

-----------------------------------------------------------------------------
(***************************************************************************)
(* The accesses of a call.                                                 *)
(***************************************************************************)

Registers == {"low", "high"}
Texts == Chars \cup {Space}

Steps ==
    {Op("select", r) : r \in Registers} \cup {Op("in", r) : r \in Registers}
      \cup {Op("out", b) : b \in 0 .. (Byte - 1)} \cup {Op("put", c) : c \in Texts}
      \cup {Op(op, "") : op \in {"advance", "return", "newline", "scroll"}}

ReadHigh == Op("in", "high")
ReadLow == Op("in", "low")

(* Every read of the high byte comes right after one of the low byte. *)
WellRead(s) ==
    \A i \in 1 .. Len(s) : s[i] = ReadHigh =>
        i > 2 /\ s[i - 1].op = "select" /\ s[i - 2] = ReadLow

(* What is left of a list in which it did, pos being the position read. *)
ReadsOn(s, pos) ==
    \A i \in 1 .. Len(s) : s[i] = ReadHigh =>
        /\ i > 1 => s[i - 1].op = "select"
        /\ i > 2 => s[i - 2] = ReadLow
        /\ i <= 2 => pos < Byte

LEMMA StepFacts ==
    /\ \A r \in Registers : Op("select", r) \in Steps /\ Op("in", r) \in Steps
    /\ \A b \in 0 .. (Byte - 1) : Op("out", b) \in Steps
    /\ \A c \in Texts : Op("put", c) \in Steps
    /\ \A op \in {"advance", "return", "newline", "scroll"} : Op(op, "") \in Steps
BY DEF Steps

(* What the steps of each kind look like. *)
LEMMA StepKinds ==
    ASSUME NEW s \in Steps
    PROVE  /\ s.op = "select" => s.arg \in Registers
           /\ s.op = "in" => s.arg \in Registers /\ s = Op("in", s.arg)
           /\ s.op = "out" => s.arg \in 0 .. (Byte - 1)
           /\ s.op = "put" => s.arg \in Texts
<1>1. ASSUME NEW r \in Registers, s = Op("select", r)
      PROVE  s.op = "select" /\ s.arg \in Registers
    BY <1>1 DEF Op
<1>2. ASSUME NEW r \in Registers, s = Op("in", r)
      PROVE  s.op = "in" /\ s.arg \in Registers /\ s = Op("in", s.arg)
    BY <1>2 DEF Op
<1>3. ASSUME NEW b \in 0 .. (Byte - 1), s = Op("out", b)
      PROVE  s.op = "out" /\ s.arg \in 0 .. (Byte - 1)
    BY <1>3 DEF Op
<1>4. ASSUME NEW c \in Texts, s = Op("put", c)
      PROVE  s.op = "put" /\ s.arg \in Texts
    BY <1>4 DEF Op
<1>5. ASSUME NEW op \in {"advance", "return", "newline", "scroll"}, s = Op(op, "")
      PROVE  s.op \notin {"select", "in", "out", "put"}
    BY <1>5 DEF Op
<1> QED
    BY <1>1, <1>2, <1>3, <1>4, <1>5 DEF Steps

LEMMA Bytes ==
    ASSUME NEW p \in Nat
    PROVE  ByteOf("low", p) \in 0 .. (Byte - 1) /\ ByteOf("high", p) \in 0 .. (Byte - 1)
<1>1. Byte \in Nat \ {0}
    BY ConsoleAssumption
<1>2. p \div Byte \in Nat
    BY <1>1
<1> QED
    BY <1>1, <1>2 DEF ByteOf

LEMMA GetTyped == get_cursor_pos \in Seq(Steps) /\ WellRead(get_cursor_pos)
<1> DEFINE a == Op("select", "low")
           b == Op("in", "low")
           c == Op("select", "high")
           d == Op("in", "high")
<1>1. a \in Steps /\ b \in Steps /\ c \in Steps /\ d \in Steps
    BY StepFacts DEF Registers
<1>2. a # d /\ b # d /\ c # d /\ c.op = "select"
    BY DEF Op
<1> QED
    BY <1>1, <1>2 DEF get_cursor_pos, WellRead, ReadHigh, ReadLow

NoReads(s) == \A i \in 1 .. Len(s) : s[i] # ReadHigh

LEMMA OutTyped ==
    ASSUME NEW p \in Nat
    PROVE  OutPos(p) \in Seq(Steps) /\ NoReads(OutPos(p))
<1>1. PICK l \in 0 .. (Byte - 1) : l = ByteOf("low", p)
    BY Bytes
<1>2. PICK h \in 0 .. (Byte - 1) : h = ByteOf("high", p)
    BY Bytes
<1> DEFINE a == Op("select", "low")
           b == Op("out", l)
           c == Op("select", "high")
           d == Op("out", h)
<1>3. a \in Steps /\ b \in Steps /\ c \in Steps /\ d \in Steps
    BY StepFacts DEF Registers
<1>4. a # ReadHigh /\ b # ReadHigh /\ c # ReadHigh /\ d # ReadHigh
    BY DEF Op, ReadHigh
<1>5. OutPos(p) = <<a, b, c, d>>
    BY <1>1, <1>2 DEF OutPos
<1> HIDE DEF a, b, c, d
<1> QED
    BY <1>3, <1>4, <1>5 DEF NoReads

LEMMA OneTyped ==
    ASSUME NEW s \in Steps, s # ReadHigh
    PROVE  <<s>> \in Seq(Steps) /\ NoReads(<<s>>)
BY DEF NoReads

LEMMA EmptyTyped == <<>> \in Seq(Steps) /\ NoReads(<<>>)
BY DEF NoReads

LEMMA NoReadsJoin ==
    ASSUME NEW s \in Seq(Steps), NEW t \in Seq(Steps), NoReads(s), NoReads(t)
    PROVE  s \o t \in Seq(Steps) /\ NoReads(s \o t)
<1>1. /\ s \o t \in Seq(Steps) /\ Len(s \o t) = Len(s) + Len(t)
      /\ \A i \in 1 .. Len(s) + Len(t) : (s \o t)[i] = IF i <= Len(s) THEN s[i] ELSE t[i - Len(s)]
    BY ConcatProperties
<1>2. Len(s) \in Nat /\ Len(t) \in Nat
    BY LenProperties
<1> QED
    BY <1>1, <1>2 DEF NoReads

LEMMA WellReadJoin ==
    ASSUME NEW s \in Seq(Steps), NEW t \in Seq(Steps), WellRead(s), WellRead(t)
    PROVE  s \o t \in Seq(Steps) /\ WellRead(s \o t)
<1>1. /\ s \o t \in Seq(Steps) /\ Len(s \o t) = Len(s) + Len(t)
      /\ \A i \in 1 .. Len(s) + Len(t) : (s \o t)[i] = IF i <= Len(s) THEN s[i] ELSE t[i - Len(s)]
    BY ConcatProperties
<1>2. Len(s) \in Nat /\ Len(t) \in Nat
    BY LenProperties
<1>3. ASSUME NEW i \in 1 .. Len(s \o t), (s \o t)[i] = ReadHigh
      PROVE  i > 2 /\ (s \o t)[i - 1].op = "select" /\ (s \o t)[i - 2] = ReadLow
    <2>1. CASE i <= Len(s)
        <3>1. i \in 1 .. Len(s) /\ s[i] = ReadHigh
            BY <1>1, <1>2, <1>3, <2>1
        <3>2. i > 2 /\ s[i - 1].op = "select" /\ s[i - 2] = ReadLow
            BY <3>1 DEF WellRead
        <3> QED
            BY <1>1, <1>2, <2>1, <3>2
    <2>2. CASE i > Len(s)
        <3>1. i - Len(s) \in 1 .. Len(t) /\ t[i - Len(s)] = ReadHigh
            BY <1>1, <1>2, <1>3, <2>2
        <3>2. /\ i - Len(s) > 2 /\ t[(i - Len(s)) - 1].op = "select"
              /\ t[(i - Len(s)) - 2] = ReadLow
            BY <3>1 DEF WellRead
        <3>3. (i - Len(s)) - 1 = (i - 1) - Len(s) /\ (i - Len(s)) - 2 = (i - 2) - Len(s)
            BY <1>2
        <3> QED
            BY <1>1, <1>2, <2>2, <3>2, <3>3
    <2> QED
        BY <1>2, <2>1, <2>2
<1> QED
    BY <1>1, <1>3 DEF WellRead

LEMMA NoReadsWellRead ==
    ASSUME NEW s, NoReads(s)
    PROVE  WellRead(s)
BY DEF NoReads, WellRead

LEMMA WellReadOn ==
    ASSUME NEW s \in Seq(Steps), WellRead(s), NEW p
    PROVE  ReadsOn(s, p)
BY DEF WellRead, ReadsOn

LEMMA AdvanceTyped == advance_cursor \in Seq(Steps) /\ WellRead(advance_cursor)
<1>1. Op("advance", "") \in Steps /\ Op("advance", "") # ReadHigh
    BY StepFacts DEF Op, ReadHigh
<1> QED
    BY <1>1, OneTyped, NoReadsWellRead, GetTyped, WellReadJoin DEF advance_cursor

LEMMA PutTyped ==
    ASSUME NEW c \in Texts
    PROVE  PutChar(c) \in Seq(Steps) /\ WellRead(PutChar(c))
<1>1. Op("put", c) \in Steps /\ Op("put", c) # ReadHigh
    BY StepFacts DEF Op, ReadHigh
<1>2. get_cursor_pos \o <<Op("put", c)>> \in Seq(Steps)
        /\ WellRead(get_cursor_pos \o <<Op("put", c)>>)
    BY <1>1, OneTyped, NoReadsWellRead, GetTyped, WellReadJoin
<1> QED
    BY <1>2, AdvanceTyped, WellReadJoin DEF PutChar

LEMMA SpecialChars ==
    /\ Space \in Texts /\ Newline # CarriageReturn /\ Newline # Tab /\ CarriageReturn # Tab
    /\ \A c \in Chars : c # Newline /\ c # CarriageReturn /\ c # Tab /\ c \in Texts
BY ConsoleAssumption DEF Texts, Newline, CarriageReturn, Tab

LEMMA AccessesTyped ==
    ASSUME NEW c \in AllChars
    PROVE  Accesses(c) \in Seq(Steps) /\ WellRead(Accesses(c))
<1>1. Space \in Texts
    BY DEF Texts
<1>2. CASE c = Newline
    <2>1. Op("newline", "") \in Steps /\ Op("newline", "") # ReadHigh
        BY StepFacts DEF Op, ReadHigh
    <2>2. Accesses(c) = get_cursor_pos \o <<Op("newline", "")>>
        BY <1>2, SpecialChars DEF Accesses
    <2> QED
        BY <2>1, <2>2, OneTyped, NoReadsWellRead, GetTyped, WellReadJoin
<1>3. CASE c = CarriageReturn
    <2>1. Op("return", "") \in Steps /\ Op("return", "") # ReadHigh
        BY StepFacts DEF Op, ReadHigh
    <2>2. Accesses(c) = get_cursor_pos \o <<Op("return", "")>>
        BY <1>3, SpecialChars DEF Accesses
    <2> QED
        BY <2>1, <2>2, OneTyped, NoReadsWellRead, GetTyped, WellReadJoin
<1>4. CASE c = Tab
    <2>1. PICK p : p = PutChar(Space) /\ p \in Seq(Steps) /\ WellRead(p)
        BY <1>1, PutTyped
    <2>2. Accesses(c) = p \o p \o p \o p \o advance_cursor
        BY <1>4, <2>1, SpecialChars DEF Accesses
    <2>3. p \o p \in Seq(Steps) /\ WellRead(p \o p)
        BY <2>1, WellReadJoin
    <2>4. p \o p \o p \in Seq(Steps) /\ WellRead(p \o p \o p)
        BY <2>1, <2>3, WellReadJoin
    <2>5. p \o p \o p \o p \in Seq(Steps) /\ WellRead(p \o p \o p \o p)
        BY <2>1, <2>4, WellReadJoin
    <2> QED
        BY <2>2, <2>5, AdvanceTyped, WellReadJoin
<1>5. CASE c \in Chars
    <2>1. c \in Texts /\ Accesses(c) = PutChar(c)
        BY <1>5, SpecialChars DEF Accesses
    <2> QED
        BY <2>1, PutTyped
<1> QED
    BY <1>2, <1>3, <1>4, <1>5 DEF AllChars

-----------------------------------------------------------------------------
(***************************************************************************)
(* Type correctness.  The position in a call fits in two bytes because a   *)
(* high byte is only ever added to a low one, also when an interrupt came  *)
(* between the reads.                                                      *)
(***************************************************************************)

CallRecords ==
    [char : AllChars, todo : Seq(Steps), pos : 0 .. (Byte * Byte - 1), whole : BOOLEAN]

ConsoleTyped ==
    /\ cells \in [Positions -> Texts]
    /\ cursor \in [Registers -> 0 .. (Byte - 1)]
    /\ index \in Registers
    /\ calls \in Seq(CallRecords) /\ Len(calls) <= 2
    /\ \A i \in 1 .. Len(calls) : ReadsOn(calls[i].todo, calls[i].pos)
    /\ Len(calls) = 2 => ~calls[1].whole
    /\ followed \in BOOLEAN

LEMMA TypedTypeOK == ConsoleTyped => ConsoleTypeOK
<1> SUFFICES ASSUME ConsoleTyped PROVE ConsoleTypeOK
    OBVIOUS
<1>1. \A i \in DOMAIN calls : calls[i] \in CallRecords
    BY DEF ConsoleTyped
<1> QED
    BY <1>1 DEF ConsoleTyped, ConsoleTypeOK, CallRecords, Registers, Texts

LEMMA ByteFacts ==
    /\ Byte \in Nat /\ Byte > 0 /\ Byte * Byte \in Nat /\ Byte * Byte >= Byte
    /\ VGA_WIDTH \in Nat /\ VGA_WIDTH > 0 /\ VGA_HEIGHT \in Nat /\ VGA_HEIGHT > 0
    /\ VGA_EXTENT \in Nat /\ VGA_EXTENT >= VGA_WIDTH /\ VGA_EXTENT < Byte * Byte
    /\ VGA_HEIGHT + 1 < Byte
BY ConsoleAssumption DEF VGA_EXTENT

(* Two bytes make a position. *)
LEMMA TwoBytes ==
    ASSUME NEW l \in 0 .. (Byte - 1), NEW h \in 0 .. (Byte - 1)
    PROVE  l + h * Byte \in 0 .. (Byte * Byte - 1)
<1>1. h * Byte \in Nat /\ h * Byte + Byte = (h + 1) * Byte
    BY ByteFacts
<1>2. (h + 1) * Byte <= Byte * Byte
    BY ByteFacts
<1> QED
    BY ByteFacts, <1>1, <1>2

LEMMA NotEmpty ==
    ASSUME NEW S, NEW s \in Seq(S), s # <<>>
    PROVE  Len(s) \in Nat /\ Len(s) >= 1
<1>1. Len(s) \in Nat /\ Len(s) # 0
    BY EmptySeq, LenProperties
<1> QED
    BY <1>1

LEMMA CallsLength ==
    ASSUME ConsoleTyped, calls # <<>>
    PROVE  Len(calls) \in 1 .. 2 /\ calls \in Seq(CallRecords)
<1>1. calls \in Seq(CallRecords) /\ Len(calls) <= 2
    BY DEF ConsoleTyped
<1>2. PICK S : S = CallRecords
    OBVIOUS
<1>3. calls \in Seq(S)
    BY <1>1, <1>2
<1>4. Len(calls) \in Nat /\ Len(calls) >= 1
    BY <1>3, NotEmpty
<1>5. PICK n : n = Len(calls)
    OBVIOUS
<1>6. n \in Nat /\ n >= 1 /\ n <= 2
    BY <1>1, <1>4, <1>5
<1>7. n \in 1 .. 2
    BY ONLY <1>6
<1> QED
    BY <1>1, <1>5, <1>7

(* What every access does to the call on top. *)
LEMMA ContinueDoes ==
    ASSUME ConsoleTyped, NEW op, NEW pos, NEW more, Continue(op, pos, more)
    PROVE  /\ Len(calls) \in 1 .. 2 /\ Call = calls[Len(calls)] /\ Call \in CallRecords
           /\ Call.todo \in Seq(Steps) /\ Call.todo # <<>>
           /\ Access \in Steps /\ Access.op = op /\ Access = Call.todo[1]
           /\ Len(calls') = Len(calls) /\ calls'[Len(calls)] = Call'
           /\ Call' = [char |-> Call.char, todo |-> more \o Tail(Call.todo),
                       pos |-> pos, whole |-> Call.whole]
           /\ calls' = [calls EXCEPT ![Len(calls)] = Call']
<1>1. calls # <<>> /\ Call.todo # <<>> /\ Access.op = op
    BY DEF Continue
<1>2. PICK n : n = Len(calls) /\ n \in 1 .. 2 /\ calls \in Seq(CallRecords)
    BY <1>1, CallsLength
<1>3. n \in Nat /\ n \in 1 .. Len(calls)
    BY <1>2
<1>4. PICK c : c = calls[n]
    OBVIOUS
<1>5. c \in CallRecords /\ Call = c
    BY <1>2, <1>3, <1>4 DEF Call, Last
<1>6. c.todo \in Seq(Steps) /\ Head(c.todo) \in Steps /\ Head(c.todo) = c.todo[1]
    BY <1>1, <1>5, HeadTailProperties DEF CallRecords
<1>7. PICK d : d = [char |-> c.char, todo |-> more \o Tail(c.todo), pos |-> pos, whole |-> c.whole]
    OBVIOUS
<1>8. PICK t : t = more \o Tail(c.todo)
    OBVIOUS
<1>9. [[c EXCEPT !.todo = t] EXCEPT !.pos = pos]
         = [char |-> c.char, todo |-> t, pos |-> pos, whole |-> c.whole]
    <2>1. c = [char |-> c.char, todo |-> c.todo, pos |-> c.pos, whole |-> c.whole]
        BY <1>5 DEF CallRecords
    <2>2. PICK a, b, p, w : /\ c = [char |-> a, todo |-> b, pos |-> p, whole |-> w]
                            /\ c.char = a /\ c.whole = w
        BY <2>1
    <2>3. PICK e : e = [char |-> a, todo |-> t, pos |-> p, whole |-> w]
        OBVIOUS
    <2>4. [c EXCEPT !.todo = t] = e
        BY <2>2, <2>3
    <2>5. [e EXCEPT !.pos = pos] = [char |-> a, todo |-> t, pos |-> pos, whole |-> w]
        BY <2>3
    <2> QED
        BY <2>2, <2>4, <2>5
<1>10. calls' = [calls EXCEPT ![n].todo = more \o Tail(@), ![n].pos = pos]
    BY <1>2 DEF Continue
<1>11. calls' = [calls EXCEPT ![n] = d]
    BY <1>2, <1>3, <1>4, <1>7, <1>8, <1>9, <1>10
<1>12. PICK S : S = CallRecords \cup {d}
    OBVIOUS
<1>13. calls \in Seq(S) /\ d \in S
    BY <1>2, <1>12, SeqMonotonic
<1>14. Len(calls') = n /\ calls'[n] = d
    BY <1>2, <1>3, <1>11, <1>13
<1>15. Call' = d
    BY <1>14 DEF Call, Last
<1> QED
    BY <1>1, <1>2, <1>4, <1>5, <1>6, <1>7, <1>11, <1>14, <1>15 DEF Access

LEMMA ContinueFacts ==
    ASSUME ConsoleTyped, NEW op, NEW pos \in 0 .. (Byte * Byte - 1), NEW more \in Seq(Steps),
           Continue(op, pos, more)
    PROVE  /\ Len(calls) \in 1 .. 2 /\ Call = calls[Len(calls)] /\ Call \in CallRecords
           /\ Call.todo \in Seq(Steps) /\ Call.todo # <<>>
           /\ Access \in Steps /\ Access.op = op /\ Access = Call.todo[1]
           /\ calls' \in Seq(CallRecords) /\ Len(calls') = Len(calls)
           /\ Call' = [char |-> Call.char, todo |-> more \o Tail(Call.todo),
                       pos |-> pos, whole |-> Call.whole]
           /\ calls'[Len(calls)] = Call'
           /\ \A i \in 1 .. Len(calls) : i # Len(calls) => calls'[i] = calls[i]
<1>1. /\ Len(calls) \in 1 .. 2 /\ Call = calls[Len(calls)] /\ Call \in CallRecords
      /\ Call.todo \in Seq(Steps) /\ Call.todo # <<>>
      /\ Access \in Steps /\ Access.op = op /\ Access = Call.todo[1]
      /\ Len(calls') = Len(calls) /\ calls'[Len(calls)] = Call'
      /\ Call' = [char |-> Call.char, todo |-> more \o Tail(Call.todo),
                  pos |-> pos, whole |-> Call.whole]
      /\ calls' = [calls EXCEPT ![Len(calls)] = Call']
    BY ContinueDoes
<1>2. more \o Tail(Call.todo) \in Seq(Steps)
    BY <1>1, HeadTailProperties, ConcatProperties
<1>3. Call' \in CallRecords
    BY <1>1, <1>2 DEF CallRecords
<1>4. PICK n \in 1 .. 2 : n = Len(calls)
    BY <1>1
<1>5. PICK d \in CallRecords : d = Call'
    BY <1>3
<1>6. calls \in Seq(CallRecords) /\ calls' = [calls EXCEPT ![n] = d]
    BY <1>1, <1>4, <1>5 DEF ConsoleTyped
<1>7. calls' \in Seq(CallRecords) /\ \A i \in 1 .. n : i # n => calls'[i] = calls[i]
    BY <1>4, <1>6
<1> QED
    BY <1>1, <1>4, <1>7

(* A step keeps the records in type if the rest of its list is well read. *)
LEMMA ContinueTyped ==
    ASSUME ConsoleTyped, NEW op, NEW pos \in 0 .. (Byte * Byte - 1), NEW more \in Seq(Steps),
           Continue(op, pos, more), ReadsOn(more \o Tail(Call.todo), pos),
           cells' \in [Positions -> Texts], cursor' \in [Registers -> 0 .. (Byte - 1)],
           index' \in Registers, followed' \in BOOLEAN
    PROVE  ConsoleTyped'
<1>1. /\ Len(calls) \in 1 .. 2 /\ Call \in CallRecords
      /\ calls' \in Seq(CallRecords) /\ Len(calls') = Len(calls)
      /\ Call' = [char |-> Call.char, todo |-> more \o Tail(Call.todo),
                  pos |-> pos, whole |-> Call.whole]
      /\ calls'[Len(calls)] = Call'
      /\ \A i \in 1 .. Len(calls) : i # Len(calls) => calls'[i] = calls[i]
    BY ContinueFacts
<1>2. ASSUME NEW i \in 1 .. Len(calls)
      PROVE  ReadsOn(calls'[i].todo, calls'[i].pos)
    <2>1. CASE i = Len(calls)
        <3>1. calls'[i].todo = more \o Tail(Call.todo) /\ calls'[i].pos = pos
            BY <1>1, <2>1
        <3> QED
            BY <3>1
    <2>2. CASE i # Len(calls)
        BY <1>1, <2>2 DEF ConsoleTyped
    <2> QED
        BY <2>1, <2>2
<1>3. Len(calls) = 2 => ~calls'[1].whole
    BY <1>1 DEF ConsoleTyped
<1> QED
    BY <1>1, <1>2, <1>3 DEF ConsoleTyped

(* A step that does not read leaves a well read list. *)
LEMMA RestWellRead ==
    ASSUME NEW s \in Seq(Steps), s # <<>>, NEW p, ReadsOn(s, p),
           s[1].op # "select", s[1] # ReadLow
    PROVE  WellRead(Tail(s))
<1>1. /\ Tail(s) \in Seq(Steps) /\ Len(Tail(s)) = Len(s) - 1 /\ Len(s) \in Nat
      /\ \A i \in 1 .. Len(Tail(s)) : Tail(s)[i] = s[i + 1]
    BY HeadTailProperties, LenProperties
<1>2. ASSUME NEW i \in 1 .. Len(Tail(s)), Tail(s)[i] = ReadHigh
      PROVE  i > 2 /\ Tail(s)[i - 1].op = "select" /\ Tail(s)[i - 2] = ReadLow
    <2>1. i + 1 \in 1 .. Len(s) /\ s[i + 1] = ReadHigh
        BY <1>1, <1>2
    <2>2. /\ i + 1 > 1 => s[i + 1 - 1].op = "select"
          /\ i + 1 > 2 => s[i + 1 - 2] = ReadLow
        BY <2>1 DEF ReadsOn
    <2>3. s[i].op = "select" /\ (i > 1 => s[i - 1] = ReadLow)
        BY <2>2
    <2>4. i # 1 /\ i # 2
        BY <2>3
    <2>5. i - 1 \in 1 .. Len(Tail(s)) /\ i - 2 \in 1 .. Len(Tail(s))
            /\ (i - 1) + 1 = i /\ (i - 2) + 1 = i - 1
        BY <1>1, <2>4
    <2> QED
        BY <1>1, <2>3, <2>4, <2>5
<1> QED
    BY <1>2 DEF WellRead

LEMMA RestReadsOn ==
    ASSUME NEW s \in Seq(Steps), s # <<>>, NEW p, ReadsOn(s, p), NEW q,
           s[1].op = "select" => p = q, s[1] = ReadLow => q < Byte
    PROVE  ReadsOn(Tail(s), q)
<1>1. /\ Tail(s) \in Seq(Steps) /\ Len(Tail(s)) = Len(s) - 1 /\ Len(s) \in Nat
      /\ \A i \in 1 .. Len(Tail(s)) : Tail(s)[i] = s[i + 1]
    BY HeadTailProperties, LenProperties
<1>2. ASSUME NEW i \in 1 .. Len(Tail(s)), Tail(s)[i] = ReadHigh
      PROVE  /\ i > 1 => Tail(s)[i - 1].op = "select"
             /\ i > 2 => Tail(s)[i - 2] = ReadLow
             /\ i <= 2 => q < Byte
    <2>1. i + 1 \in 1 .. Len(s) /\ s[i + 1] = ReadHigh
        BY <1>1, <1>2
    <2>2. /\ i + 1 > 1 => s[i + 1 - 1].op = "select"
          /\ i + 1 > 2 => s[i + 1 - 2] = ReadLow
          /\ i + 1 <= 2 => p < Byte
        BY <2>1 DEF ReadsOn
    <2>3. s[i].op = "select" /\ (i > 1 => s[i - 1] = ReadLow)
        BY <2>2
    <2>4. /\ i > 1 => i - 1 \in 1 .. Len(Tail(s)) /\ (i - 1) + 1 = i
          /\ i > 2 => i - 2 \in 1 .. Len(Tail(s)) /\ (i - 2) + 1 = i - 1
        BY <1>1
    <2>5. i > 1 => Tail(s)[i - 1].op = "select"
        BY <1>1, <2>3, <2>4
    <2>6. i > 2 => Tail(s)[i - 2] = ReadLow
        BY <1>1, <2>3, <2>4
    <2>7. i = 1 => q < Byte
        BY <2>2, <2>3
    <2>8. i = 2 => q < Byte
        BY <2>3
    <2> QED
        BY <2>5, <2>6, <2>7, <2>8
<1> QED
    BY <1>2 DEF ReadsOn

(* A step that reads nothing and goes on with steps that do not either. *)
LEMMA OtherTyped ==
    ASSUME ConsoleTyped, NEW op, NEW more \in Seq(Steps), NoReads(more),
           Continue(op, Call.pos, more), op \notin {"select", "in"},
           cells' \in [Positions -> Texts], cursor' \in [Registers -> 0 .. (Byte - 1)],
           index' = index, followed' \in BOOLEAN
    PROVE  ConsoleTyped'
<1>1. calls \in Seq(CallRecords) /\ calls # <<>>
    BY DEF ConsoleTyped, Continue
<1>2. Call \in CallRecords /\ Call = calls[Len(calls)] /\ Len(calls) \in 1 .. Len(calls)
    BY <1>1 DEF Call, Last
<1>3. Call.pos \in 0 .. (Byte * Byte - 1)
    BY <1>2 DEF CallRecords
<1>4. /\ Call.todo \in Seq(Steps) /\ Call.todo # <<>> /\ Access \in Steps
      /\ Access.op = op /\ Access = Call.todo[1]
    BY <1>3, ContinueFacts
<1>5. Call.todo[1] # ReadLow /\ Call.todo[1].op # "select"
    BY <1>4 DEF ReadLow, Op
<1>6. ReadsOn(Call.todo, Call.pos)
    BY <1>2 DEF ConsoleTyped
<1>7. WellRead(Tail(Call.todo)) /\ Tail(Call.todo) \in Seq(Steps)
    BY <1>4, <1>5, <1>6, RestWellRead, HeadTailProperties
<1>8. ReadsOn(more \o Tail(Call.todo), Call.pos)
    BY <1>7, NoReadsWellRead, WellReadJoin, WellReadOn
<1>9. index' \in Registers
    BY DEF ConsoleTyped
<1> QED
    BY <1>3, <1>8, <1>9, ContinueTyped

LEMMA NewCallTyped ==
    ASSUME NEW c \in AllChars
    PROVE  NewCall(c) \in CallRecords /\ ReadsOn(NewCall(c).todo, NewCall(c).pos)
<1>1. 0 \in 0 .. (Byte * Byte - 1)
    BY ByteFacts
<1> QED
    BY <1>1, AccessesTyped, WellReadOn DEF NewCall, CallRecords

LEMMA KputcharTyped ==
    ASSUME ConsoleTyped, NEW c \in AllChars, Kputchar(c)
    PROVE  ConsoleTyped'
<1>1. PICK d : d = NewCall(c) /\ d \in CallRecords /\ ReadsOn(d.todo, d.pos)
    BY NewCallTyped
<1>2. calls' = <<d>>
    BY <1>1 DEF Kputchar
<1>3. calls' \in Seq(CallRecords) /\ Len(calls') = 1 /\ calls'[1] = d
    BY <1>1, <1>2
<1> QED
    BY <1>1, <1>3 DEF ConsoleTyped, Kputchar

LEMMA InterruptTyped ==
    ASSUME ConsoleTyped, NEW c \in AllChars, InterruptPrints(c)
    PROVE  ConsoleTyped'
<1>1. PICK d : d = NewCall(c) /\ d \in CallRecords /\ ReadsOn(d.todo, d.pos)
    BY NewCallTyped
<1>2. PICK b : b = calls[1] /\ b \in CallRecords /\ ReadsOn(b.todo, b.pos)
    BY DEF ConsoleTyped, InterruptPrints
<1>3. PICK e : e = [b EXCEPT !.whole = FALSE]
    OBVIOUS
<1>4. e \in CallRecords /\ e.todo = b.todo /\ e.pos = b.pos /\ ~e.whole
    BY <1>2, <1>3 DEF CallRecords
<1>5. calls' = <<e, d>>
    BY <1>1, <1>2, <1>3 DEF InterruptPrints
<1>6. calls' \in Seq(CallRecords) /\ Len(calls') = 2 /\ calls'[1] = e /\ calls'[2] = d
    BY <1>1, <1>4, <1>5
<1>7. \A i \in 1 .. Len(calls') : ReadsOn(calls'[i].todo, calls'[i].pos)
    BY <1>1, <1>2, <1>4, <1>6
<1> QED
    <2>1. calls'[1].whole = FALSE
        BY <1>4, <1>6 DEF CallRecords
    <2> QED
        <3>1. /\ cells' \in [Positions -> Texts] /\ cursor' \in [Registers -> 0 .. (Byte - 1)]
              /\ index' \in Registers /\ followed' \in BOOLEAN
            BY DEF ConsoleTyped, InterruptPrints
        <3>2. (Len(calls) = 2 => ~calls[1].whole)'
            BY <2>1
        <3>3. Len(calls') <= 2
            BY <1>6
        <3> QED
            BY <1>6, <1>7, <3>1, <3>2, <3>3 DEF ConsoleTyped

(* What is known of the call on top. *)
LEMMA TopCall ==
    ASSUME ConsoleTyped, calls # <<>>
    PROVE  /\ Len(calls) \in 1 .. 2 /\ Call = calls[Len(calls)] /\ Call \in CallRecords
           /\ Call.todo \in Seq(Steps) /\ Call.pos \in 0 .. (Byte * Byte - 1)
           /\ Call.char \in AllChars /\ Call.whole \in BOOLEAN
           /\ ReadsOn(Call.todo, Call.pos)
<1>1. calls \in Seq(CallRecords) /\ Len(calls) \in 1 .. 2 /\ Call = calls[Len(calls)]
    BY CallsLength DEF Call, Last
<1>2. Call \in CallRecords
    BY <1>1
<1>3. ReadsOn(Call.todo, Call.pos)
    BY <1>1 DEF ConsoleTyped
<1> QED
    BY <1>1, <1>2, <1>3 DEF CallRecords

LEMMA SelectTyped == ConsoleTyped /\ Select => ConsoleTyped'
<1> SUFFICES ASSUME ConsoleTyped, Select PROVE ConsoleTyped'
    OBVIOUS
<1>1. calls # <<>> /\ Continue("select", Call.pos, <<>>) /\ index' = Access.arg
    BY DEF Select, Continue
<1>2. Call.pos \in 0 .. (Byte * Byte - 1) /\ ReadsOn(Call.todo, Call.pos)
    BY <1>1, TopCall
<1>3. <<>> \in Seq(Steps)
    OBVIOUS
<1>4. /\ Call.todo \in Seq(Steps) /\ Call.todo # <<>>
      /\ Access \in Steps /\ Access.op = "select" /\ Access = Call.todo[1]
    BY <1>1, <1>2, <1>3, ContinueFacts
<1>5. Call.todo[1] # ReadLow
    BY <1>4 DEF ReadLow, Op
<1>6. ReadsOn(Tail(Call.todo), Call.pos) /\ Tail(Call.todo) \in Seq(Steps)
    BY <1>2, <1>4, <1>5, RestReadsOn, HeadTailProperties
<1>7. <<>> \o Tail(Call.todo) = Tail(Call.todo)
    BY <1>6, ConcatEmptySeq
<1>8. index' \in Registers
    BY <1>1, <1>4, StepKinds
<1>9. cells' \in [Positions -> Texts] /\ cursor' \in [Registers -> 0 .. (Byte - 1)]
        /\ followed' \in BOOLEAN
    BY DEF Select, ConsoleTyped
<1> QED
    BY <1>1, <1>2, <1>3, <1>6, <1>7, <1>8, <1>9, ContinueTyped

LEMMA InTyped == ConsoleTyped /\ In => ConsoleTyped'
<1> SUFFICES ASSUME ConsoleTyped, In PROVE ConsoleTyped'
    OBVIOUS
<1>1. PICK q : /\ q = IF Access.arg = "low" THEN cursor[index] ELSE Call.pos + cursor[index] * Byte
               /\ Continue("in", q, <<>>)
    BY DEF In
<1>2. calls # <<>> /\ Call.todo # <<>> /\ Access.op = "in"
    BY <1>1 DEF Continue
<1>3. /\ Call.todo \in Seq(Steps) /\ Call.pos \in 0 .. (Byte * Byte - 1)
      /\ ReadsOn(Call.todo, Call.pos)
    BY <1>2, TopCall
<1>4. Access \in Steps /\ Access = Call.todo[1]
    BY <1>2, <1>3, HeadTailProperties DEF Access
<1>5. Access.arg \in Registers /\ Access = Op("in", Access.arg)
    BY <1>2, <1>4, StepKinds
<1>6. PICK b \in 0 .. (Byte - 1) : b = cursor[index]
    BY DEF ConsoleTyped
<1>7. Access = ReadLow => q < Byte /\ q \in 0 .. (Byte * Byte - 1)
    <2>1. Access = ReadLow => Access.arg = "low"
        BY DEF ReadLow, Op
    <2> QED
        BY <1>1, <1>6, <2>1, ByteFacts
<1>8. Access = ReadHigh => q \in 0 .. (Byte * Byte - 1)
    <2> SUFFICES ASSUME Access = ReadHigh PROVE q \in 0 .. (Byte * Byte - 1)
        OBVIOUS
    <2>1. Access.arg = "high"
        BY DEF ReadHigh, Op
    <2>2. 1 \in 1 .. Len(Call.todo) /\ Call.todo[1] = ReadHigh
        BY <1>2, <1>3, <1>4
    <2>3. Call.pos \in 0 .. (Byte - 1)
        BY <1>3, <2>2, ByteFacts DEF ReadsOn
    <2> QED
        BY <1>1, <1>6, <2>1, <2>3, TwoBytes
<1>9. Access = ReadLow \/ Access = ReadHigh
    BY <1>5 DEF Registers, ReadLow, ReadHigh
<1>10. Call.todo[1].op # "select"
    BY <1>2, <1>4
<1>11. ReadsOn(Tail(Call.todo), q) /\ Tail(Call.todo) \in Seq(Steps)
    BY <1>2, <1>3, <1>4, <1>7, <1>10, RestReadsOn, HeadTailProperties
<1>12. <<>> \o Tail(Call.todo) = Tail(Call.todo) /\ <<>> \in Seq(Steps)
    BY <1>11, ConcatEmptySeq
<1>13. /\ cells' \in [Positions -> Texts] /\ cursor' \in [Registers -> 0 .. (Byte - 1)]
       /\ index' \in Registers /\ followed' \in BOOLEAN
    BY DEF In, ConsoleTyped
<1> QED
    BY <1>1, <1>7, <1>8, <1>9, <1>11, <1>12, <1>13, ContinueTyped

LEMMA SetTyped ==
    ASSUME NEW x \in Nat, NEW y \in Nat
    PROVE  set_cursor_pos(x, y) \in Seq(Steps) /\ NoReads(set_cursor_pos(x, y))
<1>1. PICK p : p = x + VGA_WIDTH * y /\ p \in Nat
    BY ByteFacts
<1>2. PICK q : q = (IF p >= VGA_EXTENT THEN VGA_EXTENT - 1 ELSE p) /\ q \in Nat
    BY <1>1, ByteFacts
<1>3. set_cursor_pos(x, y) = OutPos(q)
    BY <1>1, <1>2 DEF set_cursor_pos
<1> QED
    BY <1>2, <1>3, OutTyped

LEMMA ScrollLineTyped == scroll_line \in Seq(Steps) /\ NoReads(scroll_line)
<1>1. Op("scroll", "") \in Steps /\ Op("scroll", "") # ReadHigh
    BY StepFacts DEF Op, ReadHigh
<1>2. 0 \in Nat /\ VGA_HEIGHT - 1 \in Nat
    BY ByteFacts
<1> QED
    BY <1>1, <1>2, OneTyped, SetTyped, NoReadsJoin DEF scroll_line

LEMMA RowNat == ASSUME NEW p \in Nat PROVE Row(p) \in Nat /\ (Row(p) + 1) % Byte \in Nat
<1>1. p \div VGA_WIDTH \in Nat
    BY ByteFacts
<1>2. Row(p) \in Nat
    BY <1>1, ByteFacts DEF Row
<1> QED
    BY <1>2, ByteFacts

LEMMA NextRowTyped ==
    ASSUME NEW p \in Nat
    PROVE  NextRow(p) \in Seq(Steps) /\ NoReads(NextRow(p))
<1>1. PICK row : row = (Row(p) + 1) % Byte /\ row \in Nat
    BY RowNat
<1>2. NextRow(p) = IF row >= VGA_HEIGHT THEN scroll_line ELSE set_cursor_pos(0, row)
    BY <1>1 DEF NextRow
<1>3. set_cursor_pos(0, row) \in Seq(Steps) /\ NoReads(set_cursor_pos(0, row))
    BY <1>1, SetTyped
<1> QED
    BY <1>2, <1>3, ScrollLineTyped

LEMMA AdvancedTyped ==
    ASSUME NEW p \in Nat
    PROVE  Advanced(p) \in Seq(Steps) /\ NoReads(Advanced(p))
<1>1. PICK s : s = (IF p >= VGA_EXTENT THEN scroll_line ELSE <<>>) /\ s \in Seq(Steps) /\ NoReads(s)
    BY ScrollLineTyped, EmptyTyped
<1>2. Advanced(p) = s \o OutPos(p)
    BY <1>1 DEF Advanced
<1> QED
    BY <1>1, <1>2, OutTyped, NoReadsJoin

LEMMA OutStepTyped == ConsoleTyped /\ Out => ConsoleTyped'
<1> SUFFICES ASSUME ConsoleTyped, Out PROVE ConsoleTyped'
    OBVIOUS
<1>1. calls # <<>> /\ Continue("out", Call.pos, <<>>)
    BY DEF Out, Continue
<1>2. Call.pos \in 0 .. (Byte * Byte - 1)
    BY <1>1, TopCall
<1>3. Access \in Steps /\ Access.op = "out"
    BY <1>1, <1>2, EmptyTyped, ContinueFacts
<1>4. Access.arg \in 0 .. (Byte - 1)
    BY <1>3, StepKinds
<1>5. cursor' \in [Registers -> 0 .. (Byte - 1)]
    BY <1>4 DEF Out, ConsoleTyped
<1>6. cells' \in [Positions -> Texts] /\ index' = index /\ followed' \in BOOLEAN
    BY DEF Out, ConsoleTyped
<1> QED
    <2>1. PICK s : s = <<>> /\ s \in Seq(Steps) /\ NoReads(s)
        BY EmptyTyped
    <2>2. PICK op : op = "out" /\ op \notin {"select", "in"}
        OBVIOUS
    <2>3. Continue(op, Call.pos, s)
        BY <1>1, <2>1, <2>2
    <2> QED
        BY <1>5, <1>6, <2>1, <2>2, <2>3, OtherTyped

LEMMA PutStepTyped == ConsoleTyped /\ Put => ConsoleTyped'
<1> SUFFICES ASSUME ConsoleTyped, Put PROVE ConsoleTyped'
    OBVIOUS
<1>1. calls # <<>> /\ Continue("put", Call.pos, <<>>)
    BY DEF Put, Continue
<1>2. Call.pos \in 0 .. (Byte * Byte - 1)
    BY <1>1, TopCall
<1>3. Access \in Steps /\ Access.op = "put"
    BY <1>1, <1>2, EmptyTyped, ContinueFacts
<1>4. Access.arg \in Texts
    BY <1>3, StepKinds
<1>5. cells' \in [Positions -> Texts]
    BY <1>4 DEF Put, ConsoleTyped
<1>6. followed' \in BOOLEAN
    BY DEF Put
<1>7. cursor' \in [Registers -> 0 .. (Byte - 1)] /\ index' = index
    BY DEF Put, ConsoleTyped
<1> QED
    <2>1. PICK s : s = <<>> /\ s \in Seq(Steps) /\ NoReads(s)
        BY EmptyTyped
    <2>2. PICK op : op = "put" /\ op \notin {"select", "in"}
        OBVIOUS
    <2>3. Continue(op, Call.pos, s)
        BY <1>1, <2>1, <2>2
    <2> QED
        BY <1>5, <1>6, <1>7, <2>1, <2>2, <2>3, OtherTyped

LEMMA AdvanceStepTyped == ConsoleTyped /\ Advance => ConsoleTyped'
<1> SUFFICES ASSUME ConsoleTyped, Advance PROVE ConsoleTyped'
    OBVIOUS
<1>1. calls # <<>>
    BY DEF Advance, Continue
<1>2. PICK p \in 0 .. (Byte * Byte - 1) : p = Call.pos
    BY <1>1, TopCall
<1>3. (p + 1) % (Byte * Byte) \in Nat
    BY <1>2, ByteFacts
<1>4. PICK s : s = Advanced((p + 1) % (Byte * Byte)) /\ s \in Seq(Steps) /\ NoReads(s)
    BY <1>3, AdvancedTyped
<1>5. Continue("advance", Call.pos, s)
    BY <1>2, <1>4 DEF Advance
<1>6. followed' \in BOOLEAN
    BY DEF Advance
<1>7. cells' \in [Positions -> Texts] /\ cursor' \in [Registers -> 0 .. (Byte - 1)] /\ index' = index
    BY DEF Advance, ConsoleTyped
<1> QED
    BY <1>4, <1>5, <1>6, <1>7, OtherTyped

LEMMA ReturnTyped == ConsoleTyped /\ Return => ConsoleTyped'
<1> SUFFICES ASSUME ConsoleTyped, Return PROVE ConsoleTyped'
    OBVIOUS
<1>1. calls # <<>>
    BY DEF Return, Continue
<1>2. PICK p \in 0 .. (Byte * Byte - 1) : p = Call.pos
    BY <1>1, TopCall
<1>3. Row(p) \in Nat
    BY <1>2, RowNat
<1>4. PICK s : s = set_cursor_pos(0, Row(p)) /\ s \in Seq(Steps) /\ NoReads(s)
    BY <1>3, SetTyped
<1>5. Continue("return", Call.pos, s)
    BY <1>2, <1>4 DEF Return
<1>6. followed' \in BOOLEAN
    BY DEF Return
<1>7. cells' \in [Positions -> Texts] /\ cursor' \in [Registers -> 0 .. (Byte - 1)] /\ index' = index
    BY DEF Return, ConsoleTyped
<1> QED
    BY <1>4, <1>5, <1>6, <1>7, OtherTyped

LEMMA NextRowStepTyped == ConsoleTyped /\ GoToNextRow => ConsoleTyped'
<1> SUFFICES ASSUME ConsoleTyped, GoToNextRow PROVE ConsoleTyped'
    OBVIOUS
<1>1. calls # <<>>
    BY DEF GoToNextRow, Continue
<1>2. PICK p \in 0 .. (Byte * Byte - 1) : p = Call.pos
    BY <1>1, TopCall
<1>3. PICK s : s = NextRow(p) /\ s \in Seq(Steps) /\ NoReads(s)
    BY <1>2, NextRowTyped
<1>4. Continue("newline", Call.pos, s)
    BY <1>2, <1>3 DEF GoToNextRow
<1>5. /\ cells' \in [Positions -> Texts] /\ cursor' \in [Registers -> 0 .. (Byte - 1)]
      /\ index' = index /\ followed' \in BOOLEAN
    BY DEF GoToNextRow, ConsoleTyped
<1> QED
    BY <1>3, <1>4, <1>5, OtherTyped

LEMMA ScrollTyped == ConsoleTyped /\ Scroll => ConsoleTyped'
<1> SUFFICES ASSUME ConsoleTyped, Scroll PROVE ConsoleTyped'
    OBVIOUS
<1>1. Continue("scroll", Call.pos, <<>>)
    BY DEF Scroll
<1>2. ASSUME NEW p \in Positions
      PROVE  Scrolled(p) \in Texts
    <2>1. p + VGA_WIDTH < VGA_EXTENT => p + VGA_WIDTH \in Positions
        BY ByteFacts DEF Positions
    <2> QED
        BY <2>1 DEF Scrolled, ConsoleTyped, Texts
<1>3. cells' \in [Positions -> Texts]
    BY <1>2 DEF Scroll
<1>4. cursor' \in [Registers -> 0 .. (Byte - 1)] /\ index' = index /\ followed' \in BOOLEAN
    BY DEF Scroll, ConsoleTyped
<1> QED
    <2>1. PICK s : s = <<>> /\ s \in Seq(Steps) /\ NoReads(s)
        BY EmptyTyped
    <2>2. PICK op : op = "scroll" /\ op \notin {"select", "in"}
        OBVIOUS
    <2>3. Continue(op, Call.pos, s)
        BY <1>1, <2>1, <2>2
    <2> QED
        BY <1>3, <1>4, <2>1, <2>2, <2>3, OtherTyped

LEMMA FinishFacts ==
    ASSUME ConsoleTyped, Finish
    PROVE  /\ Len(calls) = 1 => calls' = <<>>
           /\ Len(calls) = 2 => calls' = <<calls[1]>>
           /\ Len(calls) \in 1 .. 2 /\ calls' \in Seq(CallRecords)
<1>1. calls # <<>> /\ calls' = Front(calls)
    BY DEF Finish
<1>2. Len(calls) \in 1 .. 2 /\ calls \in Seq(CallRecords)
    BY <1>1, CallsLength
<1>3. PICK S : S = CallRecords
    OBVIOUS
<1>4. calls' = SubSeq(calls, 1, Len(calls) - 1) /\ calls \in Seq(S)
    BY <1>1, <1>2, <1>3 DEF Front
<1>5. Len(calls) = 1 => calls' = <<>> /\ calls' \in Seq(S)
    BY <1>4
<1>6. Len(calls) = 2 => calls' = <<calls[1]>> /\ calls' \in Seq(S)
    <2> SUFFICES ASSUME Len(calls) = 2 PROVE calls' = <<calls[1]>> /\ calls' \in Seq(S)
        OBVIOUS
    <2>1. calls' = SubSeq(calls, 1, 1) /\ calls[1] \in S
        BY <1>4
    <2>2. PICK a \in S : a = calls[1]
        BY <2>1
    <2>3. Len(calls') = 1 /\ calls'[1] = a /\ calls' \in Seq(S)
        BY <2>1, <2>2, SubSeqProperties
    <2>4. calls' = <<a>>
        BY <2>3
    <2> QED
        BY <2>2, <2>3, <2>4
<1> QED
    BY <1>2, <1>3, <1>5, <1>6

LEMMA FinishTyped == ConsoleTyped /\ Finish => ConsoleTyped'
<1> SUFFICES ASSUME ConsoleTyped, Finish PROVE ConsoleTyped'
    OBVIOUS
<1>1. CASE Len(calls) = 1
    BY <1>1, FinishFacts DEF ConsoleTyped, Finish
<1>2. CASE Len(calls) = 2
    <2>1. calls' = <<calls[1]>> /\ calls' \in Seq(CallRecords)
        BY <1>2, FinishFacts
    <2>2. Len(calls') = 1 /\ calls'[1] = calls[1]
        BY <2>1
    <2>3. ReadsOn(calls[1].todo, calls[1].pos)
        BY <1>2 DEF ConsoleTyped
    <2> QED
        BY <2>1, <2>2, <2>3 DEF ConsoleTyped, Finish
<1> QED
    BY <1>1, <1>2, FinishFacts

LEMMA ConsoleInitTyped == ConsoleInit => ConsoleTyped
<1> SUFFICES ASSUME ConsoleInit PROVE ConsoleTyped
    OBVIOUS
<1>1. cells \in [Positions -> Texts] /\ index \in Registers /\ followed \in BOOLEAN
    BY DEF ConsoleInit, Texts, Registers
<1>2. cursor \in [Registers -> 0 .. (Byte - 1)]
    BY ByteFacts DEF ConsoleInit, Registers
<1>3. calls \in Seq(CallRecords) /\ Len(calls) = 0
    BY DEF ConsoleInit
<1> QED
    BY <1>1, <1>2, <1>3 DEF ConsoleTyped

LEMMA ConsoleNextTyped == ConsoleTyped /\ ConsoleNext => ConsoleTyped'
BY KputcharTyped, InterruptTyped, SelectTyped, InTyped, OutStepTyped, PutStepTyped,
   AdvanceStepTyped, ReturnTyped, NextRowStepTyped, ScrollTyped, FinishTyped DEF ConsoleNext

-----------------------------------------------------------------------------
(***************************************************************************)
(* Where in its list a call is that no interrupt struck.  get_cursor_pos   *)
(* and the writes of a position are cut into what is left of them, with    *)
(* rest the accesses that follow.                                          *)
(***************************************************************************)

SelectLow == Op("select", "low")
SelectHigh == Op("select", "high")

Reads4(rest) == Cons(ReadHigh, rest)
Reads3(rest) == Cons(SelectHigh, Reads4(rest))
Reads2(rest) == Cons(ReadLow, Reads3(rest))
Reads1(rest) == Cons(SelectLow, Reads2(rest))

(* Reading the position, up to the point where pos is the cursor. *)
Reading(todo, pos, regs, selected, rest) ==
    \/ todo = Reads1(rest)
    \/ todo = Reads2(rest) /\ selected = "low"
    \/ todo = Reads3(rest) /\ pos = regs["low"]
    \/ todo = Reads4(rest) /\ pos = regs["low"] /\ selected = "high"
    \/ todo = rest /\ pos = CursorAt(regs)

WriteOf(register, q) == Op("out", ByteOf(register, q))

Writes4(q, rest) == Cons(WriteOf("high", q), rest)
Writes3(q, rest) == Cons(SelectHigh, Writes4(q, rest))
Writes2(q, rest) == Cons(WriteOf("low", q), Writes3(q, rest))
Writes1(q, rest) == Cons(SelectLow, Writes2(q, rest))

(* Writing the position q, up to the last byte. *)
Writing(todo, regs, selected, q, rest) ==
    \/ todo = Writes1(q, rest)
    \/ todo = Writes2(q, rest) /\ selected = "low"
    \/ todo = Writes3(q, rest) /\ regs["low"] = ByteOf("low", q)
    \/ todo = Writes4(q, rest) /\ regs["low"] = ByteOf("low", q) /\ selected = "high"

LEMMA ConsFacts ==
    ASSUME NEW S, NEW a \in S, NEW s \in Seq(S)
    PROVE  /\ Cons(a, s) \in Seq(S) /\ Cons(a, s) # <<>>
           /\ Head(Cons(a, s)) = a /\ Cons(a, s)[1] = a /\ Tail(Cons(a, s)) = s
<1>1. PICK t : t = Cons(a, s) /\ t = <<a>> \o s
    BY DEF Cons
<1>2. /\ <<a>> \in Seq(S) /\ Len(<<a>>) = 1 /\ <<a>>[1] = a
    OBVIOUS
<1>3. Len(s) \in Nat
    BY LenProperties
<1>4. /\ t \in Seq(S) /\ Len(t) = 1 + Len(s)
      /\ \A i \in 1 .. (1 + Len(s)) : t[i] = IF i <= 1 THEN a ELSE s[i - 1]
    BY <1>1, <1>2, ConcatProperties
<1>5. t[1] = a /\ Len(t) # 0
    BY <1>3, <1>4
<1>6. t # <<>> /\ Head(t) = a
    BY <1>4, <1>5
<1>7. Tail(t) \in Seq(S) /\ Len(Tail(t)) = Len(s) /\ \A i \in 1 .. Len(Tail(t)) : Tail(t)[i] = t[i + 1]
    BY <1>3, <1>4, <1>6, HeadTailProperties
<1>8. \A i \in 1 .. Len(s) : Tail(t)[i] = s[i]
    BY <1>3, <1>4, <1>7
<1>9. Tail(t) = s
    BY <1>7, <1>8, SeqEqual
<1> QED
    BY <1>1, <1>4, <1>5, <1>6, <1>9

LEMMA ConsIndex ==
    ASSUME NEW S, NEW a \in S, NEW s \in Seq(S), NEW n \in Nat, Len(s) = n
    PROVE  \E t \in Seq(S) : /\ t = Cons(a, s) /\ Len(t) = n + 1 /\ t[1] = a
                             /\ \A i \in 1 .. n : t[i + 1] = s[i]
<1>1. PICK t : t = Cons(a, s) /\ t = <<a>> \o s
    BY DEF Cons
<1>2. /\ <<a>> \in Seq(S) /\ Len(<<a>>) = 1 /\ <<a>>[1] = a
    OBVIOUS
<1>3. Len(s) \in Nat
    BY LenProperties
<1>4. /\ t \in Seq(S) /\ Len(t) = 1 + Len(s)
      /\ \A i \in 1 .. (1 + Len(s)) : t[i] = IF i <= 1 THEN a ELSE s[i - 1]
    BY <1>1, <1>2, ConcatProperties
<1> QED
    BY <1>1, <1>3, <1>4

LEMMA ReadsTyped ==
    ASSUME NEW rest \in Seq(Steps)
    PROVE  /\ Reads4(rest) \in Seq(Steps) /\ Reads3(rest) \in Seq(Steps)
           /\ Reads2(rest) \in Seq(Steps) /\ Reads1(rest) \in Seq(Steps)
<1>1. ReadHigh \in Steps /\ ReadLow \in Steps /\ SelectHigh \in Steps /\ SelectLow \in Steps
    BY StepFacts DEF ReadHigh, ReadLow, SelectHigh, SelectLow, Registers
<1>2. Reads4(rest) \in Seq(Steps)
    BY <1>1, ConsFacts DEF Reads4
<1>3. Reads3(rest) \in Seq(Steps)
    BY <1>1, <1>2, ConsFacts DEF Reads3
<1>4. Reads2(rest) \in Seq(Steps)
    BY <1>1, <1>3, ConsFacts DEF Reads2
<1> QED
    BY <1>1, <1>2, <1>3, <1>4, ConsFacts DEF Reads1

LEMMA WritesTyped ==
    ASSUME NEW rest \in Seq(Steps), NEW q \in Nat
    PROVE  /\ Writes4(q, rest) \in Seq(Steps) /\ Writes3(q, rest) \in Seq(Steps)
           /\ Writes2(q, rest) \in Seq(Steps) /\ Writes1(q, rest) \in Seq(Steps)
           /\ WriteOf("high", q) \in Steps /\ WriteOf("low", q) \in Steps
<1>1. SelectHigh \in Steps /\ SelectLow \in Steps
    BY StepFacts DEF SelectHigh, SelectLow, Registers
<1>2. WriteOf("high", q) \in Steps /\ WriteOf("low", q) \in Steps
    BY Bytes, StepFacts DEF WriteOf
<1>3. Writes4(q, rest) \in Seq(Steps)
    BY <1>2, ConsFacts DEF Writes4
<1>4. Writes3(q, rest) \in Seq(Steps)
    BY <1>1, <1>3, ConsFacts DEF Writes3
<1>5. Writes2(q, rest) \in Seq(Steps)
    BY <1>2, <1>4, ConsFacts DEF Writes2
<1> QED
    BY <1>1, <1>2, <1>3, <1>4, <1>5, ConsFacts DEF Writes1

(* A list of four, put before another one. *)
LEMMA FourConsed ==
    ASSUME NEW S, NEW a \in S, NEW b \in S, NEW c \in S, NEW d \in S, NEW s \in Seq(S)
    PROVE  <<a, b, c, d>> \o s = Cons(a, Cons(b, Cons(c, Cons(d, s))))
<1>1. PICK n \in Nat : n = Len(s)
    BY LenProperties
<1>2. PICK z \in Seq(S) : /\ z = Cons(d, s) /\ Len(z) = n + 1 /\ z[1] = d
                         /\ \A i \in 1 .. n : z[i + 1] = s[i]
    BY <1>1, ConsIndex
<1>3. PICK n1, n2, n3 \in Nat : n1 = n + 1 /\ n2 = n + 2 /\ n3 = n + 3
    OBVIOUS
<1>4. PICK y \in Seq(S) : /\ y = Cons(c, z) /\ Len(y) = n1 + 1 /\ y[1] = c
                         /\ \A i \in 1 .. n1 : y[i + 1] = z[i]
    BY <1>2, <1>3, ConsIndex
<1>5. n1 + 1 = n2 /\ n2 + 1 = n3 /\ n3 + 1 = 4 + n
    BY <1>3
<1>6. PICK x \in Seq(S) : /\ x = Cons(b, y) /\ Len(x) = n2 + 1 /\ x[1] = b
                         /\ \A i \in 1 .. n2 : x[i + 1] = y[i]
    BY <1>4, <1>5, ConsIndex
<1>7. PICK w \in Seq(S) : /\ w = Cons(a, x) /\ Len(w) = n3 + 1 /\ w[1] = a
                         /\ \A i \in 1 .. n3 : w[i + 1] = x[i]
    BY <1>5, <1>6, ConsIndex
<1>8. PICK f \in Seq(S) : /\ f = <<a, b, c, d>> /\ Len(f) = 4
                         /\ f[1] = a /\ f[2] = b /\ f[3] = c /\ f[4] = d
    <2>1. <<a, b, c, d>> \in Seq(S)
        OBVIOUS
    <2> QED
        BY <2>1
<1>9. /\ f \o s \in Seq(S) /\ Len(f \o s) = 4 + n
      /\ \A i \in 1 .. (4 + n) : (f \o s)[i] = IF i <= 4 THEN f[i] ELSE s[i - 4]
    BY <1>1, <1>8, ConcatProperties
<1>10. w[1] = a /\ w[2] = b /\ w[3] = c /\ w[4] = d
    <2>1. w[1 + 1] = x[1] /\ w[2 + 1] = x[2] /\ w[3 + 1] = x[3]
        BY <1>3, <1>7
    <2>2. x[1 + 1] = y[1] /\ x[2 + 1] = y[2]
        BY <1>3, <1>6
    <2>3. y[1 + 1] = z[1]
        BY <1>3, <1>4
    <2> QED
        BY <1>2, <1>4, <1>6, <1>7, <2>1, <2>2, <2>3
<1>11. ASSUME NEW i \in 1 .. n PROVE w[i + 4] = s[i]
    <2>1. z[i + 1] = s[i]
        BY <1>2
    <2>2. y[(i + 1) + 1] = z[i + 1]
        BY <1>3, <1>4
    <2>3. x[(i + 2) + 1] = y[i + 2]
        BY <1>3, <1>6
    <2>4. w[(i + 3) + 1] = x[i + 3]
        BY <1>3, <1>7
    <2> QED
        BY <2>1, <2>2, <2>3, <2>4
<1>12. ASSUME NEW i \in 1 .. (4 + n) PROVE (f \o s)[i] = w[i]
    <2>1. CASE i <= 4
        <3>1. i = 1 \/ i = 2 \/ i = 3 \/ i = 4
            BY <2>1
        <3>2. (f \o s)[i] = f[i]
            BY <1>9, <2>1
        <3> QED
            BY <1>8, <1>10, <3>1, <3>2
    <2>2. CASE i > 4
        <3>1. i - 4 \in 1 .. n /\ (i - 4) + 4 = i
            BY <2>2
        <3>2. w[(i - 4) + 4] = s[i - 4]
            BY <1>11, <3>1
        <3> QED
            BY <1>9, <2>2, <3>1, <3>2
    <2>3. i <= 4 \/ i > 4
        OBVIOUS
    <2> QED
        BY ONLY <2>1, <2>2, <2>3
<1>13. f \o s = w
    BY <1>5, <1>7, <1>9, <1>12, SeqEqual
<1> QED
    BY <1>2, <1>4, <1>6, <1>7, <1>8, <1>13

LEMMA GetConsed ==
    ASSUME NEW rest \in Seq(Steps)
    PROVE  get_cursor_pos \o rest = Reads1(rest)
<1>1. ReadHigh \in Steps /\ ReadLow \in Steps /\ SelectHigh \in Steps /\ SelectLow \in Steps
    BY StepFacts DEF ReadHigh, ReadLow, SelectHigh, SelectLow, Registers
<1>2. get_cursor_pos = <<SelectLow, ReadLow, SelectHigh, ReadHigh>>
    BY DEF get_cursor_pos, SelectLow, ReadLow, SelectHigh, ReadHigh
<1> QED
    BY <1>1, <1>2, FourConsed DEF Reads1, Reads2, Reads3, Reads4

LEMMA OutConsed ==
    ASSUME NEW q \in Nat, NEW rest \in Seq(Steps)
    PROVE  OutPos(q) \o rest = Writes1(q, rest)
<1>1. SelectHigh \in Steps /\ SelectLow \in Steps
    BY StepFacts DEF SelectHigh, SelectLow, Registers
<1>2. WriteOf("high", q) \in Steps /\ WriteOf("low", q) \in Steps
    BY WritesTyped
<1>3. OutPos(q) = <<SelectLow, WriteOf("low", q), SelectHigh, WriteOf("high", q)>>
    BY DEF OutPos, SelectLow, SelectHigh, WriteOf
<1> QED
    BY <1>1, <1>2, <1>3, FourConsed DEF Writes1, Writes2, Writes3, Writes4

LEMMA SetConsed ==
    ASSUME NEW y \in 0 .. (VGA_HEIGHT - 1), NEW rest \in Seq(Steps)
    PROVE  /\ set_cursor_pos(0, y) \o rest = Writes1(VGA_WIDTH * y, rest)
           /\ VGA_WIDTH * y \in Nat /\ VGA_WIDTH * y + VGA_WIDTH <= VGA_EXTENT
<1>1. PICK p : p = VGA_WIDTH * y /\ p \in Nat
    BY ByteFacts
<1>2. VGA_WIDTH * (y + 1) <= VGA_WIDTH * VGA_HEIGHT
    BY ByteFacts
<1>3. VGA_WIDTH * (y + 1) = p + VGA_WIDTH
    BY <1>1, ByteFacts
<1>4. p + VGA_WIDTH <= VGA_EXTENT
    BY <1>2, <1>3, ByteFacts DEF VGA_EXTENT
<1>5. 0 + p = p /\ ~(p >= VGA_EXTENT)
    BY <1>1, <1>4, ByteFacts
<1>6. set_cursor_pos(0, y) = OutPos(p)
    BY <1>1, <1>5 DEF set_cursor_pos
<1> QED
    BY <1>1, <1>4, <1>6, OutConsed

ScrollOp == Op("scroll", "")
LastRow == VGA_WIDTH * (VGA_HEIGHT - 1)

LEMMA ScrollConsed ==
    ASSUME NEW rest \in Seq(Steps)
    PROVE  scroll_line \o rest = Cons(ScrollOp, Writes1(LastRow, rest))
<1>1. PICK y \in 0 .. (VGA_HEIGHT - 1) : y = VGA_HEIGHT - 1
    BY ByteFacts
<1>2. set_cursor_pos(0, y) \o rest = Writes1(VGA_WIDTH * y, rest) /\ VGA_WIDTH * y = LastRow
    BY <1>1, SetConsed DEF LastRow
<1>3. set_cursor_pos(0, y) \in Seq(Steps)
    BY SetTyped
<1>4. PICK s : s = set_cursor_pos(0, y) /\ s \in Seq(Steps) /\ s \o rest = Writes1(LastRow, rest)
    BY <1>2, <1>3
<1>5. ScrollOp \in Steps
    BY StepFacts DEF ScrollOp
<1>6. <<ScrollOp>> \in Seq(Steps)
    BY <1>5
<1>7. scroll_line = <<ScrollOp>> \o s
    BY <1>1, <1>4 DEF scroll_line, ScrollOp
<1>8. scroll_line \o rest = <<ScrollOp>> \o (s \o rest)
    BY <1>4, <1>6, <1>7, ConcatAssociative
<1> QED
    BY <1>4, <1>8 DEF Cons

-----------------------------------------------------------------------------
(***************************************************************************)
(* What each access does, by its kind.                                     *)
(***************************************************************************)

ConsoleMove == Select \/ In \/ Out \/ Put \/ Advance \/ Return \/ GoToNextRow \/ Scroll

(* The call on top goes on with todo and pos. *)
GoesOn(todo, pos) ==
    /\ Len(calls') = Len(calls) /\ Len(calls) \in 1 .. 2 /\ terminal' = terminal
    /\ Call' = [char |-> Call.char, todo |-> todo, pos |-> pos, whole |-> Call.whole]

LEMMA GoesOnFields ==
    ASSUME NEW todo, NEW pos, GoesOn(todo, pos)
    PROVE  /\ Call'.todo = todo /\ Call'.pos = pos
           /\ Call'.char = Call.char /\ Call'.whole = Call.whole
           /\ Len(calls') = Len(calls) /\ Len(calls) \in 1 .. 2 /\ terminal' = terminal
BY DEF GoesOn

LEMMA MoveBegins ==
    ASSUME ConsoleTyped, ConsoleMove
    PROVE  /\ calls # <<>> /\ Call.todo \in Seq(Steps) /\ Call.todo # <<>>
           /\ Access = Head(Call.todo) /\ Tail(Call.todo) \in Seq(Steps)
<1>1. calls # <<>> /\ Call.todo # <<>>
    BY DEF ConsoleMove, Select, In, Out, Put, Advance, Return, GoToNextRow, Scroll, Continue
<1> QED
    BY <1>1, TopCall, HeadTailProperties DEF Access

LEMMA ContinueGoesOn ==
    ASSUME ConsoleTyped, NEW op, NEW pos, NEW more, Continue(op, pos, more)
    PROVE  GoesOn(more \o Tail(Call.todo), pos) /\ Access.op = op
BY ContinueDoes DEF GoesOn, Continue

LEMMA ContinueEmpty ==
    ASSUME ConsoleTyped, NEW op, NEW pos, Continue(op, pos, <<>>)
    PROVE  GoesOn(Tail(Call.todo), pos) /\ Access.op = op
<1>1. GoesOn(<<>> \o Tail(Call.todo), pos) /\ Access.op = op
    BY ContinueGoesOn
<1>2. Call.todo \in Seq(Steps) /\ Call.todo # <<>>
    BY ContinueDoes
<1>3. Tail(Call.todo) \in Seq(Steps)
    BY <1>2, HeadTailProperties
<1>4. <<>> \o Tail(Call.todo) = Tail(Call.todo)
    BY <1>3, ConcatEmptySeq
<1> QED
    BY <1>1, <1>4

LEMMA SelectDoes ==
    ASSUME ConsoleTyped, Select
    PROVE  /\ GoesOn(Tail(Call.todo), Call.pos) /\ Access.op = "select"
           /\ index' = Access.arg /\ UNCHANGED <<cells, cursor, followed>>
BY ContinueEmpty DEF Select

LEMMA InDoes ==
    ASSUME ConsoleTyped, In
    PROVE  /\ GoesOn(Tail(Call.todo), IF Access.arg = "low" THEN cursor[index]
                                      ELSE Call.pos + cursor[index] * Byte)
           /\ Access.op = "in" /\ UNCHANGED <<cells, cursor, index, followed>>
BY ContinueEmpty DEF In

LEMMA OutDoes ==
    ASSUME ConsoleTyped, Out
    PROVE  /\ GoesOn(Tail(Call.todo), Call.pos) /\ Access.op = "out"
           /\ cursor' = [cursor EXCEPT ![index] = Access.arg]
           /\ UNCHANGED <<cells, index, followed>>
BY ContinueEmpty DEF Out

LEMMA PutDoes ==
    ASSUME ConsoleTyped, Put
    PROVE  /\ GoesOn(Tail(Call.todo), Call.pos) /\ Access.op = "put"
           /\ cells' = IF Call.pos < VGA_EXTENT THEN [cells EXCEPT ![Call.pos] = Access.arg] ELSE cells
           /\ followed' = (followed /\ Call.pos < VGA_EXTENT)
           /\ UNCHANGED <<cursor, index>>
BY ContinueEmpty DEF Put

LEMMA AdvanceDoes ==
    ASSUME ConsoleTyped, Advance
    PROVE  /\ GoesOn(Advanced((Call.pos + 1) % (Byte * Byte)) \o Tail(Call.todo), Call.pos)
           /\ Access.op = "advance"
           /\ followed' = (followed /\ Call.pos < VGA_EXTENT)
           /\ UNCHANGED <<cells, cursor, index>>
BY ContinueGoesOn DEF Advance

LEMMA ReturnDoes ==
    ASSUME ConsoleTyped, Return
    PROVE  /\ GoesOn(set_cursor_pos(0, Row(Call.pos)) \o Tail(Call.todo), Call.pos)
           /\ Access.op = "return"
           /\ followed' = (followed /\ Call.pos < VGA_EXTENT)
           /\ UNCHANGED <<cells, cursor, index>>
BY ContinueGoesOn DEF Return

LEMMA NextRowDoes ==
    ASSUME ConsoleTyped, GoToNextRow
    PROVE  /\ GoesOn(NextRow(Call.pos) \o Tail(Call.todo), Call.pos)
           /\ Access.op = "newline" /\ UNCHANGED <<cells, cursor, index, followed>>
BY ContinueGoesOn DEF GoToNextRow

LEMMA ScrollDoes ==
    ASSUME ConsoleTyped, Scroll
    PROVE  /\ GoesOn(Tail(Call.todo), Call.pos) /\ Access.op = "scroll"
           /\ cells' = [p \in Positions |-> Scrolled(p)]
           /\ UNCHANGED <<cursor, index, followed>>
BY ContinueEmpty DEF Scroll

(* The kind of the first access decides which action it is. *)
LEMMA Dispatch ==
    ASSUME ConsoleTyped, ConsoleMove
    PROVE  /\ Access.op = "select" => Select
           /\ Access.op = "in" => In
           /\ Access.op = "out" => Out
           /\ Access.op = "put" => Put
           /\ Access.op = "advance" => Advance
           /\ Access.op = "return" => Return
           /\ Access.op = "newline" => GoToNextRow
           /\ Access.op = "scroll" => Scroll
<1>1. /\ Select => Access.op = "select"
      /\ In => Access.op = "in"
      /\ Out => Access.op = "out"
      /\ Put => Access.op = "put"
      /\ Advance => Access.op = "advance"
      /\ Return => Access.op = "return"
      /\ GoToNextRow => Access.op = "newline"
      /\ Scroll => Access.op = "scroll"
    BY SelectDoes, InDoes, OutDoes, PutDoes, AdvanceDoes, ReturnDoes, NextRowDoes, ScrollDoes
<1> QED
    BY <1>1 DEF ConsoleMove

(* A step of get_cursor_pos. *)
LEMMA ReadingStep ==
    ASSUME ConsoleTyped, ConsoleMove, NEW rest \in Seq(Steps), Call.todo # rest,
           Reading(Call.todo, Call.pos, cursor, index, rest)
    PROVE  /\ Reading(Call'.todo, Call'.pos, cursor', index', rest)
           /\ UNCHANGED <<cells, cursor, followed, terminal>>
           /\ Len(calls') = Len(calls) /\ Call'.char = Call.char /\ Call'.whole = Call.whole
<1>1. ReadHigh \in Steps /\ ReadLow \in Steps /\ SelectHigh \in Steps /\ SelectLow \in Steps
    BY StepFacts DEF ReadHigh, ReadLow, SelectHigh, SelectLow, Registers
<1>2. /\ ReadHigh.op = "in" /\ ReadHigh.arg = "high" /\ ReadLow.op = "in" /\ ReadLow.arg = "low"
      /\ SelectHigh.op = "select" /\ SelectHigh.arg = "high"
      /\ SelectLow.op = "select" /\ SelectLow.arg = "low"
    BY DEF ReadHigh, ReadLow, SelectHigh, SelectLow, Op
<1>3. Access = Head(Call.todo)
    BY MoveBegins
<1>4. CASE Call.todo = Reads1(rest)
    <2>1. Access = SelectLow /\ Tail(Call.todo) = Reads2(rest)
        BY <1>1, <1>3, <1>4, ReadsTyped, ConsFacts DEF Reads1
    <2>2. Select
        BY <1>2, <2>1, Dispatch
    <2>3. GoesOn(Reads2(rest), Call.pos) /\ index' = "low" /\ UNCHANGED <<cells, cursor, followed>>
        BY <1>2, <2>1, <2>2, SelectDoes
    <2> QED
        BY <2>3 DEF GoesOn, Reading
<1>5. CASE Call.todo = Reads2(rest) /\ index = "low"
    <2>1. Access = ReadLow /\ Tail(Call.todo) = Reads3(rest)
        BY <1>1, <1>3, <1>5, ReadsTyped, ConsFacts DEF Reads2
    <2>2. In
        BY <1>2, <2>1, Dispatch
    <2>3. GoesOn(Reads3(rest), cursor["low"]) /\ UNCHANGED <<cells, cursor, index, followed>>
        BY <1>2, <1>5, <2>1, <2>2, InDoes
    <2> QED
        BY <2>3 DEF GoesOn, Reading
<1>6. CASE Call.todo = Reads3(rest) /\ Call.pos = cursor["low"]
    <2>1. Access = SelectHigh /\ Tail(Call.todo) = Reads4(rest)
        BY <1>1, <1>3, <1>6, ReadsTyped, ConsFacts DEF Reads3
    <2>2. Select
        BY <1>2, <2>1, Dispatch
    <2>3. GoesOn(Reads4(rest), cursor["low"]) /\ index' = "high" /\ UNCHANGED <<cells, cursor, followed>>
        BY <1>2, <1>6, <2>1, <2>2, SelectDoes
    <2> QED
        BY <2>3 DEF GoesOn, Reading
<1>7. CASE Call.todo = Reads4(rest) /\ Call.pos = cursor["low"] /\ index = "high"
    <2>1. Access = ReadHigh /\ Tail(Call.todo) = rest
        BY <1>1, <1>3, <1>7, ConsFacts DEF Reads4
    <2>2. In
        BY <1>2, <2>1, Dispatch
    <2>3. GoesOn(rest, cursor["low"] + cursor["high"] * Byte) /\ UNCHANGED <<cells, cursor, index, followed>>
        BY <1>2, <1>7, <2>1, <2>2, InDoes
    <2>4. cursor["low"] + cursor["high"] * Byte = CursorAt(cursor)
        <3>1. cursor["low"] \in 0 .. (Byte - 1) /\ cursor["high"] \in 0 .. (Byte - 1)
            BY DEF ConsoleTyped, Registers
        <3>2. cursor["high"] * Byte \in Int
            BY <3>1, ByteFacts
        <3> QED
            BY <3>1, <3>2 DEF CursorAt
    <2> QED
        BY <2>3, <2>4 DEF GoesOn, Reading
<1> QED
    BY <1>4, <1>5, <1>6, <1>7 DEF Reading

(* The bytes of a position make the position. *)
LEMMA BytesOf ==
    ASSUME NEW q \in 0 .. (Byte * Byte - 1)
    PROVE  ByteOf("high", q) * Byte + ByteOf("low", q) = q
<1>1. q = Byte * (q \div Byte) + (q % Byte) /\ q \div Byte \in Nat /\ q % Byte \in 0 .. (Byte - 1)
    BY ByteFacts
<1>2. PICK d \in Nat : d = q \div Byte
    BY <1>1
<1>3. d < Byte
    <2>1. SUFFICES ASSUME d >= Byte PROVE FALSE
        BY <1>2, ByteFacts
    <2>2. Byte * d >= Byte * Byte
        BY <2>1, ByteFacts
    <2> QED
        BY <1>1, <1>2, <2>2, ByteFacts
<1>4. d % Byte = d
    BY <1>3, ByteFacts
<1>5. ByteOf("high", q) = d /\ ByteOf("low", q) = q % Byte
    BY <1>2, <1>4 DEF ByteOf
<1>6. d * Byte = Byte * d
    BY ByteFacts
<1> QED
    BY <1>1, <1>2, <1>5, <1>6

(* A step of the writes of a position: the last one leaves the cursor there. *)
LEMMA WritingStep ==
    ASSUME ConsoleTyped, ConsoleMove, NEW rest \in Seq(Steps), NEW q \in 0 .. (Byte * Byte - 1),
           Writing(Call.todo, cursor, index, q, rest)
    PROVE  /\ \/ Writing(Call'.todo, cursor', index', q, rest)
              \/ Call'.todo = rest /\ CursorAt(cursor') = q
           /\ UNCHANGED <<cells, followed, terminal>>
           /\ Len(calls') = Len(calls) /\ Call'.char = Call.char /\ Call'.whole = Call.whole
<1>1. q \in Nat
    BY ByteFacts
<1>2. /\ WriteOf("high", q) \in Steps /\ WriteOf("low", q) \in Steps
      /\ Writes4(q, rest) \in Seq(Steps) /\ Writes3(q, rest) \in Seq(Steps)
      /\ Writes2(q, rest) \in Seq(Steps)
    BY <1>1, WritesTyped
<1>3. SelectHigh \in Steps /\ SelectLow \in Steps
    BY StepFacts DEF SelectHigh, SelectLow, Registers
<1>4. /\ WriteOf("high", q).op = "out" /\ WriteOf("high", q).arg = ByteOf("high", q)
      /\ WriteOf("low", q).op = "out" /\ WriteOf("low", q).arg = ByteOf("low", q)
      /\ SelectHigh.op = "select" /\ SelectHigh.arg = "high"
      /\ SelectLow.op = "select" /\ SelectLow.arg = "low"
    BY DEF WriteOf, SelectHigh, SelectLow, Op
<1>5. Access = Head(Call.todo)
    BY MoveBegins
<1>6. CASE Call.todo = Writes1(q, rest)
    <2>1. Access = SelectLow /\ Tail(Call.todo) = Writes2(q, rest)
        BY <1>2, <1>3, <1>5, <1>6, ConsFacts DEF Writes1
    <2>2. Select
        BY <1>4, <2>1, Dispatch
    <2>3. GoesOn(Writes2(q, rest), Call.pos) /\ index' = "low" /\ UNCHANGED <<cells, cursor, followed>>
        BY <1>4, <2>1, <2>2, SelectDoes
    <2> QED
        BY <2>3 DEF GoesOn, Writing
<1>7. CASE Call.todo = Writes2(q, rest) /\ index = "low"
    <2>1. Access = WriteOf("low", q) /\ Tail(Call.todo) = Writes3(q, rest)
        BY <1>2, <1>3, <1>5, <1>7, ConsFacts DEF Writes2
    <2>2. Out
        BY <1>4, <2>1, Dispatch
    <2>3. /\ GoesOn(Writes3(q, rest), Call.pos) /\ UNCHANGED <<cells, index, followed>>
          /\ cursor' = [cursor EXCEPT !["low"] = ByteOf("low", q)]
        BY <1>4, <1>7, <2>1, <2>2, OutDoes
    <2>4. cursor'["low"] = ByteOf("low", q)
        BY <2>3 DEF ConsoleTyped, Registers
    <2> QED
        BY <2>3, <2>4 DEF GoesOn, Writing
<1>8. CASE Call.todo = Writes3(q, rest) /\ cursor["low"] = ByteOf("low", q)
    <2>1. Access = SelectHigh /\ Tail(Call.todo) = Writes4(q, rest)
        BY <1>2, <1>3, <1>5, <1>8, ConsFacts DEF Writes3
    <2>2. Select
        BY <1>4, <2>1, Dispatch
    <2>3. GoesOn(Writes4(q, rest), Call.pos) /\ index' = "high" /\ UNCHANGED <<cells, cursor, followed>>
        BY <1>4, <2>1, <2>2, SelectDoes
    <2> QED
        BY <1>8, <2>3 DEF GoesOn, Writing
<1>9. CASE Call.todo = Writes4(q, rest) /\ cursor["low"] = ByteOf("low", q) /\ index = "high"
    <2>1. Access = WriteOf("high", q) /\ Tail(Call.todo) = rest
        BY <1>2, <1>5, <1>9, ConsFacts DEF Writes4
    <2>2. Out
        BY <1>4, <2>1, Dispatch
    <2>3. /\ GoesOn(rest, Call.pos) /\ UNCHANGED <<cells, index, followed>>
          /\ cursor' = [cursor EXCEPT !["high"] = ByteOf("high", q)]
        BY <1>4, <1>9, <2>1, <2>2, OutDoes
    <2>4. cursor'["high"] = ByteOf("high", q) /\ cursor'["low"] = ByteOf("low", q)
        BY <1>9, <2>3 DEF ConsoleTyped, Registers
    <2>5. CursorAt(cursor') = q
        BY <2>4, BytesOf DEF CursorAt
    <2> QED
        BY <2>3, <2>5 DEF GoesOn
<1> QED
    BY <1>6, <1>7, <1>8, <1>9 DEF Writing

-----------------------------------------------------------------------------
(***************************************************************************)
(* A newline that no interrupt struck ends at the start of a row, wherever *)
(* the cursor was.                                                         *)
(***************************************************************************)

RowStarts == {VGA_WIDTH * row : row \in 0 .. (VGA_HEIGHT - 1)}
NewlineOp == Op("newline", "")

NewlinePhase(todo, pos, regs, selected) ==
    \/ Reading(todo, pos, regs, selected, <<NewlineOp>>)
    \/ \E q \in RowStarts :
          \/ todo = Cons(ScrollOp, Writes1(q, <<>>))
          \/ Writing(todo, regs, selected, q, <<>>)
    \/ todo = <<>> /\ CursorAt(regs) \in RowStarts

NewlineInv ==
    calls # <<>> /\ Call.char = Newline /\ Call.whole =>
        NewlinePhase(Call.todo, Call.pos, cursor, index)

LEMMA RowStartFacts ==
    /\ \A q \in RowStarts : q \in Nat /\ q < VGA_EXTENT /\ q \in 0 .. (Byte * Byte - 1)
    /\ LastRow \in RowStarts
<1>1. ASSUME NEW y \in 0 .. (VGA_HEIGHT - 1)
      PROVE  VGA_WIDTH * y \in Nat /\ VGA_WIDTH * y + VGA_WIDTH <= VGA_EXTENT
    BY SetConsed, EmptyTyped
<1>2. ASSUME NEW q \in RowStarts PROVE q \in Nat /\ q < VGA_EXTENT
    BY <1>1, ByteFacts DEF RowStarts
<1>3. VGA_HEIGHT - 1 \in 0 .. (VGA_HEIGHT - 1)
    BY ByteFacts
<1>4. LastRow \in RowStarts
    BY <1>3 DEF RowStarts, LastRow
<1> QED
    BY <1>2, <1>4, ByteFacts

LEMMA NewlineTyped == <<NewlineOp>> \in Seq(Steps) /\ NewlineOp \in Steps /\ ScrollOp \in Steps
                        /\ NewlineOp.op = "newline" /\ ScrollOp.op = "scroll"
<1>1. NewlineOp \in Steps /\ ScrollOp \in Steps
    BY StepFacts DEF NewlineOp, ScrollOp
<1>2. NewlineOp.op = "newline" /\ ScrollOp.op = "scroll"
    BY DEF NewlineOp, ScrollOp, Op
<1> QED
    BY <1>1, <1>2

(* Where '\n' goes, as a list of writes. *)
LEMMA NextRowConsed ==
    ASSUME NEW p \in Nat, NEW rest \in Seq(Steps), NEW row, row = (Row(p) + 1) % Byte
    PROVE  NextRow(p) \o rest =
              IF row >= VGA_HEIGHT THEN Cons(ScrollOp, Writes1(LastRow, rest))
              ELSE Writes1(VGA_WIDTH * row, rest)
<1>1. row \in Nat
    BY RowNat
<1>2. NextRow(p) = IF row >= VGA_HEIGHT THEN scroll_line ELSE set_cursor_pos(0, row)
    BY DEF NextRow
<1>3. CASE row >= VGA_HEIGHT
    BY <1>2, <1>3, ScrollConsed
<1>4. CASE ~(row >= VGA_HEIGHT)
    <2>1. row \in 0 .. (VGA_HEIGHT - 1)
        BY <1>1, <1>4, ByteFacts
    <2> QED
        BY <1>2, <1>4, <2>1, SetConsed
<1> QED
    BY <1>3, <1>4

LEMMA NewCallReads ==
    ASSUME NEW c \in AllChars, c = Newline
    PROVE  Accesses(c) = Reads1(<<NewlineOp>>)
<1>1. Accesses(c) = get_cursor_pos \o <<NewlineOp>>
    BY SpecialChars DEF Accesses, NewlineOp
<1> QED
    BY <1>1, NewlineTyped, GetConsed

LEMMA NewlineBegins ==
    ASSUME NEW c \in AllChars, Call' = NewCall(c)
    PROVE  NewlineInv'
<1> SUFFICES ASSUME c = Newline PROVE NewlineInv'
    BY DEF NewlineInv, NewCall
<1>1. Call'.todo = Reads1(<<NewlineOp>>)
    BY NewCallReads DEF NewCall
<1> QED
    BY <1>1 DEF NewlineInv, NewlinePhase, Reading

LEMMA NewlineMove == ConsoleTyped /\ NewlineInv /\ ConsoleMove => NewlineInv'
<1> SUFFICES ASSUME ConsoleTyped, NewlineInv, ConsoleMove, (calls # <<>> /\ Call.char = Newline /\ Call.whole)'
             PROVE  NewlinePhase(Call'.todo, Call'.pos, cursor', index')
    BY DEF NewlineInv
<1>1. calls # <<>> /\ Access = Head(Call.todo) /\ Call.pos \in 0 .. (Byte * Byte - 1)
    BY MoveBegins, TopCall
<1>2. Call.char = Call'.char /\ Call.whole = Call'.whole
    <2>1. PICK todo, pos : GoesOn(todo, pos)
        BY SelectDoes, InDoes, OutDoes, PutDoes, AdvanceDoes, ReturnDoes, NextRowDoes, ScrollDoes
        DEF ConsoleMove
    <2> QED
        BY <2>1 DEF GoesOn
<1>3. NewlinePhase(Call.todo, Call.pos, cursor, index)
    BY <1>1, <1>2 DEF NewlineInv
<1>4. <<NewlineOp>> \in Seq(Steps) /\ <<>> \in Seq(Steps)
    BY NewlineTyped, EmptyTyped
<1>5. CASE Reading(Call.todo, Call.pos, cursor, index, <<NewlineOp>>) /\ Call.todo # <<NewlineOp>>
    BY <1>4, <1>5, ReadingStep DEF NewlinePhase
<1>6. CASE Call.todo = <<NewlineOp>>
    <2>1. Access = NewlineOp /\ Tail(Call.todo) = <<>>
        BY <1>1, <1>6
    <2>2. GoToNextRow
        BY <2>1, NewlineTyped, Dispatch
    <2>3. GoesOn(NextRow(Call.pos) \o <<>>, Call.pos)
        BY <2>1, <2>2, NextRowDoes
    <2>4. PICK p \in Nat : p = Call.pos
        BY <1>1, ByteFacts
    <2>5. PICK row : row = (Row(p) + 1) % Byte /\ row \in Nat
        BY RowNat
    <2>6. NextRow(p) \o <<>> = IF row >= VGA_HEIGHT THEN Cons(ScrollOp, Writes1(LastRow, <<>>))
                              ELSE Writes1(VGA_WIDTH * row, <<>>)
        BY <1>4, <2>5, NextRowConsed
    <2>7. Call'.todo = IF row >= VGA_HEIGHT THEN Cons(ScrollOp, Writes1(LastRow, <<>>))
                       ELSE Writes1(VGA_WIDTH * row, <<>>)
        BY <2>3, <2>4, <2>6, GoesOnFields
    <2>8. CASE row >= VGA_HEIGHT
        BY <2>7, <2>8, RowStartFacts DEF NewlinePhase
    <2>9. CASE ~(row >= VGA_HEIGHT)
        <3>1. row \in 0 .. (VGA_HEIGHT - 1)
            BY <2>5, <2>9, ByteFacts
        <3>2. VGA_WIDTH * row \in RowStarts
            BY <3>1 DEF RowStarts
        <3> QED
            BY <2>7, <2>9, <3>2 DEF NewlinePhase, Writing
    <2> QED
        BY <2>8, <2>9
<1>7. ASSUME NEW q \in RowStarts, Call.todo = Cons(ScrollOp, Writes1(q, <<>>))
      PROVE  NewlinePhase(Call'.todo, Call'.pos, cursor', index')
    <2>1. q \in Nat
        BY RowStartFacts
    <2>2. Writes1(q, <<>>) \in Seq(Steps)
        BY <1>4, <2>1, WritesTyped
    <2>3. Access = ScrollOp /\ Tail(Call.todo) = Writes1(q, <<>>)
        BY <1>1, <1>7, <2>2, NewlineTyped, ConsFacts
    <2>4. Scroll
        BY <2>3, NewlineTyped, Dispatch
    <2>5. GoesOn(Writes1(q, <<>>), Call.pos)
        BY <2>3, <2>4, ScrollDoes
    <2>6. Call'.todo = Writes1(q, <<>>)
        BY <2>5, GoesOnFields
    <2> QED
        BY <2>6 DEF NewlinePhase, Writing
<1>8. ASSUME NEW q \in RowStarts, Writing(Call.todo, cursor, index, q, <<>>)
      PROVE  NewlinePhase(Call'.todo, Call'.pos, cursor', index')
    <2>1. q \in 0 .. (Byte * Byte - 1)
        BY RowStartFacts
    <2>2. \/ Writing(Call'.todo, cursor', index', q, <<>>)
          \/ Call'.todo = <<>> /\ CursorAt(cursor') = q
        BY <1>4, <1>8, <2>1, WritingStep
    <2> QED
        BY <2>2 DEF NewlinePhase
<1>9. Call.todo # <<>>
    BY MoveBegins
<1> QED
    BY <1>3, <1>5, <1>6, <1>7, <1>8, <1>9 DEF NewlinePhase

LEMMA NewlineFinish == ConsoleTyped /\ Finish => NewlineInv'
<1> SUFFICES ASSUME ConsoleTyped, Finish PROVE NewlineInv'
    OBVIOUS
<1>1. CASE Len(calls) = 1
    BY <1>1, FinishFacts DEF NewlineInv
<1>2. CASE Len(calls) = 2
    <2>1. calls' = <<calls[1]>>
        BY <1>2, FinishFacts
    <2>2. Call' = calls[1]
        BY <2>1 DEF Call, Last
    <2> QED
        BY <1>2, <2>2 DEF NewlineInv, ConsoleTyped
<1> QED
    BY <1>1, <1>2, FinishFacts

LEMMA KputcharCall == ASSUME NEW c, Kputchar(c) PROVE Call' = NewCall(c) /\ Len(calls') = 1
BY DEF Kputchar, Call, Last

LEMMA InterruptCall == ASSUME NEW c, InterruptPrints(c) PROVE Call' = NewCall(c) /\ Len(calls') = 2
BY DEF InterruptPrints, Call, Last

LEMMA NewlineNext == ConsoleTyped /\ NewlineInv /\ ConsoleNext => NewlineInv'
<1>1. ASSUME NEW c \in AllChars, Kputchar(c) PROVE NewlineInv'
    BY <1>1, KputcharCall, NewlineBegins
<1>2. ASSUME NEW c \in AllChars, InterruptPrints(c) PROVE NewlineInv'
    BY <1>2, InterruptCall, NewlineBegins
<1> QED
    BY <1>1, <1>2, NewlineMove, NewlineFinish DEF ConsoleNext, ConsoleMove

(* What the list of a call looks like is never empty before the end. *)
LEMMA PhasesNotEmpty ==
    ASSUME NEW rest \in Seq(Steps), NEW pos, NEW regs, NEW selected
    PROVE  /\ rest # <<>> => ~Reading(<<>>, pos, regs, selected, rest)
           /\ \A q \in Nat : ~Writing(<<>>, regs, selected, q, rest)
           /\ Cons(ScrollOp, rest) # <<>>
<1>1. ReadHigh \in Steps /\ ReadLow \in Steps /\ SelectHigh \in Steps /\ SelectLow \in Steps
    BY StepFacts DEF ReadHigh, ReadLow, SelectHigh, SelectLow, Registers
<1>2. Reads4(rest) # <<>> /\ Reads3(rest) # <<>> /\ Reads2(rest) # <<>> /\ Reads1(rest) # <<>>
    BY <1>1, ReadsTyped, ConsFacts DEF Reads4, Reads3, Reads2, Reads1
<1>3. ASSUME NEW q \in Nat PROVE ~Writing(<<>>, regs, selected, q, rest)
    <2>1. /\ WriteOf("high", q) \in Steps /\ WriteOf("low", q) \in Steps
          /\ Writes4(q, rest) \in Seq(Steps) /\ Writes3(q, rest) \in Seq(Steps)
          /\ Writes2(q, rest) \in Seq(Steps)
        BY WritesTyped
    <2>2. /\ Writes4(q, rest) # <<>> /\ Writes3(q, rest) # <<>>
          /\ Writes2(q, rest) # <<>> /\ Writes1(q, rest) # <<>>
        BY <1>1, <2>1, ConsFacts DEF Writes4, Writes3, Writes2, Writes1
    <2> QED
        BY <2>2 DEF Writing
<1>4. Cons(ScrollOp, rest) # <<>>
    BY NewlineTyped, ConsFacts
<1> QED
    BY <1>2, <1>3, <1>4 DEF Reading

LEMMA NewlineEnds ==
    ASSUME ConsoleTyped, NewlineInv, Finish, Call.char = Newline, Call.whole
    PROVE  CursorAt(cursor) \in RowStarts
<1>1. calls # <<>> /\ Call.todo = <<>>
    BY DEF Finish
<1>2. NewlinePhase(<<>>, Call.pos, cursor, index)
    BY <1>1 DEF NewlineInv
<1>3. <<NewlineOp>> # <<>> /\ <<NewlineOp>> \in Seq(Steps) /\ <<>> \in Seq(Steps)
    BY NewlineTyped, EmptyTyped
<1>4. ~Reading(<<>>, Call.pos, cursor, index, <<NewlineOp>>)
    BY <1>3, PhasesNotEmpty
<1>5. ASSUME NEW q \in RowStarts
      PROVE  ~Writing(<<>>, cursor, index, q, <<>>) /\ Cons(ScrollOp, Writes1(q, <<>>)) # <<>>
    <2>1. q \in Nat
        BY RowStartFacts
    <2>2. Writes1(q, <<>>) \in Seq(Steps)
        BY <1>3, <2>1, WritesTyped
    <2> QED
        BY <1>3, <2>1, <2>2, PhasesNotEmpty
<1> QED
    BY <1>2, <1>4, <1>5 DEF NewlinePhase

-----------------------------------------------------------------------------
(***************************************************************************)
(* The reference terminal, and the window that shows it.                   *)
(***************************************************************************)

TextLines == [0 .. (VGA_WIDTH - 1) -> Texts]
TextPages == {s \in Seq(TextLines) : Len(s) \in 1 .. VGA_HEIGHT}
Terminals == [lines : TextPages, column : 0 .. (VGA_WIDTH - 1)]

(* Where the terminal types next. *)
TypesAt(t) == VGA_WIDTH * (Len(t.lines) - 1) + t.column

Typed(t, c) == [t EXCEPT !.lines[Len(t.lines)][t.column] = c]

LEMMA TerminalFields ==
    ASSUME NEW t \in Terminals
    PROVE  /\ t.lines \in Seq(TextLines) /\ Len(t.lines) \in 1 .. VGA_HEIGHT
           /\ t.column \in 0 .. (VGA_WIDTH - 1)
           /\ t = [lines |-> t.lines, column |-> t.column]
BY DEF Terminals, TextPages

LEMMA BlankTyped == BlankLine \in TextLines
BY SpecialChars DEF BlankLine, TextLines

(* Appending a line, and dropping the first one. *)
LEMMA Longer ==
    ASSUME NEW s \in Seq(TextLines)
    PROVE  /\ Append(s, BlankLine) \in Seq(TextLines)
           /\ Len(Append(s, BlankLine)) = Len(s) + 1
           /\ Append(s, BlankLine)[Len(s) + 1] = BlankLine
           /\ \A i \in 1 .. Len(s) : Append(s, BlankLine)[i] = s[i]
           /\ Tail(Append(s, BlankLine)) \in Seq(TextLines)
           /\ Len(Tail(Append(s, BlankLine))) = Len(s)
           /\ \A i \in 1 .. Len(s) : Tail(Append(s, BlankLine))[i] = Append(s, BlankLine)[i + 1]
<1>1. PICK b \in TextLines : b = BlankLine
    BY BlankTyped
<1>2. PICK l : l = Append(s, b)
    OBVIOUS
<1>3. PICK n \in Nat : n = Len(s)
    BY LenProperties
<1>4. l \in Seq(TextLines) /\ Len(l) = n + 1 /\ l[n + 1] = b /\ \A i \in 1 .. n : l[i] = s[i]
    BY <1>2, <1>3, AppendProperties
<1>5. l # <<>>
    BY <1>4
<1>6. Tail(l) \in Seq(TextLines) /\ Len(Tail(l)) = n /\ \A i \in 1 .. n : Tail(l)[i] = l[i + 1]
    BY <1>4, <1>5, HeadTailProperties
<1> QED
    BY <1>1, <1>2, <1>3, <1>4, <1>6

LEMMA NewLineTyped ==
    ASSUME NEW t \in Terminals
    PROVE  /\ NewLine(t) \in Terminals /\ NewLine(t).column = 0
           /\ Len(t.lines) < VGA_HEIGHT =>
                /\ Len(NewLine(t).lines) = Len(t.lines) + 1
                /\ NewLine(t).lines[Len(t.lines) + 1] = BlankLine
                /\ \A i \in 1 .. Len(t.lines) : NewLine(t).lines[i] = t.lines[i]
           /\ Len(t.lines) = VGA_HEIGHT =>
                /\ Len(NewLine(t).lines) = VGA_HEIGHT
                /\ NewLine(t).lines[VGA_HEIGHT] = BlankLine
                /\ \A i \in 1 .. (VGA_HEIGHT - 1) : NewLine(t).lines[i] = t.lines[i + 1]
<1>1. PICK s \in Seq(TextLines) : s = t.lines
    BY TerminalFields
<1>2. PICK n \in 1 .. VGA_HEIGHT : n = Len(s)
    BY <1>1, TerminalFields
<1>3. n \in Nat
    OBVIOUS
<1>4. PICK l : l = Append(s, BlankLine)
    OBVIOUS
<1>5. /\ l \in Seq(TextLines) /\ Len(l) = n + 1 /\ l[n + 1] = BlankLine
      /\ \A i \in 1 .. n : l[i] = s[i]
      /\ Tail(l) \in Seq(TextLines) /\ Len(Tail(l)) = n
      /\ \A i \in 1 .. n : Tail(l)[i] = l[i + 1]
    BY <1>2, <1>4, Longer
<1>6. n < VGA_HEIGHT \/ n = VGA_HEIGHT
    BY ByteFacts
<1>7. Len(t.lines) = n
    BY <1>1, <1>2
<1>8. NewLine(t) = [lines |-> IF n + 1 > VGA_HEIGHT THEN Tail(l) ELSE l, column |-> 0]
    BY <1>1, <1>4, <1>5 DEF NewLine
<1>9. CASE n < VGA_HEIGHT
    <2>1. NewLine(t) = [lines |-> l, column |-> 0]
        BY <1>8, <1>9, ByteFacts
    <2>2. n + 1 \in 1 .. VGA_HEIGHT /\ 0 \in 0 .. (VGA_WIDTH - 1)
        BY <1>9, ByteFacts
    <2>3. NewLine(t) \in Terminals
        BY <1>5, <2>1, <2>2 DEF Terminals, TextPages
    <2>4. NewLine(t).lines = l /\ NewLine(t).column = 0
        BY <2>1
    <2> QED
        BY <1>1, <1>5, <1>7, <1>9, <2>3, <2>4
<1>10. CASE n = VGA_HEIGHT
    <2>1. n + 1 > VGA_HEIGHT
        BY <1>10, ByteFacts
    <2>2. NewLine(t) = [lines |-> Tail(l), column |-> 0]
        BY <1>8, <2>1
    <2>3. n \in 1 .. VGA_HEIGHT /\ 0 \in 0 .. (VGA_WIDTH - 1)
        BY ByteFacts
    <2>4. NewLine(t) \in Terminals
        BY <1>5, <2>2, <2>3 DEF Terminals, TextPages
    <2>5. NewLine(t).lines = Tail(l) /\ NewLine(t).column = 0
        BY <2>2
    <2>6. Tail(l)[n] = BlankLine
        BY <1>5
    <2>7. ASSUME NEW i \in 1 .. (n - 1) PROVE Tail(l)[i] = s[i + 1]
        BY <1>5
    <2> QED
        BY <1>1, <1>5, <1>7, <1>10, <2>4, <2>5, <2>6, <2>7
<1> QED
    BY <1>6, <1>9, <1>10

(* Rows and columns of a position. *)
LEMMA DivUnique ==
    ASSUME NEW s \in Nat \ {0}, NEW a \in Nat, NEW b \in 0 .. (s - 1), NEW x, x = s * a + b
    PROVE  x \in Nat /\ x \div s = a /\ x % s = b
<1>1. x \in Nat
    OBVIOUS
<1>2. PICK p \in Nat : p = x \div s
    BY <1>1
<1>3. PICK r \in 0 .. (s - 1) : r = x % s
    BY <1>1
<1>4. x = s * p + r
    BY <1>1, <1>2, <1>3
<1>5. s * (p - a) = b - r
    BY <1>4
<1>6. PICK d \in Int : d = p - a
    OBVIOUS
<1>7. ~(d >= 1)
    <2> SUFFICES ASSUME d >= 1 PROVE FALSE
        OBVIOUS
    <2>1. s * d >= s
        OBVIOUS
    <2> QED
        BY <1>5, <1>6, <2>1
<1>8. ~(d <= -1)
    <2> SUFFICES ASSUME d <= -1 PROVE FALSE
        OBVIOUS
    <2>1. s * d <= -s
        OBVIOUS
    <2> QED
        BY <1>5, <1>6, <2>1
<1>9. d = 0
    BY <1>7, <1>8
<1> QED
    BY <1>1, <1>2, <1>3, <1>5, <1>6, <1>9

LEMMA Place ==
    ASSUME NEW p \in Positions
    PROVE  /\ p \in Nat /\ p \div VGA_WIDTH \in 0 .. (VGA_HEIGHT - 1)
           /\ p % VGA_WIDTH \in 0 .. (VGA_WIDTH - 1)
           /\ p = VGA_WIDTH * (p \div VGA_WIDTH) + (p % VGA_WIDTH)
<1>1. p \in Nat /\ p < VGA_EXTENT
    BY ByteFacts DEF Positions
<1>2. /\ p % VGA_WIDTH \in 0 .. (VGA_WIDTH - 1) /\ p \div VGA_WIDTH \in Nat
      /\ p = VGA_WIDTH * (p \div VGA_WIDTH) + (p % VGA_WIDTH)
    BY <1>1, ByteFacts
<1>3. PICK d \in Nat : d = p \div VGA_WIDTH
    BY <1>2
<1>4. ~(d >= VGA_HEIGHT)
    <2> SUFFICES ASSUME d >= VGA_HEIGHT PROVE FALSE
        OBVIOUS
    <2>1. VGA_WIDTH * d >= VGA_WIDTH * VGA_HEIGHT
        BY ByteFacts
    <2>2. PICK e \in Int : e = VGA_WIDTH * d
        BY ByteFacts
    <2> QED
        BY <1>1, <1>2, <1>3, <2>1, <2>2, ByteFacts DEF VGA_EXTENT
<1>5. d \in 0 .. (VGA_HEIGHT - 1)
    BY <1>4, ByteFacts
<1> QED
    BY <1>1, <1>2, <1>3, <1>5

(* Rows fit in the window. *)
LEMMA RowFits ==
    ASSUME NEW a \in 0 .. (VGA_HEIGHT - 1), NEW b \in 0 .. (VGA_WIDTH - 1), NEW x,
           x = VGA_WIDTH * a + b
    PROVE  /\ x \in Positions /\ x \in Nat /\ x < VGA_EXTENT
           /\ x \div VGA_WIDTH = a /\ x % VGA_WIDTH = b
<1>1. VGA_WIDTH \in Nat \ {0} /\ a \in Nat
    BY ByteFacts
<1>2. x \in Nat /\ x \div VGA_WIDTH = a /\ x % VGA_WIDTH = b
    BY <1>1, DivUnique
<1>3. VGA_WIDTH * a \in Nat /\ VGA_WIDTH * a + VGA_WIDTH <= VGA_EXTENT
    BY SetConsed, EmptyTyped
<1>4. PICK e \in Nat : e = VGA_WIDTH * a
    BY <1>3
<1>5. x = e + b /\ e + VGA_WIDTH <= VGA_EXTENT
    BY <1>3, <1>4
<1>6. x < VGA_EXTENT
    BY <1>5, ByteFacts
<1> QED
    BY <1>2, <1>6, ByteFacts DEF Positions

ShownAt(t, row, col) == IF row < Len(t.lines) THEN t.lines[row + 1][col] ELSE Space

LEMMA WindowAt ==
    ASSUME NEW t
    PROVE  /\ Window(t) = [p \in Positions |-> ShownAt(t, p \div VGA_WIDTH, p % VGA_WIDTH)]
           /\ \A p \in Positions : Window(t)[p] = ShownAt(t, p \div VGA_WIDTH, p % VGA_WIDTH)
BY DEF Window, ShownAt

LEMMA TypesAtFacts ==
    ASSUME NEW t \in Terminals
    PROVE  /\ TypesAt(t) \in Positions /\ TypesAt(t) \in Nat /\ TypesAt(t) < VGA_EXTENT
           /\ TypesAt(t) \div VGA_WIDTH = Len(t.lines) - 1
           /\ TypesAt(t) % VGA_WIDTH = t.column
<1>1. PICK a \in 0 .. (VGA_HEIGHT - 1) : a = Len(t.lines) - 1
    BY TerminalFields, ByteFacts
<1> QED
    BY <1>1, TerminalFields, RowFits DEF TypesAt

LEMMA TypedFacts ==
    ASSUME NEW t \in Terminals, NEW c \in Texts
    PROVE  /\ Typed(t, c) \in Terminals /\ Typed(t, c).column = t.column
           /\ Len(Typed(t, c).lines) = Len(t.lines)
           /\ \A i \in 1 .. Len(t.lines), k \in 0 .. (VGA_WIDTH - 1) :
                Typed(t, c).lines[i][k] =
                    IF i = Len(t.lines) /\ k = t.column THEN c ELSE t.lines[i][k]
<1>1. PICK s \in Seq(TextLines) : s = t.lines
    BY TerminalFields
<1>2. PICK n \in 1 .. VGA_HEIGHT : n = Len(s)
    BY <1>1, TerminalFields
<1>3. PICK j \in 0 .. (VGA_WIDTH - 1) : j = t.column
    BY TerminalFields
<1>4. t = [lines |-> s, column |-> j]
    BY <1>1, <1>3, TerminalFields
<1>5. n \in 1 .. Len(s) /\ s[n] \in TextLines
    BY <1>2, ByteFacts
<1>6. PICK l : l = [s[n] EXCEPT ![j] = c]
    OBVIOUS
<1>7. l \in TextLines /\ \A k \in 0 .. (VGA_WIDTH - 1) : l[k] = IF k = j THEN c ELSE s[n][k]
    BY <1>5, <1>6 DEF TextLines
<1>8. PICK r : r = [s EXCEPT ![n] = l]
    OBVIOUS
<1>9. /\ r \in Seq(TextLines) /\ Len(r) = n /\ r[n] = l
      /\ \A i \in 1 .. n : i # n => r[i] = s[i]
    BY <1>2, <1>5, <1>7, <1>8
<1>10. Typed(t, c) = [t EXCEPT !.lines[n][j] = c]
    BY <1>1, <1>2, <1>3 DEF Typed
<1>11. [t EXCEPT !.lines[n][j] = c] = [lines |-> r, column |-> j]
    BY <1>4, <1>6, <1>8
<1>12. PICK u : u = Typed(t, c) /\ u = [lines |-> r, column |-> j]
    BY <1>10, <1>11
<1>13. u.lines = r /\ u.column = j
    BY <1>12
<1>14. u \in Terminals
    BY <1>2, <1>9, <1>12 DEF Terminals, TextPages
<1>15. ASSUME NEW i \in 1 .. n, NEW k \in 0 .. (VGA_WIDTH - 1)
       PROVE  r[i][k] = IF i = n /\ k = j THEN c ELSE s[i][k]
    BY <1>7, <1>9
<1>16. Len(t.lines) = n
    BY <1>1, <1>2
<1>17. u \in Terminals /\ u.column = t.column /\ Len(u.lines) = n
    BY <1>3, <1>9, <1>13, <1>14
<1>18. \A i \in 1 .. n, k \in 0 .. (VGA_WIDTH - 1) :
            u.lines[i][k] = IF i = n /\ k = t.column THEN c ELSE t.lines[i][k]
    BY <1>1, <1>3, <1>13, <1>15
<1> QED
    BY ONLY <1>12, <1>16, <1>17, <1>18

(* Typing changes the cell it types at. *)
LEMMA WindowTyped ==
    ASSUME NEW t \in Terminals, NEW c \in Texts
    PROVE  Window(Typed(t, c)) = [Window(t) EXCEPT ![TypesAt(t)] = c]
<1>1. PICK n \in 1 .. VGA_HEIGHT : n = Len(t.lines)
    BY TerminalFields
<1>2. PICK j \in 0 .. (VGA_WIDTH - 1) : j = t.column
    BY TerminalFields
<1>3. PICK u : u = Typed(t, c)
    OBVIOUS
<1>4. /\ Len(u.lines) = n
      /\ \A i \in 1 .. n, k \in 0 .. (VGA_WIDTH - 1) :
            u.lines[i][k] = IF i = n /\ k = j THEN c ELSE t.lines[i][k]
    BY ONLY <1>1, <1>2, <1>3, TypedFacts, t \in Terminals, c \in Texts
<1>5. PICK q : q = TypesAt(t)
    OBVIOUS
<1>6. q \in Positions /\ q \div VGA_WIDTH = n - 1 /\ q % VGA_WIDTH = j
    BY <1>1, <1>2, <1>5, TypesAtFacts
<1>7. q = VGA_WIDTH * (n - 1) + j
    BY <1>1, <1>2, <1>5 DEF TypesAt
<1>8. ASSUME NEW p \in Positions
      PROVE  ShownAt(u, p \div VGA_WIDTH, p % VGA_WIDTH)
               = IF p = q THEN c ELSE ShownAt(t, p \div VGA_WIDTH, p % VGA_WIDTH)
    <2>1. PICK a \in 0 .. (VGA_HEIGHT - 1) : a = p \div VGA_WIDTH
        BY Place
    <2>2. PICK b \in 0 .. (VGA_WIDTH - 1) : b = p % VGA_WIDTH
        BY Place
    <2>3. p = VGA_WIDTH * a + b
        BY <2>1, <2>2, Place
    <2>4. p = q => a = n - 1 /\ b = j
        BY <1>6, <2>1, <2>2
    <2>5. a = n - 1 /\ b = j => p = q
        BY <1>7, <2>3
    <2>6. CASE a < n
        <3>1. a + 1 \in 1 .. n
            BY <2>6
        <3>2. u.lines[a + 1][b] = IF a + 1 = n /\ b = j THEN c ELSE t.lines[a + 1][b]
            BY <1>4, <3>1
        <3>3. (a + 1 = n /\ b = j) <=> p = q
            BY <2>4, <2>5
        <3> QED
            BY <1>1, <1>4, <2>1, <2>2, <2>6, <3>2, <3>3 DEF ShownAt
    <2>7. CASE ~(a < n)
        <3>1. p # q
            BY <2>4, <2>7
        <3> QED
            BY <1>1, <1>4, <2>1, <2>2, <2>7, <3>1 DEF ShownAt
    <2> QED
        BY <2>6, <2>7
<1>9. /\ Window(u) = [p \in Positions |-> ShownAt(u, p \div VGA_WIDTH, p % VGA_WIDTH)]
      /\ Window(t) = [p \in Positions |-> ShownAt(t, p \div VGA_WIDTH, p % VGA_WIDTH)]
    BY WindowAt
<1>10. ASSUME NEW p \in Positions
       PROVE  Window(u)[p] = [Window(t) EXCEPT ![q] = c][p]
    BY <1>8, <1>9
<1>11. Window(u) = [Window(t) EXCEPT ![q] = c]
    BY <1>9, <1>10
<1> QED
    BY <1>3, <1>5, <1>11

(* Only the lines are shown. *)
LEMMA WindowOfLines ==
    ASSUME NEW t, NEW u, t.lines = u.lines
    PROVE  Window(t) = Window(u)
BY DEF Window

(* A new line inside the window is blank as the window was below the lines. *)
LEMMA WindowLonger ==
    ASSUME NEW t \in Terminals, Len(t.lines) < VGA_HEIGHT
    PROVE  Window(NewLine(t)) = Window(t)
<1>1. PICK n \in 1 .. VGA_HEIGHT : n = Len(t.lines)
    BY TerminalFields
<1>2. PICK u : u = NewLine(t)
    OBVIOUS
<1>3. /\ Len(u.lines) = n + 1 /\ u.lines[n + 1] = BlankLine
      /\ \A i \in 1 .. n : u.lines[i] = t.lines[i]
    BY <1>1, <1>2, NewLineTyped
<1>4. ASSUME NEW p \in Positions
      PROVE  ShownAt(u, p \div VGA_WIDTH, p % VGA_WIDTH) = ShownAt(t, p \div VGA_WIDTH, p % VGA_WIDTH)
    <2>1. PICK a \in 0 .. (VGA_HEIGHT - 1) : a = p \div VGA_WIDTH
        BY Place
    <2>2. PICK b \in 0 .. (VGA_WIDTH - 1) : b = p % VGA_WIDTH
        BY Place
    <2>3. CASE a < n
        <3>1. a + 1 \in 1 .. n /\ a < n + 1
            BY <2>3
        <3> QED
            BY <1>1, <1>3, <2>1, <2>2, <2>3, <3>1 DEF ShownAt
    <2>4. CASE a = n
        <3>1. u.lines[a + 1][b] = Space
            BY <1>3, <2>4 DEF BlankLine
        <3>2. ~(a < n) /\ a < n + 1
            BY <2>4
        <3> QED
            BY <1>1, <1>3, <2>1, <2>2, <3>1, <3>2 DEF ShownAt
    <2>5. CASE a > n
        <3>1. ~(a < n) /\ ~(a < n + 1)
            BY <2>5
        <3> QED
            BY <1>1, <1>3, <2>1, <2>2, <3>1 DEF ShownAt
    <2>6. a < n \/ a = n \/ a > n
        BY ByteFacts
    <2> QED
        BY <2>3, <2>4, <2>5, <2>6
<1> QED
    BY <1>2, <1>4, WindowAt

(* With the window full a new line shows it scrolled. *)
LEMMA WindowScrolled ==
    ASSUME NEW t \in Terminals, Len(t.lines) = VGA_HEIGHT, cells = Window(t)
    PROVE  Window(NewLine(t)) = [p \in Positions |-> Scrolled(p)]
<1>1. PICK u : u = NewLine(t)
    OBVIOUS
<1>2. /\ Len(u.lines) = VGA_HEIGHT /\ u.lines[VGA_HEIGHT] = BlankLine
      /\ \A i \in 1 .. (VGA_HEIGHT - 1) : u.lines[i] = t.lines[i + 1]
    BY <1>1, NewLineTyped
<1>3. ASSUME NEW p \in Positions
      PROVE  ShownAt(u, p \div VGA_WIDTH, p % VGA_WIDTH) = Scrolled(p)
    <2>1. PICK a \in 0 .. (VGA_HEIGHT - 1) : a = p \div VGA_WIDTH
        BY Place
    <2>2. PICK b \in 0 .. (VGA_WIDTH - 1) : b = p % VGA_WIDTH
        BY Place
    <2>3. p = VGA_WIDTH * a + b /\ p \in Nat
        BY <2>1, <2>2, Place
    <2>4. ShownAt(u, a, b) = u.lines[a + 1][b]
        BY <1>2 DEF ShownAt
    <2>5. CASE a < VGA_HEIGHT - 1
        <3>1. a + 1 \in 0 .. (VGA_HEIGHT - 1) /\ a + 1 \in 1 .. (VGA_HEIGHT - 1)
            BY <2>5, ByteFacts
        <3>2. PICK x : x = p + VGA_WIDTH
            OBVIOUS
        <3>3. x = VGA_WIDTH * (a + 1) + b
            BY <2>3, <3>2, ByteFacts
        <3>4. x \in Positions /\ x < VGA_EXTENT /\ x \div VGA_WIDTH = a + 1 /\ x % VGA_WIDTH = b
            BY <3>1, <3>3, RowFits
        <3>5. Scrolled(p) = cells[x]
            BY <3>2, <3>4 DEF Scrolled
        <3>6. cells[x] = ShownAt(t, a + 1, b)
            BY <3>4, WindowAt
        <3>7. ShownAt(t, a + 1, b) = t.lines[a + 1 + 1][b]
            BY <3>1 DEF ShownAt
        <3> QED
            BY <1>2, <2>1, <2>2, <2>4, <3>1, <3>5, <3>6, <3>7
    <2>6. CASE a = VGA_HEIGHT - 1
        <3>1. u.lines[a + 1][b] = Space
            BY <1>2, <2>6, ByteFacts DEF BlankLine
        <3>2. PICK e \in Nat : e = VGA_WIDTH * a
            BY ByteFacts
        <3>3. e + VGA_WIDTH = VGA_EXTENT
            BY <2>6, <3>2, ByteFacts DEF VGA_EXTENT
        <3>4. ~(p + VGA_WIDTH < VGA_EXTENT)
            BY <2>3, <3>2, <3>3, ByteFacts
        <3> QED
            BY <2>1, <2>2, <2>4, <3>1, <3>4 DEF Scrolled
    <2>7. a < VGA_HEIGHT - 1 \/ a = VGA_HEIGHT - 1
        BY ByteFacts
    <2> QED
        BY <2>5, <2>6, <2>7
<1> QED
    BY <1>1, <1>3, WindowAt

(* Where the terminal types after a new line, a return and a move. *)
LEMMA NewLineAt ==
    ASSUME NEW t \in Terminals
    PROVE  /\ Len(t.lines) < VGA_HEIGHT =>
                TypesAt(NewLine(t)) = VGA_WIDTH * Len(t.lines) /\ VGA_WIDTH * Len(t.lines) < VGA_EXTENT
           /\ Len(t.lines) = VGA_HEIGHT =>
                TypesAt(NewLine(t)) = LastRow /\ VGA_WIDTH * Len(t.lines) = VGA_EXTENT
<1>1. PICK n \in 1 .. VGA_HEIGHT : n = Len(t.lines)
    BY TerminalFields
<1>2. PICK u \in Terminals : u = NewLine(t) /\ u.column = 0
    BY NewLineTyped
<1>3. CASE n < VGA_HEIGHT
    <2>1. Len(u.lines) = n + 1
        BY <1>1, <1>2, <1>3, NewLineTyped
    <2>2. TypesAt(u) = VGA_WIDTH * n
        <3>1. n + 1 - 1 = n /\ VGA_WIDTH * n \in Nat
            BY ByteFacts
        <3> QED
            BY <1>2, <2>1, <3>1 DEF TypesAt
    <2>3. TypesAt(u) < VGA_EXTENT
        BY TypesAtFacts
    <2> QED
        BY <1>1, <1>2, <1>3, <2>2, <2>3
<1>4. CASE n = VGA_HEIGHT
    <2>1. Len(u.lines) = VGA_HEIGHT
        BY <1>1, <1>2, <1>4, NewLineTyped
    <2>2. TypesAt(u) = LastRow
        <3>1. LastRow \in Nat
            BY ByteFacts DEF LastRow
        <3> QED
            BY <1>2, <2>1, <3>1 DEF TypesAt, LastRow
    <2> QED
        BY <1>1, <1>2, <1>4, <2>2 DEF VGA_EXTENT
<1> QED
    BY <1>1, <1>3, <1>4

LEMMA ColumnFacts ==
    ASSUME NEW t \in Terminals, NEW k \in 0 .. (VGA_WIDTH - 1)
    PROVE  /\ [t EXCEPT !.column = k] \in Terminals
           /\ [t EXCEPT !.column = k].lines = t.lines
           /\ TypesAt([t EXCEPT !.column = k]) = VGA_WIDTH * (Len(t.lines) - 1) + k
           /\ Window([t EXCEPT !.column = k]) = Window(t)
<1>1. PICK s, j : t = [lines |-> s, column |-> j] /\ s \in TextPages /\ t.lines = s
    BY DEF Terminals
<1>2. [t EXCEPT !.column = k] = [lines |-> s, column |-> k]
    BY <1>1
<1>3. PICK u : u = [t EXCEPT !.column = k] /\ u = [lines |-> s, column |-> k]
    BY <1>2
<1>4. u \in Terminals /\ u.lines = t.lines /\ u.column = k
    BY <1>1, <1>3 DEF Terminals
<1>5. TypesAt(u) = VGA_WIDTH * (Len(t.lines) - 1) + k
    BY <1>4 DEF TypesAt
<1>6. Window(u) = Window(t)
    BY <1>4, WindowOfLines
<1> QED
    BY ONLY <1>3, <1>4, <1>5, <1>6

LEMMA MoveFacts ==
    ASSUME NEW t \in Terminals
    PROVE  /\ Move(t) \in Terminals
           /\ t.column + 1 # VGA_WIDTH =>
                /\ Window(Move(t)) = Window(t)
                /\ TypesAt(Move(t)) = TypesAt(t) + 1
           /\ t.column + 1 = VGA_WIDTH =>
                Move(t) = NewLine(t) /\ TypesAt(t) + 1 = VGA_WIDTH * Len(t.lines)
<1>1. PICK n \in 1 .. VGA_HEIGHT : n = Len(t.lines)
    BY TerminalFields
<1>2. PICK j \in 0 .. (VGA_WIDTH - 1) : j = t.column
    BY TerminalFields
<1>3. PICK e \in Nat : e = VGA_WIDTH * (n - 1)
    BY ByteFacts
<1>4. TypesAt(t) = e + j
    BY <1>1, <1>2, <1>3 DEF TypesAt
<1>5. CASE j + 1 # VGA_WIDTH
    <2>1. j + 1 \in 0 .. (VGA_WIDTH - 1)
        BY <1>5, ByteFacts
    <2>2. Move(t) = [t EXCEPT !.column = j + 1]
        BY <1>2, <1>5 DEF Move
    <2>3. /\ [t EXCEPT !.column = j + 1] \in Terminals
          /\ TypesAt([t EXCEPT !.column = j + 1]) = VGA_WIDTH * (Len(t.lines) - 1) + (j + 1)
          /\ Window([t EXCEPT !.column = j + 1]) = Window(t)
        BY <2>1, ColumnFacts
    <2>4. TypesAt(Move(t)) = e + (j + 1)
        BY <1>1, <1>3, <2>2, <2>3
    <2>5. TypesAt(Move(t)) = TypesAt(t) + 1
        BY <1>4, <2>4
    <2>6. Move(t) \in Terminals /\ Window(Move(t)) = Window(t)
        BY <2>2, <2>3
    <2> QED
        BY <1>2, <1>5, <2>5, <2>6
<1>6. CASE j + 1 = VGA_WIDTH
    <2>1. Move(t) = NewLine(t)
        BY <1>2, <1>6 DEF Move
    <2>2. e + VGA_WIDTH = VGA_WIDTH * n
        BY <1>3, ByteFacts
    <2>3. TypesAt(t) + 1 = VGA_WIDTH * n
        BY <1>4, <1>6, <2>2, ByteFacts
    <2>4. Move(t) \in Terminals
        BY <2>1, NewLineTyped
    <2> QED
        BY <1>1, <1>2, <1>6, <2>1, <2>3, <2>4
<1> QED
    BY <1>5, <1>6

LEMMA TypeMoves ==
    ASSUME NEW t \in Terminals, NEW c \in Texts
    PROVE  Type(t, c) = Move(Typed(t, c)) /\ Type(t, c) \in Terminals
BY TypedFacts, MoveFacts DEF Type, Typed

-----------------------------------------------------------------------------
(***************************************************************************)
(* The window and the terminal.  While nothing happened that the console   *)
(* gets wrong, a call is at one of a few places of its list, and a         *)
(* terminal t that what is left of the call takes to the reference         *)
(* terminal is the one shown.                                              *)
(***************************************************************************)

AdvanceOp == Op("advance", "")
ReturnOp == Op("return", "")
PutOp(c) == Op("put", c)

AdvanceThen(rest) == Reads1(Cons(AdvanceOp, rest))
PutThen(c, rest) == Reads1(Cons(PutOp(c), AdvanceThen(rest)))

(* What is left of a tab before its last move, its fourth space and so on. *)
Tab0 == AdvanceThen(<<>>)
Tab1 == PutThen(Space, Tab0)
Tab2 == PutThen(Space, Tab1)
Tab3 == PutThen(Space, Tab2)

Spaced(t) == Type(t, Space)

(* The accesses in rest take the terminal t to u. *)
Takes(rest, t, u) ==
    \/ rest = <<>> /\ u = t
    \/ rest = Tab0 /\ u = Move(t)
    \/ rest = Tab1 /\ u = Move(Spaced(t))
    \/ rest = Tab2 /\ u = Move(Spaced(Spaced(t)))
    \/ rest = Tab3 /\ u = Move(Spaced(Spaced(Spaced(t))))

(* The cursor is where t types, or past the window it would scroll. *)
At(t, q) ==
    \/ q = TypesAt(t)
    \/ q = VGA_EXTENT /\ Len(t.lines) = VGA_HEIGHT /\ t.column = 0

(* After a scroll advance_cursor writes the position past the window. *)
TakesAfter(rest, t, u) ==
    \/ Takes(rest, t, u)
    \/ \E more \in Seq(Steps) :
          rest = Writes1(VGA_EXTENT, more) /\ At(t, VGA_EXTENT) /\ Takes(more, t, u)

Synced(t) == cells = Window(t) /\ At(t, CursorAt(cursor))

ReadsTo(rest) == Reading(Call.todo, Call.pos, cursor, index, rest)

Putting(t) ==
    /\ Synced(t)
    /\ \E c \in Texts, rest \in Seq(Steps) :
          ReadsTo(Cons(PutOp(c), AdvanceThen(rest))) /\ Takes(rest, Type(t, c), terminal)

Advancing(t) ==
    /\ Synced(t)
    /\ \E rest \in Seq(Steps) :
          ReadsTo(Cons(AdvanceOp, rest)) /\ Takes(rest, Move(t), terminal)

StartingLine(t) == Synced(t) /\ ReadsTo(<<NewlineOp>>) /\ terminal = NewLine(t)

Returning(t) ==
    Synced(t) /\ ReadsTo(<<ReturnOp>>) /\ terminal = [t EXCEPT !.column = 0]

Scrolling(t) ==
    /\ cells = Window(t) /\ Len(t.lines) = VGA_HEIGHT
    /\ \E rest \in Seq(Steps) :
          /\ Call.todo = Cons(ScrollOp, Writes1(LastRow, rest))
          /\ TakesAfter(rest, NewLine(t), terminal)

Placing(t) ==
    /\ cells = Window(t)
    /\ \E rest \in Seq(Steps), q \in 0 .. VGA_EXTENT :
          /\ Writing(Call.todo, cursor, index, q, rest) /\ At(t, q)
          /\ TakesAfter(rest, t, terminal)

Done(t) == Call.todo = <<>> /\ Synced(t) /\ terminal = t

Showing(t) ==
    \/ Putting(t) \/ Advancing(t) \/ StartingLine(t) \/ Returning(t)
    \/ Scrolling(t) \/ Placing(t) \/ Done(t)

TextInv ==
    followed =>
        /\ Len(calls) <= 1 /\ terminal \in Terminals
        /\ calls = <<>> => Synced(terminal)
        /\ calls # <<>> => \E t \in Terminals : Showing(t)

LEMMA TextSteps ==
    /\ AdvanceOp \in Steps /\ AdvanceOp.op = "advance" /\ ReturnOp \in Steps /\ ReturnOp.op = "return"
    /\ <<ReturnOp>> \in Seq(Steps)
    /\ \A c \in Texts : PutOp(c) \in Steps /\ PutOp(c).op = "put" /\ PutOp(c).arg = c
<1>1. AdvanceOp \in Steps /\ ReturnOp \in Steps
    BY StepFacts DEF AdvanceOp, ReturnOp
<1>2. \A c \in Texts : PutOp(c) \in Steps
    BY StepFacts DEF PutOp
<1>3. /\ AdvanceOp.op = "advance" /\ ReturnOp.op = "return"
      /\ \A c \in Texts : PutOp(c).op = "put" /\ PutOp(c).arg = c
    BY DEF AdvanceOp, ReturnOp, PutOp, Op
<1> QED
    BY <1>1, <1>2, <1>3

LEMMA ThenTyped ==
    ASSUME NEW rest \in Seq(Steps), NEW c \in Texts
    PROVE  /\ AdvanceThen(rest) \in Seq(Steps) /\ PutThen(c, rest) \in Seq(Steps)
           /\ Cons(AdvanceOp, rest) \in Seq(Steps)
           /\ Cons(PutOp(c), AdvanceThen(rest)) \in Seq(Steps)
<1>1. Cons(AdvanceOp, rest) \in Seq(Steps)
    BY TextSteps, ConsFacts
<1>2. AdvanceThen(rest) \in Seq(Steps)
    BY <1>1, ReadsTyped DEF AdvanceThen
<1>3. Cons(PutOp(c), AdvanceThen(rest)) \in Seq(Steps)
    BY <1>2, TextSteps, ConsFacts
<1>4. PutThen(c, rest) \in Seq(Steps)
    BY <1>3, ReadsTyped DEF PutThen
<1> QED
    BY <1>1, <1>2, <1>3, <1>4

LEMMA TabsTyped ==
    Tab0 \in Seq(Steps) /\ Tab1 \in Seq(Steps) /\ Tab2 \in Seq(Steps) /\ Tab3 \in Seq(Steps)
<1>1. Space \in Texts
    BY SpecialChars
<1>2. Tab0 \in Seq(Steps)
    BY <1>1, EmptyTyped, ThenTyped DEF Tab0
<1>3. Tab1 \in Seq(Steps)
    BY <1>1, <1>2, ThenTyped DEF Tab1
<1>4. Tab2 \in Seq(Steps)
    BY <1>1, <1>3, ThenTyped DEF Tab2
<1>5. Tab3 \in Seq(Steps)
    BY <1>1, <1>4, ThenTyped DEF Tab3
<1> QED
    BY <1>2, <1>3, <1>4, <1>5

(* What comes next in such a rest. *)
LEMMA TakesBegins ==
    ASSUME NEW t \in Terminals, NEW u, NEW rest, Takes(rest, t, u)
    PROVE  \/ rest = <<>> /\ u = t
           \/ \E more \in Seq(Steps) : rest = AdvanceThen(more) /\ Takes(more, Move(t), u)
           \/ \E more \in Seq(Steps) :
                 rest = PutThen(Space, more) /\ Takes(more, Type(t, Space), u)
<1>1. CASE rest = Tab0 /\ u = Move(t)
    <2>1. Takes(<<>>, Move(t), u)
        BY <1>1 DEF Takes
    <2> QED
        BY <1>1, <2>1, EmptyTyped DEF Tab0
<1>2. CASE rest = Tab1 /\ u = Move(Spaced(t))
    <2>1. Takes(Tab0, Spaced(t), u)
        BY <1>2 DEF Takes
    <2> QED
        BY <1>2, <2>1, TabsTyped DEF Tab1, Spaced
<1>3. CASE rest = Tab2 /\ u = Move(Spaced(Spaced(t)))
    <2>1. Takes(Tab1, Spaced(t), u)
        BY <1>3 DEF Takes
    <2> QED
        BY <1>3, <2>1, TabsTyped DEF Tab2, Spaced
<1>4. CASE rest = Tab3 /\ u = Move(Spaced(Spaced(Spaced(t))))
    <2>1. Takes(Tab2, Spaced(t), u)
        BY <1>4 DEF Takes
    <2> QED
        BY <1>4, <2>1, TabsTyped DEF Tab3, Spaced
<1> QED
    BY <1>1, <1>2, <1>3, <1>4 DEF Takes

LEMMA TakesTyped ==
    ASSUME NEW t, NEW u, NEW rest, Takes(rest, t, u)
    PROVE  rest \in Seq(Steps)
BY TabsTyped, EmptyTyped DEF Takes

(* A list is not its own rest. *)
LEMMA ReadsLonger ==
    ASSUME NEW rest \in Seq(Steps)
    PROVE  Reads4(rest) # rest /\ Reads3(rest) # rest /\ Reads2(rest) # rest /\ Reads1(rest) # rest
<1>1. ReadHigh \in Steps /\ ReadLow \in Steps /\ SelectHigh \in Steps /\ SelectLow \in Steps
    BY StepFacts DEF ReadHigh, ReadLow, SelectHigh, SelectLow, Registers
<1>2. ASSUME NEW a \in Steps, NEW s \in Seq(Steps) PROVE Len(Cons(a, s)) = Len(s) + 1
    <2>1. PICK S : S = Steps
        OBVIOUS
    <2>2. PICK n \in Nat : n = Len(s)
        BY LenProperties
    <2>3. a \in S /\ s \in Seq(S) /\ Len(s) = n
        BY <2>1, <2>2
    <2>4. \E t \in Seq(S) : /\ t = Cons(a, s) /\ Len(t) = n + 1 /\ t[1] = a
                            /\ \A i \in 1 .. n : t[i + 1] = s[i]
        BY ONLY <2>2, <2>3, ConsIndex
    <2> QED
        BY <2>2, <2>4
<1>3. PICK n \in Nat : n = Len(rest)
    BY LenProperties
<1>4. Len(Reads4(rest)) = n + 1
    BY <1>1, <1>2, <1>3 DEF Reads4
<1>5. Len(Reads3(rest)) = n + 2
    <2>1. Len(Reads3(rest)) = Len(Reads4(rest)) + 1
        BY <1>1, <1>2, ReadsTyped DEF Reads3
    <2> QED
        BY <1>4, <2>1
<1>6. Len(Reads2(rest)) = n + 3
    <2>1. Len(Reads2(rest)) = Len(Reads3(rest)) + 1
        BY <1>1, <1>2, ReadsTyped DEF Reads2
    <2> QED
        BY <1>5, <2>1
<1>7. Len(Reads1(rest)) = n + 4
    <2>1. Len(Reads1(rest)) = Len(Reads2(rest)) + 1
        BY <1>1, <1>2, ReadsTyped DEF Reads1
    <2> QED
        BY <1>6, <2>1
<1> QED
    BY <1>3, <1>4, <1>5, <1>6, <1>7

LEMMA ReadToEnd ==
    ASSUME NEW rest \in Seq(Steps), ReadsTo(rest), Call.todo = rest
    PROVE  Call.pos = CursorAt(cursor)
BY ReadsLonger DEF ReadsTo, Reading

(* A step of get_cursor_pos changes nothing that is shown. *)
LEMMA ReadsToStep ==
    ASSUME ConsoleTyped, ConsoleMove, NEW rest \in Seq(Steps), ReadsTo(rest), Call.todo # rest
    PROVE  ReadsTo(rest)' /\ UNCHANGED <<cells, cursor, followed, terminal>> /\ Len(calls') = Len(calls)
BY ReadingStep DEF ReadsTo

(* Where a position of a terminal is. *)
LEMMA AtFacts ==
    ASSUME NEW t \in Terminals, NEW q, At(t, q)
    PROVE  /\ q \in Nat /\ q \in 0 .. VGA_EXTENT
           /\ q < VGA_EXTENT => q = TypesAt(t)
           /\ q = TypesAt(t) \/ (q = VGA_EXTENT /\ Len(t.lines) = VGA_HEIGHT)
<1>1. TypesAt(t) \in Nat /\ TypesAt(t) < VGA_EXTENT
    BY TypesAtFacts
<1> QED
    BY <1>1, ByteFacts DEF At

(* The rest of a call begins. *)
LEMMA RestBegins ==
    ASSUME NEW t \in Terminals, NEW rest, Synced(t)', Takes(rest, t, terminal'), Call'.todo = rest
    PROVE  Showing(t)'
<1>1. CASE rest = <<>> /\ terminal' = t
    BY <1>1 DEF Showing, Done
<1>2. ASSUME NEW more \in Seq(Steps), rest = AdvanceThen(more), Takes(more, Move(t), terminal')
      PROVE  Showing(t)'
    <2>1. ReadsTo(Cons(AdvanceOp, more))'
        BY <1>2 DEF ReadsTo, Reading, AdvanceThen
    <2> QED
        BY <1>2, <2>1 DEF Showing, Advancing
<1>3. ASSUME NEW more \in Seq(Steps), rest = PutThen(Space, more), Takes(more, Type(t, Space), terminal')
      PROVE  Showing(t)'
    <2>1. ReadsTo(Cons(PutOp(Space), AdvanceThen(more)))'
        BY <1>3 DEF ReadsTo, Reading, PutThen
    <2>2. Space \in Texts
        BY SpecialChars
    <2> QED
        BY <1>3, <2>1, <2>2 DEF Showing, Putting
<1>4. \/ rest = <<>> /\ terminal' = t
      \/ \E more \in Seq(Steps) : rest = AdvanceThen(more) /\ Takes(more, Move(t), terminal')
      \/ \E more \in Seq(Steps) :
            rest = PutThen(Space, more) /\ Takes(more, Type(t, Space), terminal')
    <2>1. PICK u : u = terminal'
        OBVIOUS
    <2>2. Takes(rest, t, u)
        BY <2>1
    <2> QED
        BY <2>1, <2>2, TakesBegins
<1> QED
    BY <1>1, <1>2, <1>3, <1>4

LEMMA PutShows ==
    ASSUME ConsoleTyped, ConsoleMove, NEW t \in Terminals, Putting(t), followed'
    PROVE  \E u \in Terminals : Showing(u)'
<1>1. PICK c \in Texts, rest \in Seq(Steps) :
          ReadsTo(Cons(PutOp(c), AdvanceThen(rest))) /\ Takes(rest, Type(t, c), terminal)
    BY DEF Putting
<1>2. PICK s \in Seq(Steps) : s = Cons(PutOp(c), AdvanceThen(rest))
    BY ThenTyped
<1>3. CASE Call.todo # s
    <2>1. ReadsTo(s)' /\ UNCHANGED <<cells, cursor, followed, terminal>>
        BY <1>1, <1>2, <1>3, ReadsToStep
    <2>2. Synced(t)'
        BY <2>1 DEF Putting, Synced
    <2> QED
        BY <1>1, <1>2, <2>1, <2>2 DEF Showing, Putting
<1>4. CASE Call.todo = s
    <2>1. PICK q : q = Call.pos /\ q = CursorAt(cursor)
        BY <1>1, <1>2, <1>4, ReadToEnd
    <2>2. Access = PutOp(c) /\ Tail(Call.todo) = AdvanceThen(rest)
        <3>1. PutOp(c) \in Steps /\ AdvanceThen(rest) \in Seq(Steps)
            BY TextSteps, ThenTyped
        <3>2. Head(s) = PutOp(c) /\ Tail(s) = AdvanceThen(rest)
            BY <1>2, <3>1, ConsFacts
        <3> QED
            BY <1>4, <3>2, MoveBegins
    <2>3. Put
        BY <2>2, TextSteps, Dispatch
    <2>4. /\ GoesOn(AdvanceThen(rest), q)
          /\ cells' = IF q < VGA_EXTENT THEN [cells EXCEPT ![q] = c] ELSE cells
          /\ q < VGA_EXTENT /\ UNCHANGED <<cursor, index>>
        BY <2>1, <2>2, <2>3, TextSteps, PutDoes
    <2>5. At(t, q) /\ cells = Window(t)
        BY <2>1 DEF Putting, Synced
    <2>6. q = TypesAt(t)
        BY <2>4, <2>5, AtFacts
    <2>7. PICK u \in Terminals : u = Typed(t, c) /\ u.column = t.column /\ Len(u.lines) = Len(t.lines)
        BY TypedFacts
    <2>8. cells' = Window(u)
        BY <2>4, <2>5, <2>6, <2>7, WindowTyped
    <2>9. At(u, q)
        BY <2>6, <2>7 DEF At, TypesAt
    <2>10. Synced(u)'
        BY <2>1, <2>4, <2>8, <2>9 DEF Synced
    <2>11. Takes(rest, Move(u), terminal')
        BY <1>1, <2>4, <2>7, TypeMoves DEF GoesOn
    <2>12. ReadsTo(Cons(AdvanceOp, rest))'
        BY <2>4, GoesOnFields DEF ReadsTo, Reading, AdvanceThen
    <2> QED
        BY <2>7, <2>10, <2>11, <2>12 DEF Showing, Advancing
<1> QED
    BY <1>3, <1>4

LEMMA AdvancedConsed ==
    ASSUME NEW p \in 0 .. VGA_EXTENT, NEW rest \in Seq(Steps)
    PROVE  /\ p < VGA_EXTENT => Advanced(p) \o rest = Writes1(p, rest)
           /\ p = VGA_EXTENT =>
                Advanced(p) \o rest = Cons(ScrollOp, Writes1(LastRow, Writes1(p, rest)))
<1>1. p \in Nat
    BY ByteFacts
<1>2. OutPos(p) \in Seq(Steps) /\ OutPos(p) \o rest = Writes1(p, rest)
    BY <1>1, OutTyped, OutConsed
<1>3. CASE p < VGA_EXTENT
    <2>1. ~(p >= VGA_EXTENT) /\ p # VGA_EXTENT
        BY <1>1, <1>3, ByteFacts
    <2>2. Advanced(p) = <<>> \o OutPos(p)
        BY <2>1 DEF Advanced
    <2>3. Advanced(p) = OutPos(p)
        BY <1>2, <2>2, ConcatEmptySeq
    <2> QED
        BY <1>2, <1>3, <2>1, <2>3
<1>4. CASE p = VGA_EXTENT
    <2>1. Advanced(p) = scroll_line \o OutPos(p)
        BY <1>4, ByteFacts DEF Advanced
    <2>2. (scroll_line \o OutPos(p)) \o rest = scroll_line \o (OutPos(p) \o rest)
        <3>1. PICK S : S = Steps
            OBVIOUS
        <3>2. PICK a : a = scroll_line /\ a \in Seq(S)
            BY <3>1, ScrollLineTyped
        <3>3. PICK b : b = OutPos(p) /\ b \in Seq(S)
            BY <1>2, <3>1
        <3>4. (a \o b) \o rest = a \o (b \o rest)
            BY <3>1, <3>2, <3>3, ConcatAssociative
        <3> QED
            BY <3>2, <3>3, <3>4
    <2>3. Writes1(p, rest) \in Seq(Steps)
        BY <1>1, WritesTyped
    <2>4. Advanced(p) \o rest = scroll_line \o Writes1(p, rest)
        BY <1>2, <2>1, <2>2
    <2>5. scroll_line \o Writes1(p, rest) = Cons(ScrollOp, Writes1(LastRow, Writes1(p, rest)))
        BY <2>3, ScrollConsed
    <2> QED
        BY <1>4, <2>4, <2>5, ByteFacts
<1> QED
    BY <1>3, <1>4

(* A call that writes where t types shows t. *)
LEMMA PlacingFrom ==
    ASSUME NEW t \in Terminals, NEW q, NEW rest \in Seq(Steps),
           (cells = Window(t))', Call'.todo = Writes1(q, rest), At(t, q),
           TakesAfter(rest, t, terminal')
    PROVE  Showing(t)'
<1>1. q \in 0 .. VGA_EXTENT
    BY AtFacts
<1>2. Writing(Call'.todo, cursor', index', q, rest)
    BY DEF Writing
<1>3. Placing(t)'
    BY <1>1, <1>2 DEF Placing
<1> QED
    BY <1>3 DEF Showing

LEMMA AdvanceShows ==
    ASSUME ConsoleTyped, ConsoleMove, NEW t \in Terminals, Advancing(t), followed'
    PROVE  \E u \in Terminals : Showing(u)'
<1>1. PICK rest \in Seq(Steps) : ReadsTo(Cons(AdvanceOp, rest)) /\ Takes(rest, Move(t), terminal)
    BY DEF Advancing
<1>2. Space \in Texts
    BY SpecialChars
<1>3. Cons(AdvanceOp, rest) \in Seq(Steps)
    BY <1>2, ThenTyped
<1>4. PICK s \in Seq(Steps) : s = Cons(AdvanceOp, rest)
    BY <1>3
<1>5. CASE Call.todo # s
    <2>1. ReadsTo(s)' /\ UNCHANGED <<cells, cursor, followed, terminal>>
        BY <1>1, <1>4, <1>5, ReadsToStep
    <2>2. Synced(t)'
        BY <2>1 DEF Advancing, Synced
    <2> QED
        BY <1>1, <1>4, <2>1, <2>2 DEF Showing, Advancing
<1>6. CASE Call.todo = s
    <2>1. PICK q : q = Call.pos /\ q = CursorAt(cursor)
        BY <1>1, <1>4, <1>6, ReadToEnd
    <2>2. Access = AdvanceOp /\ Tail(Call.todo) = rest
        <3>1. AdvanceOp \in Steps
            BY TextSteps
        <3>2. Head(s) = AdvanceOp /\ Tail(s) = rest
            BY <1>4, <3>1, ConsFacts
        <3> QED
            BY <1>6, <3>2, MoveBegins
    <2>3. Advance
        BY <2>2, TextSteps, Dispatch
    <2>4. /\ GoesOn(Advanced((q + 1) % (Byte * Byte)) \o rest, q)
          /\ q < VGA_EXTENT /\ UNCHANGED <<cells, cursor, index>>
        BY <2>1, <2>2, <2>3, AdvanceDoes
    <2>5. At(t, q) /\ cells = Window(t)
        BY <2>1 DEF Advancing, Synced
    <2>6. q = TypesAt(t) /\ q \in Nat
        BY <2>4, <2>5, AtFacts
    <2>7. PICK p \in 0 .. VGA_EXTENT : p = q + 1
        BY <2>4, <2>6, ByteFacts
    <2>8. (q + 1) % (Byte * Byte) = p
        <3>1. PICK b \in Nat : b = Byte * Byte /\ p < b
            BY <2>7, ByteFacts
        <3>2. p \in Nat /\ p % b = p
            BY <3>1, ByteFacts
        <3> QED
            BY <2>7, <3>1, <3>2
    <2>9. Call'.todo = Advanced(p) \o rest /\ terminal' = terminal
        BY <2>4, <2>8, GoesOnFields
    <2>10. PICK u \in Terminals : u = Move(t)
        BY MoveFacts
    <2>11. Takes(rest, u, terminal')
        BY <1>1, <2>9, <2>10
    <2>12. CASE t.column + 1 # VGA_WIDTH
        <3>1. Window(u) = Window(t) /\ TypesAt(u) = p
            BY <2>6, <2>7, <2>10, <2>12, MoveFacts
        <3>2. p < VGA_EXTENT
            BY <3>1, TypesAtFacts
        <3>3. Call'.todo = Writes1(p, rest)
            BY <2>9, <3>2, AdvancedConsed
        <3>4. At(u, p) /\ (cells = Window(u))' /\ TakesAfter(rest, u, terminal')
            BY <2>4, <2>5, <2>11, <3>1 DEF At, TakesAfter
        <3> QED
            BY <3>3, <3>4, PlacingFrom
    <2>13. CASE t.column + 1 = VGA_WIDTH /\ Len(t.lines) < VGA_HEIGHT
        <3>1. u = NewLine(t) /\ p = VGA_WIDTH * Len(t.lines)
            BY <2>6, <2>7, <2>10, <2>13, MoveFacts
        <3>2. TypesAt(u) = p /\ p < VGA_EXTENT /\ Window(u) = Window(t)
            BY <2>13, <3>1, NewLineAt, WindowLonger
        <3>3. Call'.todo = Writes1(p, rest)
            BY <2>9, <3>2, AdvancedConsed
        <3>4. At(u, p) /\ (cells = Window(u))' /\ TakesAfter(rest, u, terminal')
            BY <2>4, <2>5, <2>11, <3>2 DEF At, TakesAfter
        <3> QED
            BY <3>3, <3>4, PlacingFrom
    <2>14. CASE t.column + 1 = VGA_WIDTH /\ Len(t.lines) = VGA_HEIGHT
        <3>1. u = NewLine(t) /\ p = VGA_WIDTH * Len(t.lines)
            BY <2>6, <2>7, <2>10, <2>14, MoveFacts
        <3>2. p = VGA_EXTENT
            BY <2>14, <3>1, NewLineAt
        <3>3. Call'.todo = Cons(ScrollOp, Writes1(LastRow, Writes1(p, rest)))
            BY <2>9, <3>2, AdvancedConsed
        <3>4. At(u, VGA_EXTENT)
            BY <2>14, <3>1, NewLineTyped DEF At
        <3>5. Writes1(p, rest) \in Seq(Steps)
            BY <2>6, <2>7, WritesTyped
        <3>6. TakesAfter(Writes1(p, rest), NewLine(t), terminal')
            BY <2>11, <3>1, <3>2, <3>4 DEF TakesAfter
        <3>7. Scrolling(t)'
            BY <2>4, <2>5, <2>14, <3>3, <3>5, <3>6 DEF Scrolling
        <3> QED
            BY <3>7 DEF Showing
    <2>15. Len(t.lines) < VGA_HEIGHT \/ Len(t.lines) = VGA_HEIGHT
        BY TerminalFields, ByteFacts
    <2> QED
        BY <2>12, <2>13, <2>14, <2>15
<1> QED
    BY <1>5, <1>6

(* The row of the cursor. *)
LEMMA RowOfAt ==
    ASSUME NEW t \in Terminals, NEW q, At(t, q)
    PROVE  /\ q < VGA_EXTENT => Row(q) = Len(t.lines) - 1 /\ (Row(q) + 1) % Byte = Len(t.lines)
           /\ q = VGA_EXTENT => (Row(q) + 1) % Byte = VGA_HEIGHT + 1 /\ Len(t.lines) = VGA_HEIGHT
<1>1. PICK n \in 1 .. VGA_HEIGHT : n = Len(t.lines)
    BY TerminalFields
<1>2. \A k \in Nat : k < Byte => k % Byte = k
    BY ByteFacts
<1>3. CASE q < VGA_EXTENT
    <2>1. q \div VGA_WIDTH = n - 1
        BY <1>1, <1>3, AtFacts, TypesAtFacts
    <2>2. n - 1 \in Nat /\ n - 1 < Byte /\ n \in Nat /\ n < Byte /\ (n - 1) + 1 = n
        BY ByteFacts
    <2>3. Row(q) = n - 1
        BY <1>2, <2>1, <2>2 DEF Row
    <2>4. (Row(q) + 1) % Byte = n
        BY <1>2, <2>2, <2>3
    <2>5. q # VGA_EXTENT
        BY <1>3, ByteFacts
    <2> QED
        BY <1>1, <2>3, <2>4, <2>5
<1>4. CASE q = VGA_EXTENT
    <2>1. q = VGA_WIDTH * VGA_HEIGHT + 0 /\ 0 \in 0 .. (VGA_WIDTH - 1) /\ VGA_WIDTH \in Nat \ {0}
        BY <1>4, ByteFacts DEF VGA_EXTENT
    <2>2. q \div VGA_WIDTH = VGA_HEIGHT
        BY <2>1, ByteFacts, DivUnique
    <2>3. VGA_HEIGHT \in Nat /\ VGA_HEIGHT < Byte /\ VGA_HEIGHT + 1 \in Nat /\ VGA_HEIGHT + 1 < Byte
        BY ByteFacts
    <2>4. Row(q) = VGA_HEIGHT
        BY <1>2, <2>2, <2>3 DEF Row
    <2>5. (Row(q) + 1) % Byte = VGA_HEIGHT + 1
        BY <1>2, <2>3, <2>4
    <2>6. Len(t.lines) = VGA_HEIGHT
        BY <1>4, AtFacts, TypesAtFacts
    <2> QED
        BY <1>4, <2>5, <2>6, ByteFacts
<1> QED
    BY <1>3, <1>4

LEMMA LineShows ==
    ASSUME ConsoleTyped, ConsoleMove, NEW t \in Terminals, StartingLine(t), followed'
    PROVE  \E u \in Terminals : Showing(u)'
<1>1. Synced(t) /\ ReadsTo(<<NewlineOp>>) /\ terminal = NewLine(t) /\ <<NewlineOp>> \in Seq(Steps)
    BY NewlineTyped DEF StartingLine
<1>2. CASE Call.todo # <<NewlineOp>>
    <2>1. ReadsTo(<<NewlineOp>>)' /\ UNCHANGED <<cells, cursor, followed, terminal>>
        BY <1>1, <1>2, ReadsToStep
    <2>2. Synced(t)'
        BY <1>1, <2>1 DEF Synced
    <2> QED
        BY <1>1, <2>1, <2>2 DEF Showing, StartingLine
<1>3. CASE Call.todo = <<NewlineOp>>
    <2>1. PICK q : q = Call.pos /\ q = CursorAt(cursor)
        BY <1>1, <1>3, ReadToEnd
    <2>2. Access = NewlineOp /\ Tail(Call.todo) = <<>>
        BY <1>3, MoveBegins
    <2>3. GoToNextRow
        BY <2>2, NewlineTyped, Dispatch
    <2>4. GoesOn(NextRow(q) \o <<>>, q) /\ UNCHANGED <<cells, cursor, index, followed>>
        BY <2>1, <2>2, <2>3, NextRowDoes
    <2>5. At(t, q) /\ cells = Window(t)
        BY <1>1, <2>1 DEF Synced
    <2>6. q \in Nat /\ q <= VGA_EXTENT
        BY <2>5, AtFacts, ByteFacts
    <2>7. PICK row : row = (Row(q) + 1) % Byte
        OBVIOUS
    <2>8. NextRow(q) \o <<>> = IF row >= VGA_HEIGHT THEN Cons(ScrollOp, Writes1(LastRow, <<>>))
                               ELSE Writes1(VGA_WIDTH * row, <<>>)
        BY <2>6, <2>7, EmptyTyped, NextRowConsed
    <2>9. /\ Call'.todo = IF row >= VGA_HEIGHT THEN Cons(ScrollOp, Writes1(LastRow, <<>>))
                         ELSE Writes1(VGA_WIDTH * row, <<>>)
          /\ terminal' = NewLine(t)
        BY <1>1, <2>4, <2>8, GoesOnFields
    <2>10. PICK n \in 1 .. VGA_HEIGHT : n = Len(t.lines)
        BY TerminalFields
    <2>11. TakesAfter(<<>>, NewLine(t), terminal')
        BY <2>9 DEF TakesAfter, Takes
    <2>12. (q < VGA_EXTENT /\ row = n) \/ (row = VGA_HEIGHT + 1 /\ n = VGA_HEIGHT)
        <3>1. q < VGA_EXTENT \/ q = VGA_EXTENT
            BY <2>6, ByteFacts
        <3> QED
            BY <2>5, <2>7, <2>10, <3>1, RowOfAt
    <2>13. CASE n = VGA_HEIGHT
        <3>1. row >= VGA_HEIGHT
            BY <2>12, <2>13, ByteFacts
        <3>2. Call'.todo = Cons(ScrollOp, Writes1(LastRow, <<>>))
            BY <2>9, <3>1
        <3>3. Scrolling(t)'
            BY <2>4, <2>5, <2>10, <2>11, <2>13, <3>2, EmptyTyped DEF Scrolling
        <3> QED
            BY <3>3 DEF Showing
    <2>14. CASE n < VGA_HEIGHT
        <3>1. row = n /\ ~(row >= VGA_HEIGHT)
            BY <2>12, <2>14, ByteFacts
        <3>2. Call'.todo = Writes1(VGA_WIDTH * n, <<>>)
            BY <2>9, <3>1
        <3>3. PICK u \in Terminals : u = NewLine(t)
            BY NewLineTyped
        <3>4. TypesAt(u) = VGA_WIDTH * n /\ Window(u) = Window(t)
            BY <2>10, <2>14, <3>3, NewLineAt, WindowLonger
        <3>5. At(u, VGA_WIDTH * n) /\ (cells = Window(u))' /\ TakesAfter(<<>>, u, terminal')
            BY <2>4, <2>5, <2>11, <3>3, <3>4 DEF At
        <3> QED
            BY <3>2, <3>5, EmptyTyped, PlacingFrom
    <2>15. n = VGA_HEIGHT \/ n < VGA_HEIGHT
        BY ByteFacts
    <2> QED
        BY <2>13, <2>14, <2>15
<1> QED
    BY <1>2, <1>3

LEMMA ReturnShows ==
    ASSUME ConsoleTyped, ConsoleMove, NEW t \in Terminals, Returning(t), followed'
    PROVE  \E u \in Terminals : Showing(u)'
<1>1. /\ Synced(t) /\ ReadsTo(<<ReturnOp>>) /\ terminal = [t EXCEPT !.column = 0]
      /\ <<ReturnOp>> \in Seq(Steps)
    BY TextSteps DEF Returning
<1>2. CASE Call.todo # <<ReturnOp>>
    <2>1. ReadsTo(<<ReturnOp>>)' /\ UNCHANGED <<cells, cursor, followed, terminal>>
        BY <1>1, <1>2, ReadsToStep
    <2>2. Synced(t)'
        BY <1>1, <2>1 DEF Synced
    <2> QED
        BY <1>1, <2>1, <2>2 DEF Showing, Returning
<1>3. CASE Call.todo = <<ReturnOp>>
    <2>1. PICK q : q = Call.pos /\ q = CursorAt(cursor)
        BY <1>1, <1>3, ReadToEnd
    <2>2. Access = ReturnOp /\ Tail(Call.todo) = <<>>
        BY <1>3, MoveBegins
    <2>3. Return
        BY <2>2, TextSteps, Dispatch
    <2>4. /\ GoesOn(set_cursor_pos(0, Row(q)) \o <<>>, q) /\ q < VGA_EXTENT
          /\ UNCHANGED <<cells, cursor, index>>
        BY <2>1, <2>2, <2>3, ReturnDoes
    <2>5. At(t, q) /\ cells = Window(t)
        BY <1>1, <2>1 DEF Synced
    <2>6. PICK y \in 0 .. (VGA_HEIGHT - 1) : y = Len(t.lines) - 1
        BY TerminalFields, ByteFacts
    <2>7. Row(q) = y
        BY <2>4, <2>5, <2>6, RowOfAt
    <2>8. set_cursor_pos(0, y) \o <<>> = Writes1(VGA_WIDTH * y, <<>>) /\ VGA_WIDTH * y \in Nat
        BY EmptyTyped, SetConsed
    <2>9. Call'.todo = Writes1(VGA_WIDTH * y, <<>>) /\ terminal' = [t EXCEPT !.column = 0]
        BY <1>1, <2>4, <2>7, <2>8, GoesOnFields
    <2>10. 0 \in 0 .. (VGA_WIDTH - 1)
        BY ByteFacts
    <2>11. /\ [t EXCEPT !.column = 0] \in Terminals
           /\ TypesAt([t EXCEPT !.column = 0]) = VGA_WIDTH * (Len(t.lines) - 1) + 0
           /\ Window([t EXCEPT !.column = 0]) = Window(t)
        BY <2>10, ColumnFacts
    <2>12. PICK u \in Terminals : /\ u = [t EXCEPT !.column = 0] /\ Window(u) = Window(t)
                                 /\ TypesAt(u) = VGA_WIDTH * y + 0
        BY <2>6, <2>11
    <2>13. TypesAt(u) = VGA_WIDTH * y
        BY <2>8, <2>12
    <2>14. At(u, VGA_WIDTH * y) /\ (cells = Window(u))' /\ TakesAfter(<<>>, u, terminal')
        BY <2>4, <2>5, <2>9, <2>12, <2>13 DEF At, TakesAfter, Takes
    <2> QED
        BY <2>9, <2>14, EmptyTyped, PlacingFrom
<1> QED
    BY <1>2, <1>3

LEMMA ScrollShows ==
    ASSUME ConsoleTyped, ConsoleMove, NEW t \in Terminals, Scrolling(t)
    PROVE  \E u \in Terminals : Showing(u)'
<1>1. cells = Window(t) /\ Len(t.lines) = VGA_HEIGHT
    BY DEF Scrolling
<1>2. PICK rest \in Seq(Steps) : /\ Call.todo = Cons(ScrollOp, Writes1(LastRow, rest))
                                /\ TakesAfter(rest, NewLine(t), terminal)
    BY DEF Scrolling
<1>3. LastRow \in Nat
    BY ByteFacts DEF LastRow
<1>4. Writes1(LastRow, rest) \in Seq(Steps)
    BY <1>3, WritesTyped
<1>5. Access = ScrollOp /\ Tail(Call.todo) = Writes1(LastRow, rest)
    <2>1. PICK s : s = Cons(ScrollOp, Writes1(LastRow, rest))
        OBVIOUS
    <2>2. PICK w : w = Writes1(LastRow, rest) /\ w \in Seq(Steps)
        BY <1>4
    <2>3. PICK a : a = ScrollOp /\ a \in Steps
        BY NewlineTyped
    <2>4. s = Cons(a, w) /\ Head(Cons(a, w)) = a /\ Tail(Cons(a, w)) = w
        BY <2>1, <2>2, <2>3, ConsFacts
    <2>5. Head(s) = ScrollOp /\ Tail(s) = Writes1(LastRow, rest)
        BY <2>2, <2>3, <2>4
    <2> QED
        BY <1>2, <2>1, <2>5, MoveBegins
<1>6. Scroll
    BY <1>5, NewlineTyped, Dispatch
<1>7. GoesOn(Writes1(LastRow, rest), Call.pos) /\ cells' = [p \in Positions |-> Scrolled(p)]
    BY <1>5, <1>6, ScrollDoes
<1>8. PICK u \in Terminals : u = NewLine(t)
    BY NewLineTyped
<1>9. (cells = Window(u))'
    BY <1>1, <1>7, <1>8, WindowScrolled
<1>10. At(u, LastRow)
    BY <1>1, <1>8, NewLineAt DEF At
<1>11. Call'.todo = Writes1(LastRow, rest) /\ terminal' = terminal
    BY <1>7, GoesOnFields
<1>12. TakesAfter(rest, u, terminal')
    BY <1>2, <1>8, <1>11
<1> QED
    BY <1>9, <1>10, <1>11, <1>12, PlacingFrom

LEMMA PlaceShows ==
    ASSUME ConsoleTyped, ConsoleMove, NEW t \in Terminals, Placing(t)
    PROVE  Showing(t)'
<1>1. PICK rest \in Seq(Steps), q \in 0 .. VGA_EXTENT :
          /\ Writing(Call.todo, cursor, index, q, rest) /\ At(t, q)
          /\ TakesAfter(rest, t, terminal)
    BY DEF Placing
<1>2. q \in 0 .. (Byte * Byte - 1)
    BY ByteFacts
<1>3. /\ \/ Writing(Call'.todo, cursor', index', q, rest)
         \/ Call'.todo = rest /\ CursorAt(cursor') = q
      /\ UNCHANGED <<cells, followed, terminal>>
    BY <1>1, <1>2, WritingStep
<1>4. (cells = Window(t))' /\ TakesAfter(rest, t, terminal')
    BY <1>1, <1>3 DEF Placing
<1>5. CASE Writing(Call'.todo, cursor', index', q, rest)
    BY <1>1, <1>4, <1>5 DEF Showing, Placing
<1>6. CASE Call'.todo = rest /\ CursorAt(cursor') = q
    <2>1. Synced(t)'
        BY <1>1, <1>4, <1>6 DEF Synced
    <2>2. CASE Takes(rest, t, terminal')
        BY <1>6, <2>1, <2>2, RestBegins
    <2>3. ASSUME NEW more \in Seq(Steps), rest = Writes1(VGA_EXTENT, more), At(t, VGA_EXTENT),
                 Takes(more, t, terminal')
          PROVE  Showing(t)'
        <3>1. TakesAfter(more, t, terminal')
            BY <2>3 DEF TakesAfter
        <3> QED
            BY <1>4, <1>6, <2>3, <3>1, PlacingFrom
    <2> QED
        BY <1>4, <2>2, <2>3 DEF TakesAfter
<1> QED
    BY <1>3, <1>5, <1>6

LEMMA OneConsed ==
    ASSUME NEW a \in Steps, NEW s \in Seq(Steps), NEW rest \in Seq(Steps)
    PROVE  (s \o <<a>>) \o rest = s \o Cons(a, rest)
<1>1. PICK S : S = Steps
    OBVIOUS
<1>2. <<a>> \in Seq(Steps)
    OBVIOUS
<1>3. PICK b : b = <<a>> /\ b \in Seq(S)
    BY <1>1, <1>2
<1>4. (s \o b) \o rest = s \o (b \o rest)
    BY <1>1, <1>3, ConcatAssociative
<1> QED
    BY <1>3, <1>4 DEF Cons

LEMMA AdvanceConsed ==
    ASSUME NEW rest \in Seq(Steps)
    PROVE  advance_cursor \o rest = AdvanceThen(rest)
<1>1. advance_cursor = get_cursor_pos \o <<AdvanceOp>>
    BY DEF advance_cursor, AdvanceOp
<1>2. advance_cursor \o rest = get_cursor_pos \o Cons(AdvanceOp, rest)
    BY <1>1, TextSteps, GetTyped, OneConsed
<1>3. Cons(AdvanceOp, rest) \in Seq(Steps)
    BY TextSteps, ConsFacts
<1> QED
    BY <1>2, <1>3, GetConsed DEF AdvanceThen

LEMMA PutConsed ==
    ASSUME NEW c \in Texts, NEW rest \in Seq(Steps)
    PROVE  PutChar(c) \o rest = PutThen(c, rest)
<1>1. PICK S : S = Steps
    OBVIOUS
<1>2. PutOp(c) \in Steps
    BY TextSteps
<1>3. PICK a : a = get_cursor_pos \o <<PutOp(c)>> /\ a \in Seq(S)
    <2>1. <<PutOp(c)>> \in Seq(Steps)
        BY <1>2
    <2> QED
        BY <1>1, <2>1, GetTyped, ConcatProperties
<1>4. PICK b : b = advance_cursor /\ b \in Seq(S)
    BY <1>1, AdvanceTyped
<1>5. PutChar(c) = a \o b
    BY <1>3, <1>4 DEF PutChar, PutOp
<1>6. (a \o b) \o rest = a \o (b \o rest)
    BY <1>1, <1>3, <1>4, ConcatAssociative
<1>7. b \o rest = AdvanceThen(rest) /\ AdvanceThen(rest) \in Seq(Steps)
    BY <1>4, AdvanceConsed, ThenTyped
<1>8. a \o AdvanceThen(rest) = get_cursor_pos \o Cons(PutOp(c), AdvanceThen(rest))
    BY <1>2, <1>3, <1>7, GetTyped, OneConsed
<1>9. Cons(PutOp(c), AdvanceThen(rest)) \in Seq(Steps)
    BY ThenTyped
<1>10. get_cursor_pos \o Cons(PutOp(c), AdvanceThen(rest)) = PutThen(c, rest)
    BY <1>9, GetConsed DEF PutThen
<1> QED
    BY <1>5, <1>6, <1>7, <1>8, <1>10

LEMMA TabConsed ==
    PutChar(Space) \o PutChar(Space) \o PutChar(Space) \o PutChar(Space) \o advance_cursor
        = PutThen(Space, Tab3)
<1>1. PICK S : S = Steps
    OBVIOUS
<1>2. Space \in Texts
    BY SpecialChars
<1>3. PICK p : p = PutChar(Space) /\ p \in Seq(S)
    BY <1>1, <1>2, PutTyped
<1>4. PICK a : a = advance_cursor /\ a \in Seq(S)
    BY <1>1, AdvanceTyped
<1>5. a = Tab0
    <2>1. a \o <<>> = a
        BY <1>4, ConcatEmptySeq
    <2>2. a \o <<>> = AdvanceThen(<<>>)
        BY <1>4, EmptyTyped, AdvanceConsed
    <2> QED
        BY <2>1, <2>2 DEF Tab0
<1>6. p \o Tab0 = Tab1 /\ p \o Tab1 = Tab2 /\ p \o Tab2 = Tab3 /\ p \o Tab3 = PutThen(Space, Tab3)
    BY <1>2, <1>3, TabsTyped, PutConsed DEF Tab1, Tab2, Tab3
<1>7. p \o p \in Seq(S) /\ (p \o p) \o p \in Seq(S)
    <2>1. p \o p \in Seq(S)
        BY <1>3, ConcatProperties
    <2> QED
        BY <1>3, <2>1, ConcatProperties
<1>8. Tab0 \in Seq(S) /\ Tab1 \in Seq(S) /\ Tab2 \in Seq(S)
    BY <1>1, TabsTyped
<1>9. (((p \o p) \o p) \o p) \o Tab0 = ((p \o p) \o p) \o (p \o Tab0)
    BY <1>3, <1>7, <1>8, ConcatAssociative
<1>10. ((p \o p) \o p) \o Tab1 = (p \o p) \o (p \o Tab1)
    BY <1>3, <1>7, <1>8, ConcatAssociative
<1>11. (p \o p) \o Tab2 = p \o (p \o Tab2)
    BY <1>3, <1>8, ConcatAssociative
<1>12. (((p \o p) \o p) \o p) \o a = PutThen(Space, Tab3)
    BY <1>5, <1>6, <1>9, <1>10, <1>11
<1> QED
    BY <1>3, <1>4, <1>12

(* A character to be printed begins one of the lists. *)
LEMMA TextBegins ==
    ASSUME NEW c \in AllChars, NEW t \in Terminals, Synced(t)', Call' = NewCall(c),
           terminal' = Shown(t, c)
    PROVE  Showing(t)' /\ (terminal \in Terminals)'
<1>1. Call'.todo = Accesses(c)
    BY DEF NewCall
<1>2. CASE c = Newline
    <2>1. ReadsTo(<<NewlineOp>>)'
        BY <1>1, <1>2, NewCallReads DEF ReadsTo, Reading
    <2>2. terminal' = NewLine(t)
        BY <1>2, SpecialChars DEF Shown
    <2> QED
        BY <2>1, <2>2, NewLineTyped DEF Showing, StartingLine
<1>3. CASE c = CarriageReturn
    <2>1. Accesses(c) = get_cursor_pos \o <<ReturnOp>>
        BY <1>3, SpecialChars DEF Accesses, ReturnOp
    <2>2. Accesses(c) = Reads1(<<ReturnOp>>)
        BY <2>1, TextSteps, GetConsed
    <2>3. ReadsTo(<<ReturnOp>>)'
        BY <1>1, <2>2 DEF ReadsTo, Reading
    <2>4. terminal' = [t EXCEPT !.column = 0]
        BY <1>3, SpecialChars DEF Shown
    <2>5. 0 \in 0 .. (VGA_WIDTH - 1)
        BY ByteFacts
    <2> QED
        BY <2>3, <2>4, <2>5, ColumnFacts DEF Showing, Returning
<1>4. CASE c = Tab
    <2>1. Accesses(c) = PutThen(Space, Tab3)
        <3>1. Accesses(c) = PutChar(Space) \o PutChar(Space) \o PutChar(Space) \o PutChar(Space)
                                \o advance_cursor
            BY <1>4, SpecialChars DEF Accesses
        <3> QED
            BY <3>1, TabConsed
    <2>2. terminal' = Move(Spaced(Spaced(Spaced(Type(t, Space)))))
        BY <1>4, SpecialChars DEF Shown, Spaced
    <2>3. Takes(Tab3, Type(t, Space), terminal')
        BY <2>2 DEF Takes
    <2>4. ReadsTo(Cons(PutOp(Space), AdvanceThen(Tab3)))'
        BY <1>1, <2>1 DEF ReadsTo, Reading, PutThen
    <2>5. Putting(t)'
        BY <2>3, <2>4, SpecialChars, TabsTyped DEF Putting
    <2>6. \A u \in Terminals : Spaced(u) \in Terminals
        BY SpecialChars, TypeMoves DEF Spaced
    <2>7. (terminal \in Terminals)'
        <3>1. PICK u \in Terminals : u = Spaced(Spaced(Spaced(Spaced(t))))
            BY <2>6
        <3>2. terminal' = Move(u)
            BY <2>2, <3>1 DEF Spaced
        <3> QED
            BY <3>2, MoveFacts
    <2> QED
        BY <2>5, <2>7 DEF Showing
<1>5. CASE c \in Chars
    <2>1. c \in Texts /\ Accesses(c) = PutChar(c) /\ terminal' = Type(t, c)
        BY <1>5, SpecialChars DEF Accesses, Shown
    <2>2. PutChar(c) \o <<>> = PutChar(c)
        BY <2>1, PutTyped, ConcatEmptySeq
    <2>3. Accesses(c) = PutThen(c, <<>>)
        BY <2>1, <2>2, EmptyTyped, PutConsed
    <2>4. ReadsTo(Cons(PutOp(c), AdvanceThen(<<>>)))'
        BY <1>1, <2>3 DEF ReadsTo, Reading, PutThen
    <2>5. Takes(<<>>, Type(t, c), terminal')
        BY <2>1 DEF Takes
    <2>6. Putting(t)'
        BY <2>1, <2>4, <2>5, EmptyTyped DEF Putting
    <2> QED
        BY <2>1, <2>6, TypeMoves DEF Showing
<1> QED
    BY <1>2, <1>3, <1>4, <1>5 DEF AllChars

LEMMA TextMove == ConsoleTyped /\ TextInv /\ ConsoleMove => TextInv'
<1> SUFFICES ASSUME ConsoleTyped, TextInv, ConsoleMove, followed' PROVE TextInv'
    BY DEF TextInv
<1>1. calls # <<>> /\ Call.todo # <<>>
    BY MoveBegins
<1>2. PICK todo, pos : GoesOn(todo, pos)
    BY SelectDoes, InDoes, OutDoes, PutDoes, AdvanceDoes, ReturnDoes, NextRowDoes, ScrollDoes
    DEF ConsoleMove
<1>3. Len(calls') = Len(calls) /\ Len(calls) \in 1 .. 2 /\ terminal' = terminal
    BY <1>2, GoesOnFields
<1>4. followed
    BY DEF ConsoleMove, Select, In, Out, Put, Advance, Return, GoToNextRow, Scroll
<1>5. PICK t \in Terminals : Showing(t)
    BY <1>1, <1>4 DEF TextInv
<1>6. \E u \in Terminals : Showing(u)'
    BY <1>1, <1>5, PutShows, AdvanceShows, LineShows, ReturnShows, ScrollShows, PlaceShows
    DEF Showing, Done
<1>7. calls' # <<>>
    BY <1>3
<1> QED
    BY <1>3, <1>4, <1>6, <1>7 DEF TextInv

LEMMA ShowingNotEmpty ==
    ASSUME NEW t \in Terminals, Showing(t), Call.todo = <<>>
    PROVE  Done(t)
<1>1. ASSUME NEW a \in Steps, NEW s \in Seq(Steps)
      PROVE  Cons(a, s) \in Seq(Steps) /\ Cons(a, s) # <<>> /\ ~ReadsTo(Cons(a, s))
    <2>1. Cons(a, s) \in Seq(Steps) /\ Cons(a, s) # <<>>
        BY ConsFacts
    <2> QED
        BY <2>1, PhasesNotEmpty DEF ReadsTo
<1>2. ~Putting(t)
    BY <1>1, TextSteps, ThenTyped DEF Putting
<1>3. ~Advancing(t)
    BY <1>1, TextSteps DEF Advancing
<1>4. ~StartingLine(t) /\ ~Returning(t)
    <2>1. <<NewlineOp>> # <<>> /\ <<ReturnOp>> # <<>>
        OBVIOUS
    <2> QED
        <3>1. PICK a : a = <<NewlineOp>> /\ a \in Seq(Steps) /\ a # <<>>
            BY <2>1, NewlineTyped
        <3>2. PICK b : b = <<ReturnOp>> /\ b \in Seq(Steps) /\ b # <<>>
            BY <2>1, TextSteps
        <3>3. ~ReadsTo(a) /\ ~ReadsTo(b)
            BY <3>1, <3>2, PhasesNotEmpty DEF ReadsTo
        <3> QED
            BY <3>1, <3>2, <3>3 DEF StartingLine, Returning
<1>5. ~Scrolling(t)
    <2>1. LastRow \in Nat
        BY ByteFacts DEF LastRow
    <2>2. \A rest \in Seq(Steps) : Writes1(LastRow, rest) \in Seq(Steps)
        BY <2>1, WritesTyped
    <2> QED
        BY <2>2, PhasesNotEmpty DEF Scrolling
<1>6. ~Placing(t)
    <2>1. \A q \in 0 .. VGA_EXTENT : q \in Nat
        BY ByteFacts
    <2> QED
        BY <2>1, PhasesNotEmpty DEF Placing
<1> QED
    BY <1>2, <1>3, <1>4, <1>5, <1>6 DEF Showing

LEMMA TextFinish == ConsoleTyped /\ TextInv /\ Finish => TextInv'
<1> SUFFICES ASSUME ConsoleTyped, TextInv, Finish, followed' PROVE TextInv'
    BY DEF TextInv
<1>1. calls # <<>> /\ Call.todo = <<>> /\ followed /\ UNCHANGED <<cells, cursor, terminal>>
    BY DEF Finish
<1>2. Len(calls) <= 1 /\ terminal \in Terminals
    BY <1>1 DEF TextInv
<1>3. PICK t \in Terminals : Showing(t)
    BY <1>1 DEF TextInv
<1>4. Done(t)
    BY <1>1, <1>3, ShowingNotEmpty
<1>5. calls' = <<>>
    <2>1. Len(calls) \in 1 .. 2 /\ (Len(calls) = 1 => calls' = <<>>)
        BY FinishFacts
    <2>2. Len(calls) = 1
        BY <1>2, <2>1
    <2> QED
        BY <2>1, <2>2
<1>6. Synced(terminal)'
    BY <1>1, <1>4 DEF Done, Synced
<1> QED
    BY <1>1, <1>2, <1>5, <1>6 DEF TextInv

LEMMA TextNext == ConsoleTyped /\ TextInv /\ ConsoleNext => TextInv'
<1> SUFFICES ASSUME ConsoleTyped, TextInv, ConsoleNext PROVE TextInv'
    OBVIOUS
<1>1. ASSUME NEW c \in AllChars, Kputchar(c) PROVE TextInv'
    <2> SUFFICES ASSUME followed' PROVE TextInv'
        BY DEF TextInv
    <2>1. /\ calls = <<>> /\ terminal' = Shown(terminal, c)
          /\ UNCHANGED <<cells, cursor, followed>> /\ calls' = <<NewCall(c)>>
        BY <1>1 DEF Kputchar
    <2>2. terminal \in Terminals /\ Synced(terminal)
        BY <2>1 DEF TextInv
    <2>3. PICK t \in Terminals : t = terminal
        BY <2>2
    <2>4. Synced(t)'
        BY <2>1, <2>2, <2>3 DEF Synced
    <2>5. Call' = NewCall(c) /\ Len(calls') = 1
        BY <1>1, KputcharCall
    <2>6. Showing(t)' /\ (terminal \in Terminals)'
        BY <2>1, <2>3, <2>4, <2>5, TextBegins
    <2>7. calls' # <<>>
        BY <2>1
    <2> QED
        BY <2>5, <2>6, <2>7 DEF TextInv
<1>2. ASSUME NEW c \in AllChars, InterruptPrints(c) PROVE TextInv'
    BY <1>2 DEF InterruptPrints, TextInv
<1> QED
    BY <1>1, <1>2, TextMove, TextFinish DEF ConsoleNext, ConsoleMove

LEMMA TextInit == ConsoleInit => TextInv
<1> SUFFICES ASSUME ConsoleInit PROVE TextInv
    OBVIOUS
<1>1. PICK t : t = terminal /\ t = [lines |-> <<BlankLine>>, column |-> 0]
    BY DEF ConsoleInit
<1>2. PICK l \in TextLines : l = BlankLine
    BY BlankTyped
<1>3. <<l>> \in Seq(TextLines) /\ Len(<<l>>) = 1 /\ <<l>>[1] = l
    OBVIOUS
<1>4. PICK s : s = <<BlankLine>> /\ s \in Seq(TextLines) /\ Len(s) = 1 /\ s[1] = BlankLine
    BY <1>2, <1>3
<1>5. t.lines = s /\ t.column = 0
    BY <1>1, <1>4
<1>6. t \in Terminals
    <2>1. 1 \in 1 .. VGA_HEIGHT /\ 0 \in 0 .. (VGA_WIDTH - 1)
        BY ByteFacts
    <2> QED
        BY <1>1, <1>4, <2>1 DEF Terminals, TextPages
<1>7. ASSUME NEW p \in Positions PROVE ShownAt(t, p \div VGA_WIDTH, p % VGA_WIDTH) = Space
    <2>1. PICK a \in 0 .. (VGA_HEIGHT - 1) : a = p \div VGA_WIDTH
        BY Place
    <2>2. PICK b \in 0 .. (VGA_WIDTH - 1) : b = p % VGA_WIDTH
        BY Place
    <2>3. CASE a < 1
        <3>1. a + 1 = 1
            BY <2>3
        <3> QED
            BY <1>4, <1>5, <2>1, <2>2, <2>3, <3>1 DEF ShownAt, BlankLine
    <2>4. CASE ~(a < 1)
        BY <1>4, <1>5, <2>1, <2>2, <2>4 DEF ShownAt
    <2> QED
        BY <2>3, <2>4
<1>8. cells = Window(t)
    BY <1>7, WindowAt DEF ConsoleInit
<1>9. At(t, CursorAt(cursor))
    <2>1. cursor["low"] = 0 /\ cursor["high"] = 0
        BY DEF ConsoleInit
    <2>2. CursorAt(cursor) = 0
        BY <2>1, ByteFacts DEF CursorAt
    <2>3. TypesAt(t) = 0
        BY <1>4, <1>5, ByteFacts DEF TypesAt
    <2> QED
        BY <2>2, <2>3 DEF At
<1>10. calls = <<>> /\ Len(calls) = 0
    BY DEF ConsoleInit
<1> QED
    BY <1>1, <1>6, <1>8, <1>9, <1>10 DEF TextInv, Synced

-----------------------------------------------------------------------------
(***************************************************************************)
(* Conversions: the pieces of the text.                                    *)
(***************************************************************************)

Classes == {"0", "d", "-", "+", " ", "o", "x"}
Strings == Seq(Classes)

LEMMA SequenceFacts ==
    ASSUME NEW c \in Classes, NEW n \in Int
    PROVE  /\ Sequence(c, n) \in Strings
           /\ n > 0 => Len(Sequence(c, n)) = n
           /\ n <= 0 => Len(Sequence(c, n)) = 0 /\ Sequence(c, n) = <<>>
           /\ \A i \in 1 .. n : Sequence(c, n)[i] = c
<1>1. \A i \in 1 .. n : Sequence(c, n)[i] = c
    BY DEF Sequence
<1>2. CASE n > 0
    <2>1. n \in Nat /\ Sequence(c, n) \in [1 .. n -> Classes]
        BY <1>2 DEF Sequence
    <2>2. Sequence(c, n) \in Seq(Classes) /\ Len(Sequence(c, n)) = n
        BY <2>1
    <2> QED
        BY <1>1, <1>2, <2>2 DEF Strings
<1>3. CASE n <= 0
    <2>1. 1 .. n = {}
        BY <1>3
    <2>2. Sequence(c, n) = [i \in {} |-> c]
        BY <2>1 DEF Sequence
    <2>3. <<>> = [i \in {} |-> c]
        OBVIOUS
    <2>4. Sequence(c, n) = <<>>
        BY <2>2, <2>3
    <2> QED
        BY <1>1, <1>3, <2>4 DEF Strings
<1> QED
    BY <1>2, <1>3

(* Joining texts. *)
LEMMA Joined ==
    ASSUME NEW a \in Strings, NEW b \in Strings
    PROVE  /\ a \o b \in Strings /\ Len(a \o b) = Len(a) + Len(b)
           /\ Len(a) \in Nat /\ Len(b) \in Nat
           /\ \A i \in 1 .. Len(a) : (a \o b)[i] = a[i]
           /\ \A i \in 1 .. Len(b) : (a \o b)[Len(a) + i] = b[i]
<1>1. /\ a \o b \in Strings /\ Len(a \o b) = Len(a) + Len(b)
      /\ \A i \in 1 .. Len(a) + Len(b) : (a \o b)[i] = IF i <= Len(a) THEN a[i] ELSE b[i - Len(a)]
    BY ConcatProperties DEF Strings
<1>2. Len(a) \in Nat /\ Len(b) \in Nat
    BY LenProperties DEF Strings
<1> QED
    BY <1>1, <1>2

LEMMA EmptyJoin ==
    ASSUME NEW a \in Strings
    PROVE  <<>> \o a = a /\ a \o <<>> = a /\ <<>> \in Strings
BY ConcatEmptySeq DEF Strings

LEMMA JoinAgain ==
    ASSUME NEW a \in Strings, NEW b \in Strings, NEW c \in Strings
    PROVE  (a \o b) \o c = a \o (b \o c)
BY ConcatAssociative DEF Strings

LEMMA CutFacts ==
    ASSUME NEW a \in Strings, NEW b \in Strings
    PROVE  Before(a \o b, Len(a)) = a /\ From(a \o b, Len(a)) = b
<1>1. PICK s, n : s = a \o b /\ n = Len(a)
    OBVIOUS
<1>2. /\ s \in Strings /\ Len(s) = n + Len(b) /\ n \in Nat /\ Len(b) \in Nat
      /\ \A i \in 1 .. n : s[i] = a[i]
      /\ \A i \in 1 .. Len(b) : s[n + i] = b[i]
    BY <1>1, Joined
<1>3. PICK m \in Nat : m = Len(b) /\ Len(s) = n + m
    BY <1>2
<1>4. s \in Seq(Classes) /\ a \in Seq(Classes) /\ b \in Seq(Classes)
    BY <1>2 DEF Strings
<1>5. PICK x : x = SubSeq(s, 1, n)
    OBVIOUS
<1>6. x \in Seq(Classes) /\ Len(x) = n /\ \A i \in 1 .. n : x[i] = s[i]
    <2>1. 1 \in 1 .. (Len(s) + 1) /\ n \in 0 .. Len(s) /\ 0 <= n
        BY <1>2, <1>3
    <2>2. \A i \in 1 .. n : 1 + i - 1 = i
        BY <1>2
    <2> QED
        BY <1>2, <1>3, <1>4, <1>5, <2>1, <2>2
<1>7. x = a
    BY <1>1, <1>2, <1>4, <1>6, SeqEqual
<1>8. PICK y : y = SubSeq(s, n + 1, n + m)
    OBVIOUS
<1>9. y \in Seq(Classes) /\ Len(y) = m /\ \A i \in 1 .. m : y[i] = s[n + i]
    BY <1>2, <1>3, <1>4, <1>8
<1>10. y = b
    BY <1>2, <1>3, <1>4, <1>9, SeqEqual
<1> QED
    BY <1>1, <1>3, <1>5, <1>7, <1>8, <1>10 DEF Before, From

(* rjust of what follows a lead puts the padding between the two. *)
LEMMA RjustAfter ==
    ASSUME NEW a \in Strings, NEW b \in Strings, NEW n \in Int, NEW c \in Classes
    PROVE  rjust(a \o b, Len(a), n, c) = a \o (Sequence(c, n - Len(b)) \o b)
<1>1. PICK k : k = Len(a)
    OBVIOUS
<1>2. /\ a \o b \in Strings /\ Len(a \o b) = k + Len(b) /\ k \in Nat /\ Len(b) \in Nat
    BY <1>1, Joined
<1>3. PICK m \in Nat : m = Len(b)
    BY <1>2
<1>4. (k + m) - k = m
    BY <1>2, <1>3
<1>5. Before(a \o b, k) = a /\ From(a \o b, k) = b
    BY <1>1, CutFacts
<1>6. PICK z : z = Sequence(c, n - m) /\ z \in Strings
    BY SequenceFacts
<1>7. CASE m < n
    <2>1. rjust(a \o b, k, n, c) = (a \o z) \o b
        BY <1>2, <1>3, <1>4, <1>5, <1>6, <1>7 DEF rjust
    <2> QED
        BY <1>1, <1>3, <1>6, <2>1, JoinAgain
<1>8. CASE ~(m < n)
    <2>1. rjust(a \o b, k, n, c) = a \o b
        BY <1>2, <1>3, <1>4, <1>8 DEF rjust
    <2>2. z = <<>>
        <3>1. n - m \in Int /\ n - m <= 0
            BY <1>8
        <3> QED
            BY <1>6, <3>1, SequenceFacts
    <2> QED
        BY <1>1, <1>3, <1>6, <2>1, <2>2, EmptyJoin
<1> QED
    BY <1>7, <1>8

LEMMA RjustAll ==
    ASSUME NEW b \in Strings, NEW n \in Int, NEW c \in Classes
    PROVE  rjust(b, 0, n, c) = Sequence(c, n - Len(b)) \o b
<1>1. <<>> \in Strings /\ 0 = Len(<<>>) /\ <<>> \o b = b
    BY EmptyJoin
<1>2. PICK a : a = <<>> /\ a \in Strings /\ 0 = Len(a) /\ a \o b = b
    BY <1>1
<1>3. rjust(a \o b, Len(a), n, c) = a \o (Sequence(c, n - Len(b)) \o b)
    BY <1>2, RjustAfter
<1>4. rjust(a \o b, 0, n, c) = a \o (Sequence(c, n - Len(b)) \o b)
    BY <1>2, <1>3
<1>5. n - Len(b) \in Int
    BY Joined
<1>6. Sequence(c, n - Len(b)) \in Strings
    BY <1>5, SequenceFacts
<1>7. Sequence(c, n - Len(b)) \o b \in Strings
    BY <1>6, Joined
<1> QED
    BY <1>2, <1>4, <1>7, EmptyJoin

LEMMA LjustAll ==
    ASSUME NEW b \in Strings, NEW n \in Int, NEW c \in Classes
    PROVE  ljust(b, n, c) = b \o Sequence(c, n - Len(b))
<1>1. PICK m \in Nat : m = Len(b)
    BY Joined
<1>2. CASE m < n
    BY <1>1, <1>2 DEF ljust
<1>3. CASE ~(m < n)
    <2>1. n - m \in Int /\ n - m <= 0
        BY <1>3
    <2>2. Sequence(c, n - m) = <<>>
        BY <2>1, SequenceFacts
    <2> QED
        BY <1>1, <1>3, <2>2, EmptyJoin DEF ljust
<1> QED
    BY <1>2, <1>3

(* The length of a padded text. *)
LEMMA PaddedLength ==
    ASSUME NEW b \in Strings, NEW n \in Int, NEW c \in Classes, NEW k \in Int, Len(b) <= k, n <= k
    PROVE  /\ Sequence(c, n - Len(b)) \o b \in Strings /\ Len(Sequence(c, n - Len(b)) \o b) <= k
           /\ b \o Sequence(c, n - Len(b)) \in Strings /\ Len(b \o Sequence(c, n - Len(b))) <= k
<1>1. PICK m \in Nat : m = Len(b)
    BY Joined
<1>2. n - m \in Int
    OBVIOUS
<1>3. PICK z : z = Sequence(c, n - m)
    OBVIOUS
<1>4. z \in Strings /\ (n - m > 0 => Len(z) = n - m) /\ (n - m <= 0 => Len(z) = 0)
    BY <1>2, <1>3, SequenceFacts
<1>5. z \o b \in Strings /\ Len(z \o b) = Len(z) + m /\ b \o z \in Strings /\ Len(b \o z) = m + Len(z)
    BY <1>1, <1>4, Joined
<1>6. Len(z) + m <= k /\ m + Len(z) <= k
    BY <1>1, <1>4
<1> QED
    BY <1>1, <1>3, <1>5, <1>6

-----------------------------------------------------------------------------
(***************************************************************************)
(* Conversions: the buffer.                                                *)
(***************************************************************************)

(* The size classes are whole eights, and one of them takes any size up to *)
(* the largest buffer of a conversion.                                     *)
LEMMA CellFacts ==
    ASSUME NEW n \in 24 .. 259
    PROVE  kmalloc(n).cache \in Caches /\ kmalloc(n).size \in Nat /\ kmalloc(n).size >= n
<1>1. Caches = 0 .. 9 /\ Len(kmalloc_sizes) = 10
    BY DEF Caches, kmalloc_sizes
<1>2. PICK e \in 3 .. 33 : e = (n + 7) \div 8 /\ 8 * e >= n
    <2>1. (n + 7) \div 8 \in 3 .. 33 /\ 8 * ((n + 7) \div 8) >= n
        OBVIOUS
    <2> QED
        BY <2>1
<1>3. /\ PrevEights(2) = 2 /\ PrevEights(3) = 3 /\ PrevEights(4) = 6 /\ PrevEights(5) = 12
      /\ PrevEights(6) = 15 /\ PrevEights(7) = 30
    BY DEF PrevEights, kmalloc_sizes
<1>4. /\ kmalloc_sizes[3] \div 8 = 3 /\ kmalloc_sizes[4] \div 8 = 6 /\ kmalloc_sizes[5] \div 8 = 12
      /\ kmalloc_sizes[6] \div 8 = 15 /\ kmalloc_sizes[7] \div 8 = 30 /\ kmalloc_sizes[8] \div 8 = 60
    BY DEF kmalloc_sizes
<1>5. \E i \in Caches : PrevEights(i) < e /\ e <= kmalloc_sizes[i + 1] \div 8
    <2>1. CASE e <= 3
        <3>1. 2 \in Caches /\ PrevEights(2) < e /\ e <= kmalloc_sizes[2 + 1] \div 8
            BY <1>1, <1>3, <1>4, <2>1
        <3> QED
            BY <3>1
    <2>2. CASE e > 3 /\ e <= 6
        <3>1. 3 \in Caches /\ PrevEights(3) < e /\ e <= kmalloc_sizes[3 + 1] \div 8
            BY <1>1, <1>3, <1>4, <2>2
        <3> QED
            BY <3>1
    <2>3. CASE e > 6 /\ e <= 12
        <3>1. 4 \in Caches /\ PrevEights(4) < e /\ e <= kmalloc_sizes[4 + 1] \div 8
            BY <1>1, <1>3, <1>4, <2>3
        <3> QED
            BY <3>1
    <2>4. CASE e > 12 /\ e <= 15
        <3>1. 5 \in Caches /\ PrevEights(5) < e /\ e <= kmalloc_sizes[5 + 1] \div 8
            BY <1>1, <1>3, <1>4, <2>4
        <3> QED
            BY <3>1
    <2>5. CASE e > 15 /\ e <= 30
        <3>1. 6 \in Caches /\ PrevEights(6) < e /\ e <= kmalloc_sizes[6 + 1] \div 8
            BY <1>1, <1>3, <1>4, <2>5
        <3> QED
            BY <3>1
    <2>6. CASE e > 30
        <3>1. 7 \in Caches /\ PrevEights(7) < e /\ e <= kmalloc_sizes[7 + 1] \div 8
            BY <1>1, <1>3, <1>4, <2>6
        <3> QED
            BY <3>1
    <2> QED
        BY <2>1, <2>2, <2>3, <2>4, <2>5, <2>6
<1>6. PICK i : i = (CHOOSE j \in Caches : PrevEights(j) < e /\ e <= kmalloc_sizes[j + 1] \div 8)
    OBVIOUS
<1>7. i \in Caches /\ e <= kmalloc_sizes[i + 1] \div 8
    BY <1>5, <1>6
<1>8. e \in 0 .. (MAX_KMALLOC_SIZE \div 8) /\ e # 0
    BY DEF MAX_KMALLOC_SIZE
<1>9. cache_idx_map[e] = i
    BY <1>6, <1>8 DEF cache_idx_map
<1>10. ~(n > MAX_KMALLOC_SIZE)
    BY DEF MAX_KMALLOC_SIZE
<1>11. kmalloc(n) = [cache |-> i, size |-> kmalloc_sizes[i + 1]]
    BY <1>2, <1>9, <1>10 DEF kmalloc
<1>12. \A j \in Caches : kmalloc_sizes[j + 1] \in Nat
                           /\ kmalloc_sizes[j + 1] = 8 * (kmalloc_sizes[j + 1] \div 8)
    <2>1. \A j \in 1 .. 10 : kmalloc_sizes[j] \in Nat /\ kmalloc_sizes[j] = 8 * (kmalloc_sizes[j] \div 8)
        BY DEF kmalloc_sizes
    <2>2. \A j \in Caches : j + 1 \in 1 .. 10
        BY <1>1
    <2> QED
        BY <2>1, <2>2
<1>13. PICK s \in Nat : s = kmalloc_sizes[i + 1] /\ s = 8 * (s \div 8) /\ e <= s \div 8
    BY <1>7, <1>12
<1>14. s >= n
    BY <1>2, <1>13
<1> QED
    BY <1>7, <1>11, <1>13, <1>14

Specs ==
    {s \in [flags : SUBSET Flags, width : 0 .. 255, precision : 0 .. 255,
            lengthspec : {"H", "L", "l", ""}, base : {8, 10, 16}, signed : BOOLEAN] :
        s.signed => s.base = 10}

LEMMA SpecFields ==
    ASSUME NEW s \in Specs
    PROVE  /\ s.flags \subseteq Flags /\ s.width \in 0 .. 255 /\ s.precision \in 0 .. 255
           /\ s.lengthspec \in {"H", "L", "l", ""} /\ s.base \in {8, 10, 16} /\ s.signed \in BOOLEAN
           /\ s.signed => s.base = 10
BY DEF Specs

LEMMA SpecTyped ==
    ASSUME NEW w \in Written, NEW letter \in Letters
    PROVE  Specifier(w, letter) \in Specs
<1>1. /\ w.flags \in SUBSET Flags /\ w.width \in Numbers /\ w.precision \in Numbers
      /\ w.length \in Lengths
    BY DEF Written
<1>2. \A n \in Numbers : n \in Nat /\ SpecNumber(n) \in 0 .. 255
    BY PrintkAssumption DEF SpecNumber
<1>3. PICK l : l = LengthSpec(IF Swallows(w.width) \/ Swallows(w.precision)
                              THEN Shorter(w.length) ELSE w.length)
    OBVIOUS
<1>4. l \in {"H", "L", "l", ""}
    BY <1>3 DEF LengthSpec
<1>5. PICK b \in {8, 10, 16} : b = Base(letter)
    BY DEF Base
<1>6. PICK g \in BOOLEAN : g = (letter = "d")
    OBVIOUS
<1>7. g => b = 10
    BY <1>5, <1>6 DEF Base
<1>8. PICK f, x, y : f = w.flags /\ x = SpecNumber(w.width) /\ y = SpecNumber(w.precision)
    OBVIOUS
<1>9. f \in SUBSET Flags /\ x \in 0 .. 255 /\ y \in 0 .. 255
    BY <1>1, <1>2, <1>8
<1>10. PICK s : s = parse_specifier(w, letter)
    OBVIOUS
<1>11. s = [flags |-> f, width |-> x, precision |-> y, lengthspec |-> l, base |-> b, signed |-> g]
    BY <1>3, <1>5, <1>6, <1>8, <1>10 DEF parse_specifier
<1>12. s \in Specs
    BY <1>4, <1>7, <1>9, <1>11 DEF Specs
<1>13. CASE letter = "p"
    <2>1. PICK h : h = f \cup {"#"} /\ s.flags = f
        BY <1>11
    <2>2. Specifier(w, letter) = [[[s EXCEPT !.flags = h] EXCEPT !.precision = 16] EXCEPT !.lengthspec = "L"]
        BY <1>10, <1>13, <2>1 DEF Specifier
    <2>3. h \in SUBSET Flags
        BY <1>9, <2>1 DEF Flags
    <2>4. [s EXCEPT !.flags = h] = [flags |-> h, width |-> x, precision |-> y, lengthspec |-> l,
                                    base |-> b, signed |-> g]
        BY <1>11
    <2>5. PICK s1 : s1 = [s EXCEPT !.flags = h]
        OBVIOUS
    <2>6. [s1 EXCEPT !.precision = 16] = [flags |-> h, width |-> x, precision |-> 16, lengthspec |-> l,
                                          base |-> b, signed |-> g]
        <3>1. s1 = [flags |-> h, width |-> x, precision |-> y, lengthspec |-> l, base |-> b, signed |-> g]
            BY <2>4, <2>5
        <3> QED
            BY ONLY <3>1
    <2>7. PICK s2 : s2 = [s1 EXCEPT !.precision = 16]
        OBVIOUS
    <2>8. [s2 EXCEPT !.lengthspec = "L"] = [flags |-> h, width |-> x, precision |-> 16,
                                            lengthspec |-> "L", base |-> b, signed |-> g]
        <3>1. s2 = [flags |-> h, width |-> x, precision |-> 16, lengthspec |-> l, base |-> b, signed |-> g]
            BY <2>6, <2>7
        <3> QED
            BY ONLY <3>1
    <2>9. PICK s3 : s3 = [s2 EXCEPT !.lengthspec = "L"]
        OBVIOUS
    <2>10. s3 \in Specs
        <3>1. s3 = [flags |-> h, width |-> x, precision |-> 16, lengthspec |-> "L", base |-> b, signed |-> g]
            BY <2>8, <2>9
        <3> QED
            BY <1>7, <1>9, <2>3, <3>1 DEF Specs
    <2> QED
        BY <2>2, <2>5, <2>7, <2>9, <2>10
<1>14. CASE letter # "p"
    BY <1>10, <1>12, <1>14 DEF Specifier
<1> QED
    BY <1>13, <1>14

LEMMA BufferFacts ==
    ASSUME NEW s \in Specs
    PROVE  /\ buffer_size(s) \in 24 .. 259
           /\ buffer_size(s) >= s.precision + 4 /\ buffer_size(s) >= s.width + 4
<1>1. PICK x \in 0 .. 255 : x = s.precision
    BY SpecFields
<1>2. PICK y \in 0 .. 255 : y = s.width
    BY SpecFields
<1>3. PICK a : a = AtLeast(24, x + 4)
    OBVIOUS
<1>4. a \in 24 .. 259 /\ a >= x + 4
    BY <1>3 DEF AtLeast
<1>5. PICK b : b = AtLeast(a, y + 4)
    OBVIOUS
<1>6. b \in 24 .. 259 /\ b >= a /\ b >= y + 4
    BY <1>4, <1>5 DEF AtLeast
<1>7. buffer_size(s) = b
    BY <1>1, <1>2, <1>3, <1>5 DEF buffer_size
<1>8. b >= x + 4
    BY <1>4, <1>6
<1> QED
    BY <1>1, <1>2, <1>6, <1>7, <1>8

(* The digits there can be with a sign or a prefix. *)
LEMMA DigitsFacts ==
    ASSUME NEW s \in Specs
    PROVE  /\ MaxDigits(s) \in 1 .. 22
           /\ s.signed => MaxDigits(s) <= 19
           /\ s.base = 10 => MaxDigits(s) <= 20
           /\ s.base = 16 => MaxDigits(s) <= 16
<1>1. PICK b \in {8, 32, 64} : b = Bits(s.lengthspec)
    BY DEF Bits
<1>2. MaxDigits(s) = CASE s.base = 16 -> b \div 4
          [] s.base = 8 -> (b + 2) \div 3
          [] s.signed /\ b = 64 -> 19
          [] OTHER -> CASE b = 8 -> 3 [] b = 32 -> 10 [] OTHER -> 20
    BY <1>1 DEF MaxDigits
<1>3. s.base \in {8, 10, 16} /\ s.signed \in BOOLEAN /\ (s.signed => s.base = 10)
    BY SpecFields
<1>4. CASE s.base = 16
    BY <1>2, <1>3, <1>4
<1>5. CASE s.base = 8
    BY <1>2, <1>3, <1>5
<1>6. CASE s.base = 10
    <2>1. CASE s.signed /\ b = 64
        BY <1>2, <1>6, <2>1
    <2>2. CASE ~(s.signed /\ b = 64)
        <3>1. MaxDigits(s) = CASE b = 8 -> 3 [] b = 32 -> 10 [] OTHER -> 20
            BY <1>2, <1>6, <2>2
        <3> QED
            BY <1>6, <2>2, <3>1
    <2> QED
        BY <2>1, <2>2
<1> QED
    BY <1>3, <1>4, <1>5, <1>6

(* What comes before the digits: sign, space or prefix. *)
Lead(s, v) ==
    IF s.signed
    THEN IF v.sign < 0 THEN <<"-">>
         ELSE IF "+" \in s.flags THEN <<"+">> ELSE IF " " \in s.flags THEN <<" ">> ELSE <<>>
    ELSE IF "#" \in s.flags /\ s.base # 10 THEN Prefix(s.base) ELSE <<>>

Number(s, v, least) == Lead(s, v) \o (Sequence("0", least - v.digits) \o Digits(v))

(* Where the code takes the digits to begin. *)
Start(s, v) ==
    IF s.signed THEN IF Lead(s, v) # <<>> \/ v.sign <= 0 THEN 1 ELSE 0
    ELSE IF "#" \notin s.flags THEN 0 ELSE IF s.base = 10 THEN -1 ELSE 2

(* 0 without a sign: the code takes the digits to begin after it. *)
OddZero(s, v) == s.signed /\ v.sign = 0 /\ Lead(s, v) = <<>>

LongDigits(s, v) == ~s.signed /\ "#" \in s.flags /\ s.base = 8 /\ v.digits = 22

Room(s, v) == IF LongDigits(s, v) THEN AtLeast(25, buffer_size(s)) ELSE buffer_size(s)

LEMMA ValueFacts ==
    ASSUME NEW s \in Specs, NEW v \in Values(s)
    PROVE  /\ v.sign \in {-1, 0, 1} /\ v.digits \in 1 .. 22
           /\ v.sign = 0 => v.digits = 1
           /\ ~s.signed => v.sign >= 0
           /\ s.signed => v.digits <= 19
           /\ s.base = 10 => v.digits <= 20
           /\ s.base = 16 => v.digits <= 16
<1>1. CASE v = [sign |-> 0, digits |-> 1]
    BY <1>1
<1>2. ASSUME NEW g \in (IF s.signed THEN {-1, 1} ELSE {1}),
             NEW d \in {1, MaxDigits(s)} \cup (DigitCounts \cap (1 .. MaxDigits(s))),
             v = [sign |-> g, digits |-> d]
      PROVE  /\ v.sign \in {-1, 1} /\ (~s.signed => v.sign = 1) /\ v.digits \in 1 .. MaxDigits(s)
    <2>1. d \in 1 .. MaxDigits(s)
        BY DigitsFacts
    <2> QED
        BY <1>2, <2>1
<1>3. CASE /\ v.sign \in {-1, 1} /\ (~s.signed => v.sign = 1) /\ v.digits \in 1 .. MaxDigits(s)
    <2>1. PICK m \in 1 .. 22 : m = MaxDigits(s)
        BY DigitsFacts
    <2>2. v.digits \in 1 .. 22 /\ v.digits <= m
        BY <1>3, <2>1
    <2>3. /\ s.signed => m <= 19
          /\ s.base = 10 => m <= 20
          /\ s.base = 16 => m <= 16
        BY <2>1, DigitsFacts
    <2>4. PICK k \in 1 .. 22 : k = v.digits
        BY <2>2
    <2>5. /\ s.signed => k <= 19
          /\ s.base = 10 => k <= 20
          /\ s.base = 16 => k <= 16
        BY <2>2, <2>3, <2>4
    <2>6. v.sign # 0 /\ (~s.signed => v.sign >= 0)
        BY <1>3
    <2> QED
        BY <1>3, <2>2, <2>4, <2>5, <2>6
<1> QED
    BY <1>1, <1>2, <1>3 DEF Values

LEMMA DigitsText ==
    ASSUME NEW s \in Specs, NEW v \in Values(s)
    PROVE  Digits(v) \in Strings /\ Len(Digits(v)) = v.digits /\ (v.sign = 0 => Digits(v) = <<"0">>)
<1>1. v.digits \in 1 .. 22 /\ (v.sign = 0 => v.digits = 1)
    BY ValueFacts
<1>2. CASE v.sign = 0
    <2>1. Digits(v) = <<"0">>
        BY <1>2 DEF Digits
    <2>2. <<"0">> \in Seq(Classes) /\ Len(<<"0">>) = 1
        BY DEF Classes
    <2> QED
        BY <1>1, <1>2, <2>1, <2>2 DEF Strings
<1>3. CASE v.sign # 0
    <2>1. PICK n \in 1 .. 22 : n = v.digits
        BY <1>1
    <2>2. Digits(v) = Sequence("d", n)
        BY <1>3, <2>1 DEF Digits, DIGIT
    <2>3. "d" \in Classes /\ n \in Int /\ n > 0
        BY DEF Classes
    <2>4. Sequence("d", n) \in Strings /\ Len(Sequence("d", n)) = n
        BY <2>3, SequenceFacts
    <2> QED
        BY <1>3, <2>1, <2>2, <2>4
<1> QED
    BY <1>2, <1>3

LEMMA OneChar ==
    /\ <<"-">> \in Strings /\ Len(<<"-">>) = 1 /\ <<"+">> \in Strings /\ Len(<<"+">>) = 1
    /\ <<" ">> \in Strings /\ Len(<<" ">>) = 1 /\ <<>> \in Strings /\ Len(<<>>) = 0
    /\ <<"0">> \in Strings /\ Len(<<"0">>) = 1
    /\ \A b : Prefix(b) \in Strings /\ Len(Prefix(b)) = 2
<1>1. /\ <<"-">> \in Strings /\ Len(<<"-">>) = 1 /\ <<"+">> \in Strings /\ Len(<<"+">>) = 1
      /\ <<" ">> \in Strings /\ Len(<<" ">>) = 1 /\ <<>> \in Strings /\ Len(<<>>) = 0
      /\ <<"0">> \in Strings /\ Len(<<"0">>) = 1
    BY DEF Strings, Classes
<1>2. <<"0", "o">> \in Strings /\ Len(<<"0", "o">>) = 2 /\ <<"0", "x">> \in Strings /\ Len(<<"0", "x">>) = 2
    BY DEF Strings, Classes
<1> QED
    BY <1>1, <1>2 DEF Prefix

LEMMA LeadFacts ==
    ASSUME NEW s \in Specs, NEW v \in Values(s)
    PROVE  /\ Lead(s, v) \in Strings /\ Len(Lead(s, v)) \in 0 .. 2
           /\ s.signed => Len(Lead(s, v)) <= 1 /\ (Lead(s, v) # <<>> => Len(Lead(s, v)) = 1)
           /\ ~s.signed /\ "#" \in s.flags /\ s.base # 10 => Len(Lead(s, v)) = 2
           /\ ~s.signed /\ ~("#" \in s.flags /\ s.base # 10) => Len(Lead(s, v)) = 0
           /\ Lead(s, v) = <<>> => Len(Lead(s, v)) = 0
<1>1. PICK l, n : l = Lead(s, v) /\ n = Len(l)
    OBVIOUS
<1>2. l = <<>> => n = 0
    BY <1>1
<1>3. CASE s.signed
    <2>1. l = <<"-">> \/ l = <<"+">> \/ l = <<" ">> \/ l = <<>>
        BY <1>1, <1>3 DEF Lead
    <2>2. l \in Strings /\ (n = 1 \/ (n = 0 /\ l = <<>>))
        BY <1>1, <2>1, OneChar
    <2>3. n \in 0 .. 2 /\ n <= 1 /\ (l # <<>> => n = 1)
        BY ONLY <2>2
    <2> QED
        BY <1>1, <1>2, <1>3, <2>2, <2>3
<1>4. CASE ~s.signed /\ "#" \in s.flags /\ s.base # 10
    <2>1. l = Prefix(s.base)
        BY <1>1, <1>4 DEF Lead
    <2>2. l \in Strings /\ n = 2
        BY <1>1, <2>1, OneChar
    <2>3. n \in 0 .. 2
        BY ONLY <2>2
    <2> QED
        BY <1>1, <1>2, <1>4, <2>2, <2>3
<1>5. CASE ~s.signed /\ ~("#" \in s.flags /\ s.base # 10)
    <2>1. l = <<>>
        BY <1>1, <1>5 DEF Lead
    <2>2. l \in Strings /\ n = 0
        BY <1>2, <2>1, OneChar
    <2>3. n \in 0 .. 2
        BY ONLY <2>2
    <2> QED
        BY <1>1, <1>5, <2>2, <2>3
<1> QED
    BY <1>3, <1>4, <1>5

LEMMA NumberFacts ==
    ASSUME NEW s \in Specs, NEW v \in Values(s), NEW n \in Int
    PROVE  /\ Number(s, v, n) \in Strings
           /\ n >= v.digits => Len(Number(s, v, n)) = Len(Lead(s, v)) + n
           /\ n < v.digits => /\ Len(Number(s, v, n)) = Len(Lead(s, v)) + v.digits
                              /\ Number(s, v, n) = Lead(s, v) \o Digits(v)
<1>1. PICK l : l = Lead(s, v) /\ l \in Strings /\ Len(l) \in 0 .. 2
    BY LeadFacts
<1>2. PICK m \in 1 .. 22 : m = v.digits
    BY ValueFacts
<1>3. PICK d : d = Digits(v) /\ d \in Strings /\ Len(d) = m
    BY <1>2, DigitsText
<1>4. "0" \in Classes /\ n - m \in Int
    BY DEF Classes
<1>5. PICK z : z = Sequence("0", n - m)
    OBVIOUS
<1>6. /\ z \in Strings /\ (n - m > 0 => Len(z) = n - m) /\ (n - m <= 0 => Len(z) = 0 /\ z = <<>>)
    BY <1>4, <1>5, SequenceFacts
<1>7. z \o d \in Strings /\ Len(z \o d) = Len(z) + m
    BY <1>3, <1>6, Joined
<1>8. l \o (z \o d) \in Strings /\ Len(l \o (z \o d)) = Len(l) + Len(z \o d)
    BY <1>1, <1>7, Joined
<1>9. Number(s, v, n) = l \o (z \o d)
    BY <1>1, <1>2, <1>3, <1>5 DEF Number
<1>10. CASE n >= m
    <2>1. Len(z) = n - m
        BY <1>6, <1>10
    <2>2. Len(Number(s, v, n)) = Len(l) + n
        BY <1>1, <1>7, <1>8, <1>9, <2>1
    <2>3. ~(n < m)
        BY <1>10
    <2> QED
        BY <1>1, <1>2, <1>8, <1>9, <2>2, <2>3
<1>11. CASE n < m
    <2>1. n - m <= 0
        BY <1>11
    <2>2. z = <<>> /\ Len(z) = 0
        BY <1>6, <2>1
    <2>3. z \o d = d
        BY <1>3, <2>2, EmptyJoin
    <2>4. ~(n >= m)
        BY <1>11
    <2> QED
        BY <1>1, <1>2, <1>3, <1>8, <1>9, <2>3, <2>4
<1> QED
    BY <1>10, <1>11

LEMMA RoomFacts ==
    ASSUME NEW s \in Specs, NEW v \in Values(s)
    PROVE  /\ Room(s, v) \in Int /\ Room(s, v) >= buffer_size(s)
           /\ Len(Lead(s, v)) + v.digits + 1 <= Room(s, v)
           /\ s.precision + 4 <= Room(s, v) /\ s.width + 4 <= Room(s, v)
<1>1. PICK b \in 24 .. 259 : b = buffer_size(s) /\ b >= s.precision + 4 /\ b >= s.width + 4
    BY BufferFacts
<1>2. PICK r : r = Room(s, v)
    OBVIOUS
<1>3. r \in Int /\ r >= b /\ (LongDigits(s, v) => r >= 25)
    BY <1>1, <1>2 DEF Room, AtLeast
<1>4. PICK m \in 1 .. 22 : m = v.digits
    BY ValueFacts
<1>5. PICK k \in 0 .. 2 : k = Len(Lead(s, v))
    BY LeadFacts
<1>6. s.width \in 0 .. 255 /\ s.precision \in 0 .. 255 /\ s.base \in {8, 10, 16} /\ s.signed \in BOOLEAN
    BY SpecFields
<1>7. k + m + 1 <= r
    <2>1. CASE s.signed
        <3>1. k <= 1 /\ m <= 19
            BY <1>4, <1>5, <2>1, LeadFacts, ValueFacts
        <3> QED
            BY <1>1, <1>3, <3>1
    <2>2. CASE ~s.signed /\ ~("#" \in s.flags /\ s.base # 10)
        <3>1. k = 0
            BY <1>5, <2>2, LeadFacts
        <3> QED
            BY <1>1, <1>3, <3>1
    <2>3. CASE ~s.signed /\ "#" \in s.flags /\ s.base = 16
        <3>1. m <= 16
            BY <1>4, <2>3, ValueFacts
        <3> QED
            BY <1>1, <1>3, <3>1
    <2>4. CASE ~s.signed /\ "#" \in s.flags /\ s.base = 8
        <3>1. CASE m = 22
            <4>1. LongDigits(s, v)
                BY <1>4, <2>4, <3>1 DEF LongDigits
            <4> QED
                BY <1>3, <4>1
        <3>2. CASE m <= 21
            BY <1>1, <1>3, <3>2
        <3> QED
            BY <3>1, <3>2
    <2> QED
        BY <1>6, <2>1, <2>2, <2>3, <2>4
<1>8. PICK w, p \in 0 .. 255 : w = s.width /\ p = s.precision
    BY <1>6
<1>9. p + 4 <= r /\ w + 4 <= r
    BY <1>1, <1>3, <1>8
<1> QED
    BY <1>1, <1>2, <1>3, <1>4, <1>5, <1>7, <1>8, <1>9

(* Texts that fit in the buffer. *)
Fits(s, v, text) == text \in Strings /\ Len(text) + 1 <= Room(s, v)

LEMMA FitsPadded ==
    ASSUME NEW s \in Specs, NEW v \in Values(s), NEW text, Fits(s, v, text), NEW n \in Int, n <= s.width,
           NEW c \in Classes
    PROVE  /\ Fits(s, v, Sequence(c, n - Len(text)) \o text)
           /\ Fits(s, v, text \o Sequence(c, n - Len(text)))
<1>1. PICK r \in Int : r = Room(s, v) /\ s.width + 4 <= r
    BY RoomFacts
<1>2. text \in Strings /\ Len(text) \in Nat /\ Len(text) + 1 <= r
    BY <1>1, Joined DEF Fits
<1>3. PICK w \in 0 .. 255 : w = s.width
    BY SpecFields
<1>4. w + 4 <= r /\ n <= w
    BY <1>1, <1>3
<1>5. r - 1 \in Int /\ Len(text) <= r - 1 /\ n <= r - 1
    BY <1>2, <1>4
<1>6. PICK k \in Int : k = r - 1 /\ Len(text) <= k /\ n <= k
    BY <1>5
<1>7. /\ Sequence(c, n - Len(text)) \o text \in Strings /\ Len(Sequence(c, n - Len(text)) \o text) <= k
      /\ text \o Sequence(c, n - Len(text)) \in Strings /\ Len(text \o Sequence(c, n - Len(text))) <= k
    BY <1>2, <1>6, PaddedLength
<1>8. \A x \in Strings : Len(x) <= k => Fits(s, v, x)
    <2>1. ASSUME NEW x \in Strings, Len(x) <= k PROVE Fits(s, v, x)
        <3>1. Len(x) \in Nat
            BY Joined
        <3> QED
            BY <1>1, <1>6, <2>1, <3>1 DEF Fits
    <2> QED
        BY <2>1
<1> QED
    BY <1>7, <1>8

LEMMA FitsNumber ==
    ASSUME NEW s \in Specs, NEW v \in Values(s), NEW n \in Int,
           n <= s.precision \/ n <= s.width - Len(Lead(s, v))
    PROVE  Fits(s, v, Number(s, v, n)) /\ Fits(s, v, Lead(s, v) \o Digits(v))
<1>1. PICK r \in Int : /\ r = Room(s, v) /\ s.precision + 4 <= r /\ s.width + 4 <= r
                      /\ Len(Lead(s, v)) + v.digits + 1 <= r
    BY RoomFacts
<1>2. PICK k \in 0 .. 2 : k = Len(Lead(s, v))
    BY LeadFacts
<1>3. PICK m \in 1 .. 22 : m = v.digits
    BY ValueFacts
<1>4. PICK t : t = Number(s, v, n) /\ t \in Strings
    BY NumberFacts
<1>5. s.width \in 0 .. 255 /\ s.precision \in 0 .. 255
    BY SpecFields
<1>6. Len(t) + 1 <= r
    <2>1. CASE n >= m
        <3>1. Len(t) = k + n
            BY <1>2, <1>3, <1>4, <2>1, NumberFacts
        <3>2. PICK w, p \in 0 .. 255 : w = s.width /\ p = s.precision
            BY <1>5
        <3>3. (n <= p \/ n <= w - k) /\ p + 4 <= r /\ w + 4 <= r
            BY <1>1, <1>2, <3>2
        <3>4. k + n + 1 <= r
            BY <3>3
        <3> QED
            BY <3>1, <3>4
    <2>2. CASE n < m
        <3>1. Len(t) = k + m
            BY <1>2, <1>3, <1>4, <2>2, NumberFacts
        <3> QED
            BY <1>1, <1>2, <1>3, <3>1
    <2> QED
        BY <2>1, <2>2
<1>7. PICK b : b = Lead(s, v) \o Digits(v) /\ b \in Strings /\ Len(b) = k + m
    <2>1. Lead(s, v) \in Strings /\ Digits(v) \in Strings /\ Len(Digits(v)) = m
        BY <1>3, LeadFacts, DigitsText
    <2> QED
        BY <1>2, <2>1, Joined
<1>8. Len(b) + 1 <= r
    BY <1>1, <1>2, <1>3, <1>7
<1> QED
    BY <1>1, <1>4, <1>6, <1>7, <1>8 DEF Fits

Zeroed(s) == "0" \in s.flags /\ "-" \notin s.flags /\ s.precision = 0

Least(s, v) == IF Zeroed(s) THEN s.width - Len(Lead(s, v)) ELSE s.precision

(* The layout of C's printf, in terms of the pieces. *)
LEMMA LeadIs ==
    ASSUME NEW s \in Specs, NEW v \in Values(s)
    PROVE  (CASE s.signed /\ v.sign < 0 -> <<"-">>
              [] s.signed /\ v.sign >= 0 /\ "+" \in s.flags -> <<"+">>
              [] s.signed /\ v.sign >= 0 /\ "+" \notin s.flags /\ " " \in s.flags -> <<" ">>
              [] ~s.signed /\ "#" \in s.flags /\ s.base # 10 -> Prefix(s.base)
              [] OTHER -> <<>>) = Lead(s, v)
<1>1. v.sign < 0 <=> ~(v.sign >= 0)
    BY ValueFacts
<1>2. PICK g, m, f, b : g = s.signed /\ m = (v.sign < 0) /\ f = s.flags /\ b = s.base
    OBVIOUS
<1>3. CASE s.signed /\ v.sign < 0
    BY <1>1, <1>3, Zenon DEF Lead
<1>4. CASE s.signed /\ v.sign >= 0 /\ "+" \in s.flags
    BY <1>1, <1>4, Zenon DEF Lead
<1>5. CASE s.signed /\ v.sign >= 0 /\ "+" \notin s.flags /\ " " \in s.flags
    BY <1>1, <1>5, Zenon DEF Lead
<1>6. CASE s.signed /\ v.sign >= 0 /\ "+" \notin s.flags /\ " " \notin s.flags
    BY <1>1, <1>6, Zenon DEF Lead
<1>7. CASE ~s.signed /\ "#" \in s.flags /\ s.base # 10
    BY <1>1, <1>7, Zenon DEF Lead
<1>8. CASE ~s.signed /\ ~("#" \in s.flags /\ s.base # 10)
    BY <1>1, <1>8, Zenon DEF Lead
<1> QED
    BY <1>1, <1>3, <1>4, <1>5, <1>6, <1>7, <1>8, Zenon

Padded(s, number) ==
    IF "-" \in s.flags THEN number \o Sequence(" ", s.width - Len(number))
    ELSE Sequence(" ", s.width - Len(number)) \o number

LeadCase(s, v) ==
    CASE s.signed /\ v.sign < 0 -> <<"-">>
      [] s.signed /\ v.sign >= 0 /\ "+" \in s.flags -> <<"+">>
      [] s.signed /\ v.sign >= 0 /\ "+" \notin s.flags /\ " " \in s.flags -> <<" ">>
      [] ~s.signed /\ "#" \in s.flags /\ s.base # 10 -> Prefix(s.base)
      [] OTHER -> <<>>

Filled(s, v, lead) ==
    (lead \o Sequence("0", (IF "0" \in s.flags /\ "-" \notin s.flags /\ s.precision = 0
                            THEN s.width - Len(lead) ELSE s.precision) - v.digits))
        \o Digits(v)

LEMMA ExpectedIs ==
    ASSUME NEW s \in Specs, NEW v \in Values(s)
    PROVE  Expected(s, v) = Padded(s, Number(s, v, Least(s, v))) /\ Least(s, v) \in Int
<1>1. PICK l : l = Lead(s, v) /\ l \in Strings /\ Len(l) \in 0 .. 2
    BY LeadFacts
<1>2. PICK n \in Int : n = Least(s, v)
    <2>1. PICK w, p \in 0 .. 255 : w = s.width /\ p = s.precision
        BY SpecFields
    <2>2. PICK k \in 0 .. 2 : k = Len(Lead(s, v))
        BY <1>1
    <2>3. w - k \in Int /\ p \in Int
        BY <2>1, <2>2
    <2>4. Least(s, v) = IF Zeroed(s) THEN w - k ELSE p
        BY <2>1, <2>2 DEF Least
    <2>5. Least(s, v) \in Int
        BY <2>3, <2>4
    <2> QED
        BY <2>5
<1>3. PICK d : d = Digits(v) /\ d \in Strings
    BY DigitsText
<1>4. v.digits \in Int /\ "0" \in Classes
    BY ValueFacts DEF Classes
<1>5. PICK z : z = Sequence("0", n - v.digits) /\ z \in Strings
    <2>1. n - v.digits \in Int
        BY <1>4
    <2> QED
        BY <1>4, <2>1, SequenceFacts
<1>6. (l \o z) \o d = Number(s, v, n)
    BY <1>1, <1>2, <1>3, <1>5, JoinAgain DEF Number
<1>7. Expected(s, v) = Padded(s, (l \o z) \o d)
    <2>1. l = LeadCase(s, v)
        BY <1>1, LeadIs DEF LeadCase
    <2>2. Expected(s, v) = Padded(s, Filled(s, v, LeadCase(s, v)))
        BY ONLY Zenon DEF Expected, Padded, Filled, LeadCase
    <2>3. n = IF "0" \in s.flags /\ "-" \notin s.flags /\ s.precision = 0 THEN s.width - Len(l)
              ELSE s.precision
        BY <1>1, <1>2 DEF Least, Zeroed
    <2>4. Filled(s, v, l) = (l \o z) \o d
        BY ONLY <1>3, <1>5, <2>3 DEF Filled
    <2> QED
        BY ONLY <1>3, <1>5, <2>1, <2>2, <2>3, <2>4
<1> QED
    BY <1>2, <1>6, <1>7

LEMMA StartFacts ==
    ASSUME NEW s \in Specs, NEW v \in Values(s)
    PROVE  /\ Start(s, v) \in {-1, 0, 1, 2}
           /\ \/ Start(s, v) = -1 /\ ~s.signed /\ "#" \in s.flags /\ s.base = 10
              \/ Start(s, v) = Len(Lead(s, v))
              \/ OddZero(s, v) /\ Start(s, v) = 1 /\ Len(Lead(s, v)) = 0 /\ Digits(v) = <<"0">>
           /\ Start(s, v) = 2 => ~s.signed /\ "#" \in s.flags /\ s.base # 10
<1>1. CASE s.signed
    <2>1. CASE Lead(s, v) # <<>>
        <3>1. Len(Lead(s, v)) = 1 /\ Start(s, v) = 1
            BY <1>1, <2>1, LeadFacts DEF Start
        <3> QED
            BY <3>1
    <2>2. CASE Lead(s, v) = <<>> /\ v.sign > 0
        <3>1. Len(Lead(s, v)) = 0
            BY <2>2, LeadFacts
        <3>2. ~(v.sign <= 0)
            BY <2>2, ValueFacts
        <3>3. Start(s, v) = 0
            BY <1>1, <2>2, <3>2 DEF Start
        <3> QED
            BY <3>1, <3>3
    <2>3. CASE Lead(s, v) = <<>> /\ v.sign = 0
        <3>1. Len(Lead(s, v)) = 0 /\ Digits(v) = <<"0">>
            BY <2>3, LeadFacts, DigitsText
        <3>2. Start(s, v) = 1 /\ OddZero(s, v)
            BY <1>1, <2>3 DEF Start, OddZero
        <3> QED
            BY <3>1, <3>2
    <2>4. v.sign < 0 => Lead(s, v) = <<"-">>
        BY <1>1 DEF Lead
    <2>5. <<"-">> # <<>>
        OBVIOUS
    <2>6. v.sign > 0 \/ v.sign = 0 \/ v.sign < 0
        BY ValueFacts
    <2> QED
        BY <2>1, <2>2, <2>3, <2>4, <2>5, <2>6
<1>2. CASE ~s.signed
    <2>1. CASE "#" \notin s.flags
        <3>1. Len(Lead(s, v)) = 0 /\ Start(s, v) = 0
            BY <1>2, <2>1, LeadFacts DEF Start
        <3> QED
            BY <3>1
    <2>2. CASE "#" \in s.flags /\ s.base = 10
        <3>1. Start(s, v) = -1
            BY <1>2, <2>2 DEF Start
        <3> QED
            BY <1>2, <2>2, <3>1
    <2>3. CASE "#" \in s.flags /\ s.base # 10
        <3>1. Len(Lead(s, v)) = 2 /\ Start(s, v) = 2
            BY <1>2, <2>3, LeadFacts DEF Start
        <3> QED
            BY <1>2, <2>3, <3>1
    <2> QED
        BY <2>1, <2>2, <2>3
<1> QED
    BY <1>1, <1>2

(* The sign and the prefix make the lead. *)
Added(s, v) ==
    IF v.sign >= 0
    THEN IF "+" \in s.flags THEN <<"+">> ELSE IF " " \in s.flags THEN <<" ">> ELSE <<>>
    ELSE <<>>

LEMMA SignLeads ==
    ASSUME NEW s \in Specs, NEW v \in Values(s), s.signed
    PROVE  /\ Added(s, v) \o itoa(v) = Lead(s, v) \o Digits(v)
           /\ (IF Added(s, v) # <<>> \/ v.sign <= 0 THEN 1 ELSE 0) = Start(s, v)
<1>1. PICK d : d = Digits(v) /\ d \in Strings
    BY DigitsText
<1>2. PICK g \in {-1, 0, 1} : g = v.sign
    BY ValueFacts
<1>3. CASE g < 0
    <2>1. ~(g >= 0) /\ g <= 0
        BY <1>2, <1>3
    <2>2. Added(s, v) = <<>> /\ Lead(s, v) = <<"-">> /\ itoa(v) = <<"-">> \o d
        BY <1>1, <1>2, <1>3, <2>1 DEF Lead, itoa, Added
    <2>3. <<"-">> \o d \in Strings
        BY <1>1, OneChar, Joined
    <2>4. Added(s, v) \o itoa(v) = <<"-">> \o d
        BY <2>2, <2>3, EmptyJoin
    <2>5. Start(s, v) = 1
        BY <1>2, <2>1, <2>2 DEF Start
    <2> QED
        BY <1>1, <1>2, <2>1, <2>2, <2>4, <2>5
<1>4. CASE g >= 0
    <2>1. ~(g < 0)
        BY <1>2, <1>4
    <2>2. Lead(s, v) = Added(s, v)
        BY <1>2, <1>4, <2>1 DEF Lead, Added
    <2>3. itoa(v) = <<>> \o d
        BY <1>1, <1>2, <2>1 DEF itoa
    <2>4. itoa(v) = d
        BY <1>1, <2>3, EmptyJoin
    <2>5. Start(s, v) = IF Added(s, v) # <<>> \/ v.sign <= 0 THEN 1 ELSE 0
        BY <2>2 DEF Start
    <2> QED
        BY <1>1, <2>2, <2>4, <2>5
<1>5. g < 0 \/ g >= 0
    BY <1>2
<1> QED
    BY <1>3, <1>4, <1>5

LEMMA PrefixLeads ==
    ASSUME NEW s \in Specs, NEW v \in Values(s), ~s.signed
    PROVE  /\ ~("#" \in s.flags) => utoa(v) = Lead(s, v) \o Digits(v) /\ Start(s, v) = 0
           /\ "#" \in s.flags /\ s.base = 10 => utoa(v) = Lead(s, v) \o Digits(v) /\ Start(s, v) = -1
           /\ "#" \in s.flags /\ s.base # 10 =>
                prepend(utoa(v), Prefix(s.base)) = Lead(s, v) \o Digits(v) /\ Start(s, v) = 2
<1>1. PICK d : d = Digits(v) /\ d \in Strings /\ utoa(v) = d
    BY DigitsText DEF utoa
<1>2. <<>> \o d = d
    BY <1>1, EmptyJoin
<1>3. ~("#" \in s.flags /\ s.base # 10) => Lead(s, v) = <<>>
    BY DEF Lead
<1>4. "#" \in s.flags /\ s.base # 10 => Lead(s, v) = Prefix(s.base)
    BY DEF Lead
<1> QED
    BY <1>1, <1>2, <1>3, <1>4 DEF prepend, Start

(* 0 to be filled up with zeros. *)
LEMMA OddRjust ==
    ASSUME NEW n \in Int
    PROVE  rjust(<<"0">>, 1, n, "0") = <<"0">> \o Sequence("0", n)
<1>1. PICK a : a = <<"0">> /\ a \in Strings /\ Len(a) = 1
    BY OneChar
<1>2. PICK b : b = <<>> /\ b \in Strings /\ Len(b) = 0
    BY OneChar
<1>3. a \o b = a
    BY <1>1, <1>2, EmptyJoin
<1>4. "0" \in Classes
    BY DEF Classes
<1>5. rjust(a \o b, Len(a), n, "0") = a \o (Sequence("0", n - Len(b)) \o b)
    BY <1>1, <1>2, <1>4, RjustAfter
<1>6. n - 0 = n
    OBVIOUS
<1>7. Sequence("0", n) \in Strings
    BY <1>4, SequenceFacts
<1>8. Sequence("0", n) \o b = Sequence("0", n)
    BY <1>2, <1>7, EmptyJoin
<1> QED
    BY <1>1, <1>2, <1>3, <1>5, <1>6, <1>8

LEMMA ZerosSwap ==
    ASSUME NEW n \in Int
    PROVE  /\ <<"0">> \o Sequence("0", n) = Sequence("0", n) \o <<"0">>
           /\ <<"0">> \o Sequence("0", n) \in Strings
           /\ Len(<<"0">> \o Sequence("0", n)) = IF n > 0 THEN n + 1 ELSE 1
<1>1. PICK a : a = <<"0">> /\ a \in Strings /\ Len(a) = 1 /\ a[1] = "0"
    <2>1. <<"0">>[1] = "0"
        OBVIOUS
    <2> QED
        BY <2>1, OneChar
<1>2. PICK m \in Nat : m = IF n > 0 THEN n ELSE 0
    OBVIOUS
<1>3. "0" \in Classes
    BY DEF Classes
<1>4. PICK z : z = Sequence("0", n)
    OBVIOUS
<1>5. z \in Strings /\ Len(z) = m /\ \A i \in 1 .. m : z[i] = "0"
    BY <1>2, <1>3, <1>4, SequenceFacts
<1>6. PICK x : x = a \o z
    OBVIOUS
<1>7. /\ x \in Strings /\ Len(x) = 1 + m /\ \A i \in 1 .. 1 : x[i] = a[i]
      /\ \A i \in 1 .. m : x[1 + i] = z[i]
    BY <1>1, <1>5, <1>6, Joined
<1>8. PICK y : y = z \o a
    OBVIOUS
<1>9. /\ y \in Strings /\ Len(y) = m + 1 /\ \A i \in 1 .. m : y[i] = z[i]
      /\ \A i \in 1 .. 1 : y[m + i] = a[i]
    BY <1>1, <1>5, <1>8, Joined
<1>10. ASSUME NEW i \in 1 .. (m + 1) PROVE x[i] = "0" /\ y[i] = "0"
    <2>1. x[i] = "0"
        <3>1. CASE i = 1
            BY <1>1, <1>7, <3>1
        <3>2. CASE i # 1
            <4>1. i - 1 \in 1 .. m /\ 1 + (i - 1) = i
                BY <3>2
            <4> QED
                BY <1>5, <1>7, <4>1
        <3> QED
            BY <3>1, <3>2
    <2>2. y[i] = "0"
        <3>1. CASE i = m + 1
            <4>1. y[m + 1] = a[1]
                BY <1>9
            <4> QED
                BY <1>1, <3>1, <4>1
        <3>2. CASE i # m + 1
            <4>1. i \in 1 .. m
                BY <3>2
            <4> QED
                BY <1>5, <1>9, <4>1
        <3> QED
            BY <3>1, <3>2
    <2> QED
        BY <2>1, <2>2
<1>11. x = y
    <2>1. x \in Seq(Classes) /\ y \in Seq(Classes) /\ Len(x) = Len(y)
        BY <1>7, <1>9 DEF Strings
    <2>2. \A i \in 1 .. Len(x) : x[i] = y[i]
        BY <1>7, <1>10
    <2> QED
        BY <2>1, <2>2, SeqEqual
<1>12. Len(x) = IF n > 0 THEN n + 1 ELSE 1
    BY <1>2, <1>7
<1> QED
    BY <1>1, <1>4, <1>6, <1>7, <1>8, <1>11, <1>12

LEMMA PaddedFull ==
    ASSUME NEW s \in Specs, NEW number \in Strings, s.width <= Len(number)
    PROVE  Padded(s, number) = number
<1>1. PICK w \in 0 .. 255 : w = s.width
    BY SpecFields
<1>2. PICK n \in Nat : n = Len(number)
    BY Joined
<1>3. w - n \in Int /\ w - n <= 0 /\ " " \in Classes
    BY <1>1, <1>2 DEF Classes
<1>4. Sequence(" ", w - n) = <<>>
    BY <1>3, SequenceFacts
<1> QED
    BY <1>1, <1>2, <1>4, EmptyJoin DEF Padded

(* The precision: zeros between the lead and the digits. *)
LEMMA PrecisionStage ==
    ASSUME NEW s \in Specs, NEW v \in Values(s), NEW p \in 0 .. 255, p = s.precision
    PROVE  LET t == Lead(s, v) \o Digits(v) IN
           /\ p = 0 => t = Number(s, v, p) /\ Fits(s, v, t)
           /\ p > 0 /\ Start(s, v) < 0 => WildPointer(s) /\ Fits(s, v, t)
           /\ p > 0 /\ Start(s, v) >= 0 =>
                /\ Fits(s, v, rjust(t, Start(s, v), p, "0"))
                /\ rjust(t, Start(s, v), p, "0") = Number(s, v, p) \/ OddZero(s, v)
<1>1. PICK l : l = Lead(s, v) /\ l \in Strings /\ Len(l) \in 0 .. 2
    BY LeadFacts
<1>2. PICK m \in 1 .. 22 : m = v.digits
    BY ValueFacts
<1>3. PICK d : d = Digits(v) /\ d \in Strings /\ Len(d) = m
    BY <1>2, DigitsText
<1>4. PICK t : t = Lead(s, v) \o Digits(v)
    OBVIOUS
<1>5. Fits(s, v, t) /\ Fits(s, v, Number(s, v, p))
    <2>1. p \in Int /\ p <= s.precision
        OBVIOUS
    <2> QED
        BY <1>4, <2>1, FitsNumber
<1>6. PICK k \in {-1, 0, 1, 2} : k = Start(s, v)
    BY StartFacts
<1>7. p = 0 => t = Number(s, v, p)
    <2>1. SUFFICES ASSUME p = 0 PROVE t = Number(s, v, p)
        OBVIOUS
    <2>2. p \in Int /\ p < v.digits
        BY <1>2, <2>1
    <2> QED
        BY <1>4, <2>2, NumberFacts
<1>8. p > 0 /\ k < 0 => WildPointer(s)
    <2>1. SUFFICES ASSUME p > 0, k < 0 PROVE WildPointer(s)
        OBVIOUS
    <2>2. k = -1 /\ k # 1
        BY <1>6, <2>1
    <2>3. k # Len(Lead(s, v))
        BY <1>1, <2>2
    <2>4. ~s.signed /\ "#" \in s.flags /\ s.base = 10
        BY <1>6, <2>2, <2>3, StartFacts
    <2>5. s.precision > 0
        BY <2>1
    <2> QED
        BY <2>4, <2>5 DEF WildPointer
<1>9. p > 0 /\ k >= 0 => Fits(s, v, rjust(t, k, p, "0")) /\ (rjust(t, k, p, "0") = Number(s, v, p) \/ OddZero(s, v))
    <2>1. SUFFICES ASSUME p > 0, k >= 0
                   PROVE  Fits(s, v, rjust(t, k, p, "0"))
                            /\ (rjust(t, k, p, "0") = Number(s, v, p) \/ OddZero(s, v))
        OBVIOUS
    <2>2. CASE k = Len(l)
        <3>1. "0" \in Classes /\ p \in Int
            BY DEF Classes
        <3>2. rjust(l \o d, Len(l), p, "0") = l \o (Sequence("0", p - Len(d)) \o d)
            BY <1>1, <1>3, <3>1, RjustAfter
        <3>3. rjust(t, k, p, "0") = Number(s, v, p)
            BY <1>1, <1>2, <1>3, <1>4, <2>2, <3>2 DEF Number
        <3> QED
            BY <1>5, <3>3
    <2>3. CASE OddZero(s, v) /\ k = 1 /\ Len(l) = 0 /\ d = <<"0">>
        <3>1. t = <<"0">>
            BY <1>1, <1>3, <1>4, <2>3, EmptyJoin DEF OddZero
        <3>2. p \in Int
            OBVIOUS
        <3>3. rjust(t, k, p, "0") = <<"0">> \o Sequence("0", p)
            BY <2>3, <3>1, <3>2, OddRjust
        <3>4. PICK x : x = rjust(t, k, p, "0")
            OBVIOUS
        <3>5. x \in Strings /\ Len(x) = p + 1
            BY <2>1, <3>2, <3>3, <3>4, ZerosSwap
        <3>6. Room(s, v) \in Int /\ p + 4 <= Room(s, v)
            BY RoomFacts
        <3>7. Len(x) + 1 <= Room(s, v)
            BY <3>5, <3>6
        <3> QED
            BY <2>3, <3>4, <3>5, <3>7 DEF Fits
    <2>4. k # -1
        BY <2>1
    <2> QED
        BY <1>1, <1>3, <1>6, <2>2, <2>3, <2>4, StartFacts
<1> QED
    BY <1>4, <1>5, <1>6, <1>7, <1>8, <1>9

(* The width without zeros: spaces on the side asked for, or nothing. *)
LEMMA SpacesStage ==
    ASSUME NEW s \in Specs, NEW v \in Values(s), NEW text, Fits(s, v, text)
    PROVE  /\ ljust(text, s.width, " ") = text \o Sequence(" ", s.width - Len(text))
           /\ rjust(text, 0, s.width, " ") = Sequence(" ", s.width - Len(text)) \o text
           /\ Fits(s, v, ljust(text, s.width, " ")) /\ Fits(s, v, rjust(text, 0, s.width, " "))
           /\ ~Zeroed(s) /\ text = Number(s, v, s.precision) => Padded(s, text) = Expected(s, v)
           /\ s.width = 0 /\ text = Number(s, v, s.precision) => text = Expected(s, v)
<1>1. text \in Strings /\ " " \in Classes
    BY DEF Fits, Classes
<1>2. PICK w \in 0 .. 255 : w = s.width
    BY SpecFields
<1>3. w \in Int /\ w <= s.width
    BY <1>2
<1>4. ljust(text, w, " ") = text \o Sequence(" ", w - Len(text))
    BY <1>1, <1>3, LjustAll
<1>5. rjust(text, 0, w, " ") = Sequence(" ", w - Len(text)) \o text
    BY <1>1, <1>3, RjustAll
<1>6. Fits(s, v, Sequence(" ", w - Len(text)) \o text) /\ Fits(s, v, text \o Sequence(" ", w - Len(text)))
    BY <1>1, <1>3, FitsPadded
<1>7. ~Zeroed(s) => Least(s, v) = s.precision
    BY DEF Least
<1>8. ~Zeroed(s) /\ text = Number(s, v, s.precision) => Padded(s, text) = Expected(s, v)
    BY <1>7, ExpectedIs
<1>9. s.width = 0 /\ text = Number(s, v, s.precision) => text = Expected(s, v)
    <2>1. SUFFICES ASSUME s.width = 0, text = Number(s, v, s.precision) PROVE text = Expected(s, v)
        OBVIOUS
    <2>2. Len(text) \in Nat
        BY <1>1, Joined
    <2>3. w <= Len(text)
        BY <1>2, <2>1, <2>2
    <2>4. Padded(s, text) = text
        BY <1>1, <1>2, <2>3, PaddedFull
    <2>5. CASE ~Zeroed(s)
        BY <1>8, <2>1, <2>4, <2>5
    <2>6. CASE Zeroed(s)
        <3>1. PICK m \in 1 .. 22 : m = v.digits
            BY ValueFacts
        <3>2. PICK k \in 0 .. 2 : k = Len(Lead(s, v))
            BY LeadFacts
        <3>3. Least(s, v) = 0 - k /\ s.precision = 0
            BY <2>1, <2>6, <3>2 DEF Least, Zeroed
        <3>4. PICK n \in Int : n = 0 - k
            BY <3>2
        <3>5. m \in Int /\ 0 < m /\ k \in Int /\ 0 <= k
            OBVIOUS
        <3>6. n < m /\ 0 < m
            BY ONLY <3>4, <3>5
        <3>7. Number(s, v, n) = Lead(s, v) \o Digits(v)
            BY <3>1, <3>6, NumberFacts
        <3>8. Number(s, v, 0) = Lead(s, v) \o Digits(v)
            BY <3>1, <3>6, NumberFacts
        <3>9. Number(s, v, Least(s, v)) = text
            BY <2>1, <3>3, <3>4, <3>7, <3>8
        <3> QED
            BY <2>4, <3>9, ExpectedIs
    <2> QED
        BY <2>5, <2>6
<1> QED
    BY <1>2, <1>4, <1>5, <1>6, <1>8, <1>9

(* The width with zeros. *)
LEMMA ZerosStage ==
    ASSUME NEW s \in Specs, NEW v \in Values(s), Zeroed(s), NEW w \in 1 .. 255, w = s.width,
           NEW k \in {-1, 0, 1, 2}, k = Start(s, v)
    PROVE  LET t == Lead(s, v) \o Digits(v) IN
           /\ k < 0 \/ w - k < 0 => WildPointer(s)
           /\ k >= 0 /\ w - k >= 0 =>
                /\ Fits(s, v, rjust(t, k, w - k, "0"))
                /\ rjust(t, k, w - k, "0") = Expected(s, v)
<1>1. PICK l : l = Lead(s, v) /\ l \in Strings /\ Len(l) \in 0 .. 2
    BY LeadFacts
<1>2. PICK m \in 1 .. 22 : m = v.digits
    BY ValueFacts
<1>3. PICK d : d = Digits(v) /\ d \in Strings /\ Len(d) = m
    BY <1>2, DigitsText
<1>4. PICK t : t = Lead(s, v) \o Digits(v)
    OBVIOUS
<1>5. /\ s.precision = 0 /\ "0" \in s.flags /\ "-" \notin s.flags /\ s.width > 0
    BY DEF Zeroed
<1>6. k < 0 \/ w - k < 0 => WildPointer(s)
    <2>1. CASE k = -1
        <3>1. k # 1 /\ k # Len(Lead(s, v))
            BY <1>1, <2>1
        <3>2. ~s.signed /\ "#" \in s.flags /\ s.base = 10
            BY <2>1, <3>1, StartFacts
        <3> QED
            BY <1>5, <3>2 DEF WildPointer
    <2>2. CASE k = 2 /\ w = 1
        <3>1. ~s.signed /\ "#" \in s.flags /\ s.width = 1
            BY <2>2, StartFacts
        <3> QED
            BY <1>5, <3>1 DEF WildPointer
    <2>3. k < 0 \/ w - k < 0 => k = -1 \/ (k = 2 /\ w = 1)
        OBVIOUS
    <2> QED
        BY <2>1, <2>2, <2>3
<1>7. PICK j \in 0 .. 2 : j = Len(l)
    BY <1>1
<1>8. PICK n \in Int : n = w - j /\ n = Least(s, v)
    BY <1>1, <1>7 DEF Least
<1>9. PICK x : x = Number(s, v, n)
    OBVIOUS
<1>10. x \in Strings /\ w <= Len(x)
    <2>1. x \in Strings
        BY <1>9, NumberFacts
    <2>2. CASE n >= m
        <3>1. Len(x) = j + n
            BY <1>1, <1>2, <1>7, <1>9, <2>2, NumberFacts
        <3> QED
            BY <1>8, <2>1, <3>1
    <2>3. CASE n < m
        <3>1. Len(x) = j + m
            BY <1>1, <1>2, <1>7, <1>9, <2>3, NumberFacts
        <3> QED
            BY <1>8, <2>1, <2>3, <3>1
    <2> QED
        BY <2>2, <2>3
<1>11. x = Expected(s, v)
    <2>1. Padded(s, x) = x
        BY <1>10, PaddedFull
    <2> QED
        BY <1>8, <1>9, <2>1, ExpectedIs
<1>12. Fits(s, v, x)
    <2>1. n <= s.width - Len(Lead(s, v))
        BY <1>1, <1>7, <1>8
    <2> QED
        BY <1>9, <2>1, FitsNumber
<1>13. k >= 0 => rjust(t, k, w - k, "0") = x
    <2>1. SUFFICES ASSUME k >= 0 PROVE rjust(t, k, w - k, "0") = x
        OBVIOUS
    <2>2. CASE k = j
        <3>1. "0" \in Classes
            BY DEF Classes
        <3>2. rjust(l \o d, Len(l), n, "0") = l \o (Sequence("0", n - Len(d)) \o d)
            BY <1>1, <1>3, <3>1, RjustAfter
        <3>3. x = l \o (Sequence("0", n - m) \o d)
            BY <1>1, <1>2, <1>3, <1>9 DEF Number
        <3>4. rjust(t, k, n, "0") = x
            BY <1>1, <1>3, <1>4, <1>7, <2>2, <3>2, <3>3
        <3> QED
            BY <1>8, <2>2, <3>4
    <2>3. CASE OddZero(s, v) /\ k = 1 /\ j = 0 /\ d = <<"0">>
        <3>1. t = <<"0">> /\ l = <<>>
            BY <1>1, <1>3, <1>4, <2>3, EmptyJoin DEF OddZero
        <3>2. PICK i \in Int : i = w - 1 /\ i = w - k /\ i = n - 1
            BY <1>8, <2>3
        <3>3. rjust(t, 1, i, "0") = <<"0">> \o Sequence("0", i)
            BY <3>1, <3>2, OddRjust
        <3>4. /\ <<"0">> \o Sequence("0", i) = Sequence("0", i) \o <<"0">>
              /\ <<"0">> \o Sequence("0", i) \in Strings
            BY <3>2, ZerosSwap
        <3>5. m = 1
            BY <1>2, <2>3, ValueFacts DEF OddZero
        <3>6. x = <<>> \o (Sequence("0", i) \o <<"0">>)
            BY <1>1, <1>2, <1>3, <1>9, <2>3, <3>1, <3>2, <3>5 DEF Number
        <3>7. x = Sequence("0", i) \o <<"0">>
            BY <3>4, <3>6, EmptyJoin
        <3> QED
            BY <2>3, <3>2, <3>3, <3>4, <3>7
    <2>4. k # -1
        BY <2>1
    <2> QED
        BY <1>1, <1>3, <1>7, <2>2, <2>3, <2>4, StartFacts
<1> QED
    BY <1>4, <1>6, <1>11, <1>12, <1>13

-----------------------------------------------------------------------------
(***************************************************************************)
(* Conversions: the invariant says what the text is at every step.         *)
(***************************************************************************)

Conv(step, s, v, n, text) ==
    [step |-> step, spec |-> s, value |-> v, cell |-> kmalloc(buffer_size(s)),
     start |-> n, text |-> text]

Stage(step, s, v, n, text) ==
    \/ step = "sign" /\ n = 0 /\ text = IF s.signed THEN itoa(v) ELSE utoa(v)
    \/ step = "precision" /\ n = Start(s, v) /\ text = Lead(s, v) \o Digits(v)
    \/ /\ step = "width" /\ n = Start(s, v)
       /\ text = Number(s, v, s.precision) \/ (OddZero(s, v) /\ s.precision > 0)
    \/ /\ step = "put" /\ n = Start(s, v)
       /\ text = Expected(s, v) \/ (OddZero(s, v) /\ s.precision > 0)
    \/ step = "wild" /\ n = Start(s, v) /\ WildPointer(s)

Staged(c) ==
    \E s \in Specs : \E v \in Values(s) : \E step, n, text :
        c = Conv(step, s, v, n, text) /\ Fits(s, v, text) /\ Stage(step, s, v, n, text)

PrintkInv == conv \in {Idle, Nothing} \/ Staged(conv)

LEMMA ConvFields ==
    ASSUME NEW a, NEW s, NEW v, NEW n, NEW t
    PROVE  /\ Conv(a, s, v, n, t).step = a /\ Conv(a, s, v, n, t).spec = s
           /\ Conv(a, s, v, n, t).value = v /\ Conv(a, s, v, n, t).start = n
           /\ Conv(a, s, v, n, t).text = t /\ Conv(a, s, v, n, t).cell = kmalloc(buffer_size(s))
<1>1. PICK k : k = kmalloc(buffer_size(s))
    OBVIOUS
<1>2. PICK c : c = [step |-> a, spec |-> s, value |-> v, cell |-> k, start |-> n, text |-> t]
    OBVIOUS
<1>3. c = Conv(a, s, v, n, t)
    BY <1>1, <1>2 DEF Conv
<1>4. c.step = a /\ c.spec = s /\ c.value = v /\ c.start = n /\ c.text = t /\ c.cell = k
    BY <1>2
<1> QED
    BY <1>1, <1>3, <1>4

LEMMA EditStep ==
    ASSUME NEW a, NEW s, NEW v, NEW n, NEW t, NEW b
    PROVE  [Conv(a, s, v, n, t) EXCEPT !.step = b] = Conv(b, s, v, n, t)
<1>1. PICK k : k = kmalloc(buffer_size(s))
    OBVIOUS
<1> QED
    BY <1>1 DEF Conv

LEMMA EditText ==
    ASSUME NEW a, NEW s, NEW v, NEW n, NEW t, NEW u
    PROVE  [Conv(a, s, v, n, t) EXCEPT !.text = u] = Conv(a, s, v, n, u)
<1>1. PICK k : k = kmalloc(buffer_size(s))
    OBVIOUS
<1> QED
    BY <1>1 DEF Conv

LEMMA EditStart ==
    ASSUME NEW a, NEW s, NEW v, NEW n, NEW t, NEW m
    PROVE  [Conv(a, s, v, n, t) EXCEPT !.start = m] = Conv(a, s, v, m, t)
<1>1. PICK k : k = kmalloc(buffer_size(s))
    OBVIOUS
<1> QED
    BY <1>1 DEF Conv

LEMMA SignStage ==
    ASSUME NEW s \in Specs, NEW v \in Values(s)
    PROVE  Fits(s, v, IF s.signed THEN itoa(v) ELSE utoa(v))
<1>1. PICK d : d = Digits(v) /\ d \in Strings
    BY DigitsText
<1>2. PICK l : l = Lead(s, v) /\ l \in Strings
    BY LeadFacts
<1>3. Fits(s, v, l \o d)
    <2>1. PICK p \in 0 .. 255 : p = s.precision
        BY SpecFields
    <2>2. p \in Int /\ p <= s.precision
        BY <2>1
    <2> QED
        BY <1>1, <1>2, <2>2, FitsNumber
<1>4. PICK r \in Int : r = Room(s, v)
    BY RoomFacts
<1>5. /\ l \o d \in Strings /\ Len(l \o d) = Len(l) + Len(d) /\ Len(l) \in Nat /\ Len(d) \in Nat
    BY <1>1, <1>2, Joined
<1>6. Len(l \o d) + 1 <= r
    BY <1>3, <1>4 DEF Fits
<1>7. Len(d) + 1 <= r
    BY <1>5, <1>6
<1>8. Fits(s, v, d)
    BY <1>1, <1>4, <1>7 DEF Fits
<1>9. CASE ~s.signed
    BY <1>1, <1>8, <1>9 DEF utoa
<1>10. CASE s.signed /\ v.sign < 0
    <2>1. itoa(v) = l \o d
        BY <1>1, <1>2, <1>10 DEF itoa, Lead
    <2> QED
        BY <1>3, <1>10, <2>1
<1>11. CASE s.signed /\ ~(v.sign < 0)
    <2>1. itoa(v) = <<>> \o d
        BY <1>1, <1>11 DEF itoa
    <2>2. itoa(v) = d
        BY <1>1, <2>1, EmptyJoin
    <2> QED
        BY <1>8, <1>11, <2>2
<1> QED
    BY <1>9, <1>10, <1>11

LEMMA StagedBy ==
    ASSUME NEW s \in Specs, NEW v \in Values(s), NEW step, NEW n, NEW text,
           Fits(s, v, text), Stage(step, s, v, n, text)
    PROVE  Staged(Conv(step, s, v, n, text))
BY DEF Staged

LEMMA ConvertStaged ==
    ASSUME NEW w \in Written, NEW letter \in Letters, NEW value \in Values(Specifier(w, letter)),
           Convert(w, letter, value)
    PROVE  PrintkInv'
<1>1. PICK s \in Specs : s = Specifier(w, letter)
    BY SpecTyped
<1>2. PICK t : t = IF s.signed THEN itoa(value) ELSE utoa(value)
    OBVIOUS
<1>3. conv' = Conv("sign", s, value, 0, t)
    BY <1>1, <1>2 DEF Convert, Conv
<1>4. value \in Values(s)
    BY <1>1
<1>5. Fits(s, value, t)
    BY <1>2, <1>4, SignStage
<1>6. Stage("sign", s, value, 0, t)
    BY <1>2 DEF Stage
<1>7. Staged(conv')
    BY <1>3, <1>4, <1>5, <1>6, StagedBy
<1> QED
    BY <1>7 DEF PrintkInv

(* What the invariant says at a step. *)
LEMMA AtStep ==
    ASSUME PrintkInv, NEW a, conv.step = a, a \notin {"idle", "nothing"}
    PROVE  \E s \in Specs : \E v \in Values(s) : \E n, t :
               conv = Conv(a, s, v, n, t) /\ Fits(s, v, t) /\ Stage(a, s, v, n, t)
<1>1. conv \notin {Idle, Nothing}
    BY DEF Idle, Nothing
<1>2. PICK s \in Specs : \E v \in Values(s) : \E step, n, text :
          conv = Conv(step, s, v, n, text) /\ Fits(s, v, text) /\ Stage(step, s, v, n, text)
    BY <1>1 DEF PrintkInv, Staged
<1>3. PICK v \in Values(s) : \E step, n, text :
          conv = Conv(step, s, v, n, text) /\ Fits(s, v, text) /\ Stage(step, s, v, n, text)
    BY <1>2
<1>4. PICK step, n, text :
          conv = Conv(step, s, v, n, text) /\ Fits(s, v, text) /\ Stage(step, s, v, n, text)
    BY <1>3
<1>5. step = a
    BY <1>4, ConvFields
<1> QED
    BY <1>4, <1>5

LEMMA AddSignStaged == PrintkInv /\ AddSign => PrintkInv'
<1> SUFFICES ASSUME PrintkInv, AddSign PROVE PrintkInv'
    OBVIOUS
<1>1. conv.step = "sign" /\ "sign" # "idle"
    BY DEF AddSign
<1>2. PICK s \in Specs : \E v \in Values(s) : \E n, t :
          conv = Conv("sign", s, v, n, t) /\ Fits(s, v, t) /\ Stage("sign", s, v, n, t)
    BY <1>1, AtStep
<1>3. PICK v \in Values(s) : \E n, t :
          conv = Conv("sign", s, v, n, t) /\ Fits(s, v, t) /\ Stage("sign", s, v, n, t)
    BY <1>2
<1>4. PICK n, t : conv = Conv("sign", s, v, n, t) /\ Fits(s, v, t) /\ Stage("sign", s, v, n, t)
    BY <1>3
<1>5. conv.spec = s /\ conv.value = v /\ conv.text = t
    BY <1>4, ConvFields
<1>6. s.signed /\ t = itoa(v)
    BY <1>4, <1>5 DEF Stage, AddSign
<1>7. PICK u : u = Added(s, v) \o t
    OBVIOUS
<1>8. PICK k : k = IF Added(s, v) # <<>> \/ v.sign <= 0 THEN 1 ELSE 0
    OBVIOUS
<1>9. conv' = [conv EXCEPT !.step = "precision", !.text = u, !.start = k]
    BY <1>5, <1>7, <1>8 DEF AddSign, Has, Added
<1>10. [Conv("sign", s, v, n, t) EXCEPT !.step = "precision", !.text = u, !.start = k]
      = Conv("precision", s, v, k, u)
    <2>1. [Conv("sign", s, v, n, t) EXCEPT !.step = "precision"] = Conv("precision", s, v, n, t)
        BY EditStep
    <2>2. [Conv("precision", s, v, n, t) EXCEPT !.text = u] = Conv("precision", s, v, n, u)
        BY EditText
    <2>3. [Conv("precision", s, v, n, u) EXCEPT !.start = k] = Conv("precision", s, v, k, u)
        BY EditStart
    <2>4. PICK c : c = Conv("sign", s, v, n, t)
        OBVIOUS
    <2>5. [c EXCEPT !.step = "precision", !.text = u, !.start = k] =
              [[[c EXCEPT !.step = "precision"] EXCEPT !.text = u] EXCEPT !.start = k]
        OBVIOUS
    <2> QED
        BY ONLY <2>1, <2>2, <2>3, <2>4, <2>5, Zenon
<1>11. conv' = Conv("precision", s, v, k, u)
    BY ONLY <1>4, <1>9, <1>10, Zenon
<1>12. u = Lead(s, v) \o Digits(v) /\ k = Start(s, v)
    BY <1>6, <1>7, <1>8, SignLeads
<1>13. Fits(s, v, u)
    <2>1. PICK p \in 0 .. 255 : p = s.precision
        BY SpecFields
    <2>2. p \in Int /\ p <= s.precision
        BY <2>1
    <2> QED
        BY <1>12, <2>2, FitsNumber
<1>14. Stage("precision", s, v, k, u)
    BY <1>12 DEF Stage
<1>15. Staged(conv')
    BY <1>11, <1>13, <1>14, StagedBy
<1> QED
    BY <1>15 DEF PrintkInv

LEMMA AddPrefixStaged == PrintkInv /\ AddPrefix => PrintkInv'
<1> SUFFICES ASSUME PrintkInv, AddPrefix PROVE PrintkInv'
    OBVIOUS
<1>1. conv.step = "sign" /\ "sign" # "idle"
    BY DEF AddPrefix
<1>2. PICK s \in Specs : \E v \in Values(s) : \E n, t :
          conv = Conv("sign", s, v, n, t) /\ Fits(s, v, t) /\ Stage("sign", s, v, n, t)
    BY <1>1, AtStep
<1>3. PICK v \in Values(s) : \E n, t :
          conv = Conv("sign", s, v, n, t) /\ Fits(s, v, t) /\ Stage("sign", s, v, n, t)
    BY <1>2
<1>4. PICK n, t : conv = Conv("sign", s, v, n, t) /\ Fits(s, v, t) /\ Stage("sign", s, v, n, t)
    BY <1>3
<1>5. conv.spec = s /\ conv.value = v /\ conv.text = t
    BY <1>4, ConvFields
<1>6. ~s.signed /\ t = utoa(v) /\ n = 0
    BY <1>4, <1>5 DEF Stage, AddPrefix
<1>7. Fits(s, v, Lead(s, v) \o Digits(v))
    <2>1. PICK p \in 0 .. 255 : p = s.precision
        BY SpecFields
    <2>2. p \in Int /\ p <= s.precision
        BY <2>1
    <2> QED
        BY <2>2, FitsNumber
<1>8. SUFFICES \E k, u : conv' = Conv("precision", s, v, k, u) /\ u = Lead(s, v) \o Digits(v) /\ k = Start(s, v)
    <2>1. ASSUME NEW k, NEW u, conv' = Conv("precision", s, v, k, u),
                 u = Lead(s, v) \o Digits(v), k = Start(s, v)
          PROVE  Staged(conv')
        <3>1. Stage("precision", s, v, k, u) /\ Fits(s, v, u)
            BY <1>7, <2>1 DEF Stage
        <3> QED
            BY <2>1, <3>1, StagedBy
    <2> QED
        BY <2>1 DEF PrintkInv
<1>9. CASE "#" \notin s.flags
    <2>1. conv' = [conv EXCEPT !.step = "precision"]
        BY <1>5, <1>9 DEF AddPrefix, Has
    <2>2. [Conv("sign", s, v, 0, t) EXCEPT !.step = "precision"] = Conv("precision", s, v, 0, t)
        BY EditStep
    <2>3. conv' = Conv("precision", s, v, 0, t)
        BY ONLY <1>4, <1>6, <2>1, <2>2, Zenon
    <2> QED
        BY <1>6, <1>9, <2>3, PrefixLeads
<1>10. CASE "#" \in s.flags /\ s.base = 10
    <2>1. conv' = [conv EXCEPT !.step = "precision", !.start = -1]
        BY <1>5, <1>10 DEF AddPrefix, Has
    <2>2. [Conv("sign", s, v, n, t) EXCEPT !.step = "precision", !.start = -1]
          = Conv("precision", s, v, -1, t)
        <3>1. [Conv("sign", s, v, n, t) EXCEPT !.step = "precision"] = Conv("precision", s, v, n, t)
            BY EditStep
        <3>2. [Conv("precision", s, v, n, t) EXCEPT !.start = -1] = Conv("precision", s, v, -1, t)
            BY EditStart
        <3>3. PICK c : c = Conv("sign", s, v, n, t)
            OBVIOUS
        <3>4. [c EXCEPT !.step = "precision", !.start = -1] =
                  [[c EXCEPT !.step = "precision"] EXCEPT !.start = -1]
            OBVIOUS
        <3> QED
            BY ONLY <3>1, <3>2, <3>3, <3>4, Zenon
    <2>3. conv' = Conv("precision", s, v, -1, t)
        BY ONLY <1>4, <1>6, <2>1, <2>2, Zenon
    <2> QED
        BY <1>6, <1>10, <2>3, PrefixLeads
<1>11. CASE "#" \in s.flags /\ s.base # 10
    <2>1. conv' = [conv EXCEPT !.step = "precision", !.start = 2, !.text = prepend(t, Prefix(s.base))]
        BY <1>5, <1>11 DEF AddPrefix, Has
    <2>2. [Conv("sign", s, v, n, t) EXCEPT !.step = "precision", !.start = 2, !.text = prepend(t, Prefix(s.base))]
          = Conv("precision", s, v, 2, prepend(t, Prefix(s.base)))
        <3>1. [Conv("sign", s, v, n, t) EXCEPT !.step = "precision"] = Conv("precision", s, v, n, t)
            BY EditStep
        <3>2. [Conv("precision", s, v, n, t) EXCEPT !.start = 2] = Conv("precision", s, v, 2, t)
            BY EditStart
        <3>3. [Conv("precision", s, v, 2, t) EXCEPT !.text = prepend(t, Prefix(s.base))]
              = Conv("precision", s, v, 2, prepend(t, Prefix(s.base)))
            BY EditText
        <3>4. PICK c : c = Conv("sign", s, v, n, t)
            OBVIOUS
        <3>5. [c EXCEPT !.step = "precision", !.start = 2, !.text = prepend(t, Prefix(s.base))] =
                  [[[c EXCEPT !.step = "precision"] EXCEPT !.start = 2] EXCEPT !.text = prepend(t, Prefix(s.base))]
            OBVIOUS
        <3> QED
            BY ONLY <3>1, <3>2, <3>3, <3>4, <3>5, Zenon
    <2>3. conv' = Conv("precision", s, v, 2, prepend(t, Prefix(s.base)))
        BY ONLY <1>4, <1>6, <2>1, <2>2, Zenon
    <2> QED
        BY <1>6, <1>11, <2>3, PrefixLeads
<1> QED
    BY <1>9, <1>10, <1>11

LEMMA ApplyPrecisionStaged == PrintkInv /\ ApplyPrecision => PrintkInv'
<1> SUFFICES ASSUME PrintkInv, ApplyPrecision PROVE PrintkInv'
    OBVIOUS
<1>1. conv.step = "precision" /\ "precision" # "idle"
    BY DEF ApplyPrecision
<1>2. PICK s \in Specs : \E v \in Values(s) : \E n, t :
          conv = Conv("precision", s, v, n, t) /\ Fits(s, v, t) /\ Stage("precision", s, v, n, t)
    BY <1>1, AtStep
<1>3. PICK v \in Values(s) : \E n, t :
          conv = Conv("precision", s, v, n, t) /\ Fits(s, v, t) /\ Stage("precision", s, v, n, t)
    BY <1>2
<1>4. PICK n, t : conv = Conv("precision", s, v, n, t) /\ Fits(s, v, t) /\ Stage("precision", s, v, n, t)
    BY <1>3
<1>5. conv.spec = s /\ conv.start = n /\ conv.text = t
    BY <1>4, ConvFields
<1>6. n = Start(s, v) /\ t = Lead(s, v) \o Digits(v)
    BY <1>4 DEF Stage
<1>7. PICK p \in 0 .. 255 : p = s.precision
    BY SpecFields
<1>8. PICK k \in {-1, 0, 1, 2} : k = n
    BY <1>6, StartFacts
<1>9. CASE p = 0
    <2>1. ~(p > 0)
        BY <1>9
    <2>2. conv' = [conv EXCEPT !.step = "width"]
        BY <1>5, <1>7, <2>1 DEF ApplyPrecision
    <2>3. [Conv("precision", s, v, n, t) EXCEPT !.step = "width"] = Conv("width", s, v, n, t)
        BY EditStep
    <2>4. conv' = Conv("width", s, v, n, t)
        BY ONLY <1>4, <2>2, <2>3, Zenon
    <2>5. t = Number(s, v, s.precision)
        BY <1>6, <1>7, <1>9, PrecisionStage
    <2>6. Stage("width", s, v, n, t)
        BY <1>6, <2>5 DEF Stage
    <2>7. Staged(conv')
        BY <1>4, <2>4, <2>6, StagedBy
    <2> QED
        BY <2>7 DEF PrintkInv
<1>10. CASE p > 0 /\ k < 0
    <2>1. conv' = [conv EXCEPT !.step = "wild"]
        BY <1>5, <1>7, <1>8, <1>10 DEF ApplyPrecision, Justify
    <2>2. [Conv("precision", s, v, n, t) EXCEPT !.step = "wild"] = Conv("wild", s, v, n, t)
        BY EditStep
    <2>3. conv' = Conv("wild", s, v, n, t)
        BY ONLY <1>4, <2>1, <2>2, Zenon
    <2>4. WildPointer(s)
        BY <1>6, <1>7, <1>8, <1>10, PrecisionStage
    <2>5. Stage("wild", s, v, n, t)
        BY <1>6, <2>4 DEF Stage
    <2>6. Staged(conv')
        BY <1>4, <2>3, <2>5, StagedBy
    <2> QED
        BY <2>6 DEF PrintkInv
<1>11. CASE p > 0 /\ k >= 0
    <2>1. ~(k < 0 \/ p < 0) /\ s.precision > 0
        BY <1>7, <1>11
    <2>2. PICK u : u = rjust(t, k, p, "0")
        OBVIOUS
    <2>3. conv' = [conv EXCEPT !.step = "width", !.text = u]
        BY <1>5, <1>7, <1>8, <2>1, <2>2 DEF ApplyPrecision, Justify
    <2>4. [Conv("precision", s, v, n, t) EXCEPT !.step = "width", !.text = u]
          = Conv("width", s, v, n, u)
        <3>1. [Conv("precision", s, v, n, t) EXCEPT !.step = "width"] = Conv("width", s, v, n, t)
            BY EditStep
        <3>2. [Conv("width", s, v, n, t) EXCEPT !.text = u] = Conv("width", s, v, n, u)
            BY EditText
        <3>3. PICK c : c = Conv("precision", s, v, n, t)
            OBVIOUS
        <3>4. [c EXCEPT !.step = "width", !.text = u] =
                  [[c EXCEPT !.step = "width"] EXCEPT !.text = u]
            OBVIOUS
        <3> QED
            BY ONLY <3>1, <3>2, <3>3, <3>4, Zenon
    <2>5. conv' = Conv("width", s, v, n, u)
        BY ONLY <1>4, <2>3, <2>4, Zenon
    <2>6. Fits(s, v, u) /\ (u = Number(s, v, p) \/ OddZero(s, v))
        BY <1>6, <1>7, <1>8, <1>11, <2>2, PrecisionStage
    <2>7. Stage("width", s, v, n, u)
        BY <1>6, <1>7, <2>1, <2>6 DEF Stage
    <2>8. Staged(conv')
        BY <2>5, <2>6, <2>7, StagedBy
    <2> QED
        BY <2>8 DEF PrintkInv
<1>12. p = 0 \/ (p > 0 /\ k < 0) \/ (p > 0 /\ k >= 0)
    OBVIOUS
<1> QED
    BY <1>9, <1>10, <1>11, <1>12

LEMMA ApplyWidthStaged == PrintkInv /\ ApplyWidth => PrintkInv'
<1> SUFFICES ASSUME PrintkInv, ApplyWidth PROVE PrintkInv'
    OBVIOUS
<1>1. conv.step = "width" /\ "width" # "idle"
    BY DEF ApplyWidth
<1>2. PICK s \in Specs : \E v \in Values(s) : \E n, t :
          conv = Conv("width", s, v, n, t) /\ Fits(s, v, t) /\ Stage("width", s, v, n, t)
    BY <1>1, AtStep
<1>3. PICK v \in Values(s) : \E n, t :
          conv = Conv("width", s, v, n, t) /\ Fits(s, v, t) /\ Stage("width", s, v, n, t)
    BY <1>2
<1>4. PICK n, t : conv = Conv("width", s, v, n, t) /\ Fits(s, v, t) /\ Stage("width", s, v, n, t)
    BY <1>3
<1>5. conv.spec = s /\ conv.start = n /\ conv.text = t
    BY <1>4, ConvFields
<1>6. n = Start(s, v) /\ (t = Number(s, v, s.precision) \/ (OddZero(s, v) /\ s.precision > 0))
    BY <1>4 DEF Stage
<1>7. PICK w \in 0 .. 255 : w = s.width
    BY SpecFields
<1>8. PICK k \in {-1, 0, 1, 2} : k = n
    BY <1>6, StartFacts
<1>9. SUFFICES \/ \E u : /\ conv' = Conv("put", s, v, n, u) /\ Fits(s, v, u)
                         /\ u = Expected(s, v) \/ (OddZero(s, v) /\ s.precision > 0)
               \/ conv' = Conv("wild", s, v, n, t) /\ WildPointer(s)
    <2>1. ASSUME NEW u, conv' = Conv("put", s, v, n, u), Fits(s, v, u),
                 u = Expected(s, v) \/ (OddZero(s, v) /\ s.precision > 0)
          PROVE  Staged(conv')
        <3>1. Stage("put", s, v, n, u)
            BY <1>6, <2>1 DEF Stage
        <3> QED
            BY <2>1, <3>1, StagedBy
    <2>2. ASSUME conv' = Conv("wild", s, v, n, t), WildPointer(s)
          PROVE  Staged(conv')
        <3>1. Stage("wild", s, v, n, t)
            BY <1>6, <2>2 DEF Stage
        <3> QED
            BY <1>4, <2>2, <3>1, StagedBy
    <2> QED
        BY <2>1, <2>2 DEF PrintkInv
<1>10. /\ ljust(t, s.width, " ") = t \o Sequence(" ", s.width - Len(t))
       /\ rjust(t, 0, s.width, " ") = Sequence(" ", s.width - Len(t)) \o t
       /\ Fits(s, v, ljust(t, s.width, " ")) /\ Fits(s, v, rjust(t, 0, s.width, " "))
       /\ ~Zeroed(s) /\ t = Number(s, v, s.precision) => Padded(s, t) = Expected(s, v)
       /\ s.width = 0 /\ t = Number(s, v, s.precision) => t = Expected(s, v)
    BY <1>4, SpacesStage
<1>11. CASE w = 0
    <2>1. conv' = [conv EXCEPT !.step = "put"]
        BY <1>5, <1>7, <1>11 DEF ApplyWidth
    <2>2. [Conv("width", s, v, n, t) EXCEPT !.step = "put"] = Conv("put", s, v, n, t)
        BY EditStep
    <2>3. conv' = Conv("put", s, v, n, t)
        BY ONLY <1>4, <2>1, <2>2, Zenon
    <2> QED
        BY <1>4, <1>6, <1>7, <1>10, <1>11, <2>3
<1>12. CASE w > 0 /\ "-" \in s.flags
    <2>1. PICK u : u = ljust(t, s.width, " ")
        OBVIOUS
    <2>2. ~(w = 0)
        BY <1>12
    <2>3. conv' = [conv EXCEPT !.step = "put", !.text = u]
        BY <1>5, <1>7, <1>12, <2>1, <2>2 DEF ApplyWidth, Has
    <2>4. [Conv("width", s, v, n, t) EXCEPT !.step = "put", !.text = u] = Conv("put", s, v, n, u)
        <3>1. [Conv("width", s, v, n, t) EXCEPT !.step = "put"] = Conv("put", s, v, n, t)
            BY EditStep
        <3>2. [Conv("put", s, v, n, t) EXCEPT !.text = u] = Conv("put", s, v, n, u)
            BY EditText
        <3>3. PICK c : c = Conv("width", s, v, n, t)
            OBVIOUS
        <3>4. [c EXCEPT !.step = "put", !.text = u] =
                  [[c EXCEPT !.step = "put"] EXCEPT !.text = u]
            OBVIOUS
        <3> QED
            BY ONLY <3>1, <3>2, <3>3, <3>4, Zenon
    <2>5. conv' = Conv("put", s, v, n, u)
        BY ONLY <1>4, <2>3, <2>4, Zenon
    <2>6. ~Zeroed(s) /\ u = Padded(s, t)
        BY <1>10, <1>12, <2>1 DEF Zeroed, Padded
    <2> QED
        BY <1>6, <1>10, <2>1, <2>5, <2>6
<1>13. CASE w > 0 /\ Zeroed(s)
    <2>1. "0" \in s.flags /\ "-" \notin s.flags /\ s.precision = 0
        BY <1>13 DEF Zeroed
    <2>2. ~(w = 0) /\ w \in 1 .. 255
        BY <1>13
    <2>3. conv' = Justify(s.width - conv.start, "put")
        BY <1>5, <1>7, <1>13, <2>1, <2>2 DEF ApplyWidth, Has
    <2>4. t = Lead(s, v) \o Digits(v)
        <3>1. PICK m \in 1 .. 22 : m = v.digits
            BY ValueFacts
        <3>2. 0 \in Int /\ 0 < m
            BY <3>1
        <3>3. Number(s, v, 0) = Lead(s, v) \o Digits(v)
            BY <3>1, <3>2, NumberFacts
        <3>4. ~(s.precision > 0)
            BY <2>1
        <3> QED
            BY <1>6, <2>1, <3>3, <3>4
    <2>5. /\ k < 0 \/ w - k < 0 => WildPointer(s)
          /\ k >= 0 /\ w - k >= 0 =>
                /\ Fits(s, v, rjust(t, k, w - k, "0"))
                /\ rjust(t, k, w - k, "0") = Expected(s, v)
        BY <1>6, <1>7, <1>8, <1>13, <2>2, <2>4, ZerosStage
    <2>6. CASE k < 0 \/ w - k < 0
        <3>1. conv' = [conv EXCEPT !.step = "wild"]
            BY <1>5, <1>7, <1>8, <2>3, <2>6 DEF Justify
        <3>2. [Conv("width", s, v, n, t) EXCEPT !.step = "wild"] = Conv("wild", s, v, n, t)
            BY EditStep
        <3>3. conv' = Conv("wild", s, v, n, t)
            BY ONLY <1>4, <3>1, <3>2, Zenon
        <3> QED
            BY <2>5, <2>6, <3>3
    <2>7. CASE ~(k < 0 \/ w - k < 0)
        <3>1. PICK u : u = rjust(t, k, w - k, "0")
            OBVIOUS
        <3>2. conv' = [conv EXCEPT !.step = "put", !.text = u]
            BY <1>5, <1>7, <1>8, <2>3, <2>7, <3>1 DEF Justify
        <3>3. [Conv("width", s, v, n, t) EXCEPT !.step = "put", !.text = u]
              = Conv("put", s, v, n, u)
            <4>1. [Conv("width", s, v, n, t) EXCEPT !.step = "put"] = Conv("put", s, v, n, t)
                BY EditStep
            <4>2. [Conv("put", s, v, n, t) EXCEPT !.text = u] = Conv("put", s, v, n, u)
                BY EditText
            <4>3. PICK c : c = Conv("width", s, v, n, t)
                OBVIOUS
            <4>4. [c EXCEPT !.step = "put", !.text = u] =
                      [[c EXCEPT !.step = "put"] EXCEPT !.text = u]
                OBVIOUS
            <4> QED
                BY ONLY <4>1, <4>2, <4>3, <4>4, Zenon
        <3>4. conv' = Conv("put", s, v, n, u)
            BY ONLY <1>4, <3>2, <3>3, Zenon
        <3>5. k >= 0 /\ w - k >= 0
            BY <2>7
        <3> QED
            BY <2>5, <3>1, <3>4, <3>5
    <2> QED
        BY <2>6, <2>7
<1>14. CASE w > 0 /\ "-" \notin s.flags /\ ~Zeroed(s)
    <2>1. PICK u : u = rjust(t, 0, s.width, " ")
        OBVIOUS
    <2>2. ~(w = 0) /\ ~(s.precision = 0 /\ "0" \in s.flags)
        BY <1>14 DEF Zeroed
    <2>3. conv' = [conv EXCEPT !.step = "put", !.text = u]
        BY <1>5, <1>7, <1>14, <2>1, <2>2 DEF ApplyWidth, Has
    <2>4. [Conv("width", s, v, n, t) EXCEPT !.step = "put", !.text = u] = Conv("put", s, v, n, u)
        <3>1. [Conv("width", s, v, n, t) EXCEPT !.step = "put"] = Conv("put", s, v, n, t)
            BY EditStep
        <3>2. [Conv("put", s, v, n, t) EXCEPT !.text = u] = Conv("put", s, v, n, u)
            BY EditText
        <3>3. PICK c : c = Conv("width", s, v, n, t)
            OBVIOUS
        <3>4. [c EXCEPT !.step = "put", !.text = u] =
                  [[c EXCEPT !.step = "put"] EXCEPT !.text = u]
            OBVIOUS
        <3> QED
            BY ONLY <3>1, <3>2, <3>3, <3>4, Zenon
    <2>5. conv' = Conv("put", s, v, n, u)
        BY ONLY <1>4, <2>3, <2>4, Zenon
    <2>6. u = Padded(s, t)
        BY <1>10, <1>14, <2>1 DEF Padded
    <2> QED
        BY <1>6, <1>10, <1>14, <2>1, <2>5, <2>6
<1>15. w = 0 \/ w > 0
    OBVIOUS
<1> QED
    BY <1>11, <1>12, <1>13, <1>14, <1>15

LEMMA PrintkStaged == PrintkInv /\ PrintkNext => PrintkInv'
<1> SUFFICES ASSUME PrintkInv, PrintkNext PROVE PrintkInv'
    OBVIOUS
<1>1. ASSUME NEW w \in Written, NEW letter \in Letters, NEW value \in Values(Specifier(w, letter)),
             Convert(w, letter, value)
      PROVE PrintkInv'
    BY <1>1, ConvertStaged
<1>2. ASSUME NEW w \in Written, Skip(w) PROVE PrintkInv'
    BY <1>2 DEF Skip, PrintkInv
<1>3. PutAndFree => PrintkInv'
    BY DEF PutAndFree, PrintkInv
<1> QED
    BY <1>1, <1>2, <1>3, AddSignStaged, AddPrefixStaged, ApplyPrecisionStaged, ApplyWidthStaged
    DEF PrintkNext

-----------------------------------------------------------------------------
(* What the invariant gives. *)
LEMMA StagedFits ==
    ASSUME NEW s \in Specs, NEW v \in Values(s), NEW step, NEW n, NEW text,
           conv = Conv(step, s, v, n, text), Fits(s, v, text), Stage(step, s, v, n, text)
    PROVE  PrintkTypeOK /\ BufferFits
<1>1. /\ conv.step = step /\ conv.spec = s /\ conv.value = v /\ conv.start = n /\ conv.text = text
      /\ conv.cell = kmalloc(buffer_size(s))
    BY ConvFields
<1>2. PICK b \in 24 .. 259 : b = buffer_size(s)
    BY BufferFacts
<1>3. kmalloc(b).cache \in Caches /\ kmalloc(b).size \in Nat /\ kmalloc(b).size >= b
    BY <1>2, CellFacts
<1>4. PrintkTypeOK
    <2>1. step \in {"sign", "precision", "width", "put", "wild"}
        BY DEF Stage
    <2>2. n \in {-1, 0, 1, 2}
        BY StartFacts DEF Stage
    <2>3. s.width \in 0 .. 255 /\ s.precision \in 0 .. 255
        BY SpecFields
    <2> QED
        BY <1>1, <1>2, <1>3, <2>1, <2>2, <2>3 DEF PrintkTypeOK
<1>5. BufferFits
    <2>1. step = "wild" => WildPointer(s)
        BY DEF Stage
    <2>2. PICK z \in Nat : z = conv.cell.size /\ z >= b
        BY <1>1, <1>2, <1>3
    <2>3. PICK r \in Int : r = Room(s, v)
        BY RoomFacts
    <2>4. Len(text) \in Nat /\ Len(text) + 1 <= r
        BY <2>3, Joined DEF Fits
    <2>5. ~LongOctal(conv) => z >= r
        <3>1. CASE ~LongDigits(s, v)
            BY <1>2, <2>2, <2>3, <3>1 DEF Room
        <3>2. CASE LongDigits(s, v)
            <4>1. LongOctal(conv) <=> z = 24
                BY <1>1, <2>2, <3>2 DEF LongOctal, LongDigits
            <4>2. r = IF 25 > b THEN 25 ELSE b
                BY <1>2, <2>3, <3>2 DEF Room, AtLeast
            <4>3. z # 24 => z >= r
                BY <1>2, <2>2, <4>2
            <4> QED
                BY <4>1, <4>3
        <3> QED
            BY <3>1, <3>2
    <2>6. ~LongOctal(conv) => Len(text) + 1 <= z
        BY <2>2, <2>3, <2>4, <2>5
    <2> QED
        BY <1>1, <2>1, <2>2, <2>6 DEF BufferFits
<1> QED
    BY <1>4, <1>5

LEMMA PrintkGives == PrintkInv => PrintkTypeOK /\ BufferFits
<1>1. CASE conv \in {Idle, Nothing}
    BY <1>1 DEF PrintkTypeOK, BufferFits
<1>2. CASE Staged(conv)
    <2>1. PICK s \in Specs : \E v \in Values(s) : \E step, n, text :
              conv = Conv(step, s, v, n, text) /\ Fits(s, v, text) /\ Stage(step, s, v, n, text)
        BY <1>2 DEF Staged
    <2>2. PICK v \in Values(s) : \E step, n, text :
              conv = Conv(step, s, v, n, text) /\ Fits(s, v, text) /\ Stage(step, s, v, n, text)
        BY <2>1
    <2>3. PICK step, n, text :
              conv = Conv(step, s, v, n, text) /\ Fits(s, v, text) /\ Stage(step, s, v, n, text)
        BY <2>2
    <2> QED
        BY <2>3, StagedFits
<1> QED
    BY <1>1, <1>2 DEF PrintkInv

-----------------------------------------------------------------------------
(***************************************************************************)
(* The specification under conversion is what the parser made of what the  *)
(* format has written.                                                     *)
(***************************************************************************)

FormatInv ==
    conv # Idle =>
        /\ format \in Written
        /\ conv = Nothing => NoLetter \in LettersRead(format)
        /\ conv # Nothing =>
              \E letter \in LettersRead(format) \cap Letters : conv.spec = Specifier(format, letter)

(* A stage of a conversion changes step, start and text only. *)
LEMMA StageKeepsFormat ==
    ASSUME FormatInv, conv \notin {Idle, Nothing}, conv' \notin {Idle, Nothing},
           conv'.spec = conv.spec, format' = format
    PROVE  FormatInv'
BY DEF FormatInv

LEMMA StageSpec ==
    ASSUME NEW a, NEW s, NEW v, NEW n, NEW t, conv = Conv(a, s, v, n, t),
           a \notin {"idle", "nothing"}, AddSign \/ AddPrefix \/ ApplyPrecision \/ ApplyWidth
    PROVE  conv' \notin {Idle, Nothing} /\ conv'.spec = conv.spec /\ format' = format
<1>1. PICK k : k = kmalloc(buffer_size(s))
    OBVIOUS
<1>2. conv = [step |-> a, spec |-> s, value |-> v, cell |-> k, start |-> n, text |-> t]
    BY <1>1 DEF Conv
<1>3. \A b, u, m : /\ [conv EXCEPT !.step = b].spec = s /\ [conv EXCEPT !.step = b].step = b
                   /\ [conv EXCEPT !.step = b, !.text = u].spec = s
                   /\ [conv EXCEPT !.step = b, !.text = u].step = b
                   /\ [conv EXCEPT !.step = b, !.start = m].spec = s
                   /\ [conv EXCEPT !.step = b, !.start = m].step = b
                   /\ [conv EXCEPT !.step = b, !.text = u, !.start = m].spec = s
                   /\ [conv EXCEPT !.step = b, !.text = u, !.start = m].step = b
                   /\ [conv EXCEPT !.step = b, !.start = m, !.text = u].spec = s
                   /\ [conv EXCEPT !.step = b, !.start = m, !.text = u].step = b
    BY <1>2
<1>4. conv.spec = s
    BY <1>2
<1>5. \A c : c.step \in {"precision", "width", "put", "wild"} => c \notin {Idle, Nothing}
    BY DEF Idle, Nothing
<1>6. ASSUME AddSign PROVE conv'.spec = s /\ conv'.step = "precision" /\ format' = format
    BY <1>3, <1>6 DEF AddSign
<1>7. ASSUME AddPrefix PROVE conv'.spec = s /\ conv'.step = "precision" /\ format' = format
    BY <1>3, <1>7 DEF AddPrefix
<1>8. \A m, next : next \in {"width", "put"} =>
          Justify(m, next).spec = s /\ Justify(m, next).step \in {"width", "put", "wild"}
    BY <1>3 DEF Justify
<1>9. ASSUME ApplyPrecision
      PROVE  conv'.spec = s /\ conv'.step \in {"width", "wild"} /\ format' = format
    <2>1. CASE conv.spec.precision > 0
        BY <1>8, <1>9, <2>1 DEF ApplyPrecision, Justify
    <2>2. CASE ~(conv.spec.precision > 0)
        BY <1>3, <1>9, <2>2 DEF ApplyPrecision
    <2> QED
        BY <2>1, <2>2
<1>10. ASSUME ApplyWidth
       PROVE  conv'.spec = s /\ conv'.step \in {"width", "put", "wild"} /\ format' = format
    <2>1. PICK m : m = s.width - conv.start
        OBVIOUS
    <2>2. PICK u : u = ljust(conv.text, s.width, " ")
        OBVIOUS
    <2>3. PICK r : r = rjust(conv.text, 0, s.width, " ")
        OBVIOUS
    <2>4. conv' = CASE s.width = 0 -> [conv EXCEPT !.step = "put"]
                    [] s.width > 0 /\ Has("-") -> [conv EXCEPT !.step = "put", !.text = u]
                    [] s.width > 0 /\ ~Has("-") /\ s.precision = 0 /\ Has("0") -> Justify(m, "put")
                    [] OTHER -> [conv EXCEPT !.step = "put", !.text = r]
        BY <1>4, <1>10, <2>1, <2>2, <2>3 DEF ApplyWidth
    <2>5. \/ conv' = [conv EXCEPT !.step = "put"]
          \/ conv' = [conv EXCEPT !.step = "put", !.text = u]
          \/ conv' = Justify(m, "put")
          \/ conv' = [conv EXCEPT !.step = "put", !.text = r]
        BY <2>4
    <2>6. format' = format
        BY <1>10 DEF ApplyWidth
    <2>7. Justify(m, "put").spec = s /\ Justify(m, "put").step \in {"width", "put", "wild"}
        BY <1>8
    <2>8. /\ [conv EXCEPT !.step = "put"].spec = s /\ [conv EXCEPT !.step = "put"].step = "put"
          /\ [conv EXCEPT !.step = "put", !.text = u].spec = s
          /\ [conv EXCEPT !.step = "put", !.text = u].step = "put"
          /\ [conv EXCEPT !.step = "put", !.text = r].spec = s
          /\ [conv EXCEPT !.step = "put", !.text = r].step = "put"
        BY <1>3
    <2> QED
        BY <2>5, <2>6, <2>7, <2>8
<1> QED
    BY <1>4, <1>5, <1>6, <1>7, <1>9, <1>10

LEMMA FormatStep == PrintkInv /\ FormatInv /\ PrintkNext => FormatInv'
<1> SUFFICES ASSUME PrintkInv, FormatInv, PrintkNext PROVE FormatInv'
    OBVIOUS
<1>1. ASSUME NEW w \in Written, NEW letter \in LettersRead(w) \cap Letters,
             NEW value \in Values(Specifier(w, letter)), Convert(w, letter, value)
      PROVE  FormatInv'
    <2>1. PICK s : s = Specifier(w, letter)
        OBVIOUS
    <2>2. PICK t : t = IF s.signed THEN itoa(value) ELSE utoa(value)
        OBVIOUS
    <2>3. conv' = Conv("sign", s, value, 0, t) /\ format' = w
        BY <1>1, <2>1, <2>2 DEF Convert, Conv
    <2>4. conv'.spec = s /\ conv'.step = "sign"
        BY <2>3, ConvFields
    <2>5. conv' \notin {Idle, Nothing}
        BY <2>4 DEF Idle, Nothing
    <2> QED
        BY <1>1, <2>1, <2>3, <2>4, <2>5 DEF FormatInv
<1>2. ASSUME NEW w \in Written, Skip(w) PROVE FormatInv'
    BY <1>2 DEF Skip, FormatInv
<1>3. ASSUME AddSign \/ AddPrefix \/ ApplyPrecision \/ ApplyWidth PROVE FormatInv'
    <2>1. PICK a : a = conv.step /\ a \notin {"idle", "nothing"}
        BY <1>3 DEF AddSign, AddPrefix, ApplyPrecision, ApplyWidth
    <2>2. PICK s : \E v, n, t : conv = Conv(a, s, v, n, t)
        BY <2>1, AtStep
    <2>3. PICK v, n, t : conv = Conv(a, s, v, n, t)
        BY <2>2
    <2>4. conv \notin {Idle, Nothing}
        BY <2>1 DEF Idle, Nothing
    <2> QED
        BY <1>3, <2>1, <2>3, <2>4, StageSpec, StageKeepsFormat
<1>4. PutAndFree => FormatInv'
    BY DEF PutAndFree, FormatInv
<1> QED
    BY <1>1, <1>2, <1>3, <1>4 DEF PrintkNext

(* A format with short numbers is read as it is written. *)
LEMMA ShortNumbers ==
    ASSUME NEW w \in Written, w.width < 100, w.precision < 100
    PROVE  /\ LettersRead(w) = {w.letter} /\ w.letter \in Letters /\ NoLetter # w.letter
           /\ \E s : /\ s = Specifier(w, w.letter)
                     /\ s.flags = Meant(w).flags /\ s.width = Meant(w).width
                     /\ s.precision = Meant(w).precision /\ s.base = Meant(w).base
                     /\ s.signed = Meant(w).signed
<1>0. w.width \in Numbers /\ w.precision \in Numbers
    BY DEF Written
<1>1. PICK x, y \in 0 .. 99 : x = w.width /\ y = w.precision
    <2>1. PICK x \in 0 .. 999 : x = w.width
        BY <1>0, PrintkAssumption
    <2>2. PICK y \in 0 .. 999 : y = w.precision
        BY <1>0, PrintkAssumption
    <2>3. x < 100 /\ y < 100
        BY <2>1, <2>2
    <2>4. x \in 0 .. 99 /\ y \in 0 .. 99
        BY <2>3
    <2> QED
        BY <2>1, <2>2, <2>4
<1>2. ~Swallows(w.width) /\ ~Swallows(w.precision)
    BY <1>1 DEF Swallows
<1>3. SpecNumber(w.width) = w.width /\ SpecNumber(w.precision) = w.precision
    BY <1>1 DEF SpecNumber
<1>4. LettersRead(w) = {w.letter}
    BY <1>2 DEF LettersRead, DotSwallowed, LetterSwallowed
<1>5. w.letter \in Letters /\ NoLetter # w.letter
    BY DEF Written, Letters, NoLetter
<1>6. PICK l, b, g, f : /\ l = LengthSpec(IF Swallows(w.width) \/ Swallows(w.precision)
                                          THEN Shorter(w.length) ELSE w.length)
                       /\ b = Base(w.letter) /\ g = (w.letter = "d") /\ f = w.flags
    OBVIOUS
<1>7. PICK s : s = parse_specifier(w, w.letter)
    OBVIOUS
<1>8. s = [flags |-> f, width |-> x, precision |-> y, lengthspec |-> l, base |-> b, signed |-> g]
    BY <1>1, <1>3, <1>6, <1>7 DEF parse_specifier
<1>9. /\ Meant(w).width = x /\ Meant(w).base = b /\ Meant(w).signed = g
      /\ Meant(w).flags = (IF w.letter = "p" THEN f \cup {"#"} ELSE f)
      /\ Meant(w).precision = (IF w.letter = "p" THEN 16 ELSE y)
    BY <1>1, <1>6 DEF Meant
<1>10. CASE w.letter # "p"
    BY <1>4, <1>5, <1>7, <1>8, <1>9, <1>10 DEF Specifier
<1>11. CASE w.letter = "p"
    <2>1. PICK h : h = f \cup {"#"} /\ s.flags = f
        BY <1>8
    <2>2. Specifier(w, w.letter) = [s EXCEPT !.flags = h, !.precision = 16, !.lengthspec = "L"]
        BY <1>7, <1>11, <2>1 DEF Specifier
    <2>3. PICK r : r = [s EXCEPT !.flags = h, !.precision = 16, !.lengthspec = "L"]
        OBVIOUS
    <2>4. r.flags = h /\ r.width = x /\ r.precision = 16 /\ r.base = b /\ r.signed = g
        BY <1>8, <2>3
    <2> QED
        BY <1>4, <1>5, <1>9, <1>11, <2>1, <2>2, <2>3, <2>4
<1> QED
    BY <1>10, <1>11

(* Expected looks at five fields only. *)
LEMMA ExpectedFields ==
    ASSUME NEW s, NEW r, NEW v, s.flags = r.flags, s.width = r.width,
           s.precision = r.precision, s.base = r.base, s.signed = r.signed
    PROVE  Expected(s, v) = Expected(r, v) /\ (ZeroWithPrecision(s, v) <=> ZeroWithPrecision(r, v))
BY DEF Expected, ZeroWithPrecision

LEMMA PutAsExpected ==
    ASSUME PrintkInv, conv.step = "put", ~ZeroWithPrecision(conv.spec, conv.value)
    PROVE  conv.text = Expected(conv.spec, conv.value)
<1>1. PICK s : \E v, n, t : conv = Conv("put", s, v, n, t) /\ Stage("put", s, v, n, t)
    BY AtStep
<1>2. PICK v, n, text : conv = Conv("put", s, v, n, text) /\ Stage("put", s, v, n, text)
    BY <1>1
<1>3. conv.spec = s /\ conv.value = v /\ conv.text = text
    BY <1>2, ConvFields
<1>4. text = Expected(s, v) \/ (OddZero(s, v) /\ s.precision > 0)
    BY <1>2 DEF Stage
<1>5. OddZero(s, v) => s.signed /\ v.sign = 0 /\ s.flags \cap {"+", " "} = {}
    <2>1. SUFFICES ASSUME OddZero(s, v) PROVE s.flags \cap {"+", " "} = {}
        BY DEF OddZero
    <2>2. s.signed /\ v.sign = 0 /\ Lead(s, v) = <<>>
        BY <2>1 DEF OddZero
    <2>3. ~(v.sign < 0)
        BY <2>2
    <2>4. <<"+">> # <<>> /\ <<" ">> # <<>>
        OBVIOUS
    <2>5. "+" \notin s.flags /\ " " \notin s.flags
        BY <2>2, <2>3, <2>4 DEF Lead
    <2> QED
        BY <2>5
<1> QED
    BY <1>3, <1>4, <1>5 DEF ZeroWithPrecision

LEMMA FormatGives == PrintkInv /\ FormatInv => Formatted
<1> SUFFICES ASSUME PrintkInv, FormatInv, Ended, format.width < 100, format.precision < 100
             PROVE  AsWritten
    BY DEF Formatted
<1>1. conv # Idle
    BY DEF Ended, Idle
<1>2. format \in Written
    BY <1>1 DEF FormatInv
<1>3. PICK s : /\ s = Specifier(format, format.letter)
               /\ s.flags = Meant(format).flags /\ s.width = Meant(format).width
               /\ s.precision = Meant(format).precision /\ s.base = Meant(format).base
               /\ s.signed = Meant(format).signed
    BY <1>2, ShortNumbers
<1>4. LettersRead(format) = {format.letter} /\ NoLetter # format.letter
    BY <1>2, ShortNumbers
<1>5. conv # Nothing
    BY <1>1, <1>4 DEF FormatInv
<1>6. conv.spec = s
    BY <1>1, <1>3, <1>4, <1>5 DEF FormatInv
<1>7. conv.step = "put"
    <2>1. CASE Staged(conv)
        <3>1. PICK step, q, v, n, t : conv = Conv(step, q, v, n, t) /\ Stage(step, q, v, n, t)
            BY <2>1 DEF Staged
        <3>2. conv.step \in {"sign", "precision", "width", "put", "wild"}
            BY <3>1, ConvFields DEF Stage
        <3> QED
            BY <3>2 DEF Ended
    <2> QED
        BY <1>1, <1>5, <2>1 DEF PrintkInv
<1>8. PICK m : m = Meant(format)
    OBVIOUS
<1>9. /\ Expected(s, conv.value) = Expected(m, conv.value)
      /\ ZeroWithPrecision(s, conv.value) <=> ZeroWithPrecision(m, conv.value)
    BY <1>3, <1>8, ExpectedFields
<1>10. ~ZeroWithPrecision(s, conv.value) => conv.text = Expected(s, conv.value)
    BY <1>6, <1>7, PutAsExpected
<1> QED
    BY <1>7, <1>8, <1>9, <1>10 DEF AsWritten

-----------------------------------------------------------------------------
(***************************************************************************)
(* The theorems.                                                           *)
(***************************************************************************)

ConsoleInv == ConsoleTyped /\ NewlineInv /\ TextInv

LEMMA ConsoleInitInv == ConsoleInit => ConsoleInv
<1> SUFFICES ASSUME ConsoleInit PROVE ConsoleInv
    OBVIOUS
<1>1. calls = <<>>
    BY DEF ConsoleInit
<1>2. NewlineInv
    BY <1>1 DEF NewlineInv
<1> QED
    BY <1>2, ConsoleInitTyped, TextInit DEF ConsoleInv

LEMMA ConsoleStutter == ConsoleInv /\ UNCHANGED consoleVars => ConsoleInv'
<1> SUFFICES ASSUME ConsoleInv, UNCHANGED consoleVars PROVE ConsoleInv'
    OBVIOUS
<1>1. /\ cells' = cells /\ cursor' = cursor /\ index' = index /\ calls' = calls
      /\ terminal' = terminal /\ followed' = followed
    BY DEF consoleVars
<1>2. Call' = Call
    BY <1>1 DEF Call
<1>3. ConsoleTyped'
    BY <1>1 DEF ConsoleInv, ConsoleTyped
<1>4. NewlineInv'
    BY <1>1, <1>2 DEF ConsoleInv, NewlineInv
<1>5. \A t : Showing(t)' <=> Showing(t)
    BY <1>1, <1>2 DEF Showing, Putting, Advancing, StartingLine, Returning, Scrolling, Placing, Done,
                      ReadsTo, Synced
<1>6. Synced(terminal)' <=> Synced(terminal)
    BY <1>1 DEF Synced
<1>7. TextInv'
    BY <1>1, <1>5, <1>6 DEF ConsoleInv, TextInv
<1> QED
    BY <1>3, <1>4, <1>7 DEF ConsoleInv

LEMMA ConsoleStep == ConsoleInv /\ ConsoleNext => ConsoleInv'
BY ConsoleNextTyped, NewlineNext, TextNext DEF ConsoleInv

LEMMA PrintkStutter ==
    PrintkInv /\ FormatInv /\ UNCHANGED printkVars => PrintkInv' /\ FormatInv'
BY DEF printkVars, PrintkInv, FormatInv, Staged

LEMMA TextInvariant == Spec => [](ConsoleInv /\ PrintkInv /\ FormatInv)
<1>1. Init => ConsoleInv /\ PrintkInv /\ FormatInv
    BY ConsoleInitInv DEF Init, PrintkInit, PrintkInv, FormatInv
<1>2. ConsoleInv /\ PrintkInv /\ FormatInv /\ [Next]_vars => (ConsoleInv /\ PrintkInv /\ FormatInv)'
    <2> SUFFICES ASSUME ConsoleInv, PrintkInv, FormatInv, [Next]_vars
                 PROVE  ConsoleInv' /\ PrintkInv' /\ FormatInv'
        OBVIOUS
    <2>1. CASE ConsoleNext /\ UNCHANGED printkVars
        BY <2>1, ConsoleStep, PrintkStutter
    <2>2. CASE PrintkNext /\ UNCHANGED consoleVars
        BY <2>2, ConsoleStutter, PrintkStaged, FormatStep
    <2>3. CASE UNCHANGED vars
        <3>1. UNCHANGED consoleVars /\ UNCHANGED printkVars
            BY <2>3 DEF vars
        <3> QED
            BY <3>1, ConsoleStutter, PrintkStutter
    <2> QED
        BY <2>1, <2>2, <2>3 DEF Next
<1> QED
    BY <1>1, <1>2, PTL DEF Spec

(***************************************************************************)
(* The window, the cursor registers and the accesses of a call keep their  *)
(* types, and a conversion its steps, its byte-wide width and precision,   *)
(* and a cell of a kmalloc cache, whatever the size of the window, the     *)
(* characters printed and the numbers in the format.                       *)
(***************************************************************************)
THEOREM TextTypes == Spec => []TypeOK
<1>1. ConsoleInv /\ PrintkInv => TypeOK
    BY TypedTypeOK, PrintkGives DEF ConsoleInv, TypeOK
<1> QED
    BY <1>1, TextInvariant, PTL

(***************************************************************************)
(* Between calls of kputchar the window shows what a terminal shows that   *)
(* wraps and scrolls, through tabs, returns and newlines, as long as it    *)
(* can be followed (driver/vga.c).                                         *)
(***************************************************************************)
THEOREM TextIsShown == Spec => []ShowsText
<1>1. ConsoleInv => ShowsText
    BY DEF ConsoleInv, TextInv, Synced, ShowsText
<1> QED
    BY <1>1, TextInvariant, PTL

(***************************************************************************)
(* A '\n' that no interrupt strikes leaves the cursor at the start of a    *)
(* row of the window, whatever interrupts did to the registers before.     *)
(***************************************************************************)
THEOREM NewlinesRecover == Spec => NewlineRecovers
<1>1. ConsoleInv /\ [Next]_vars =>
        [(Finish /\ Call.char = Newline /\ Call.whole) =>
            CursorAt(cursor) \in {VGA_WIDTH * row : row \in 0 .. (VGA_HEIGHT - 1)}]_consoleVars
    BY NewlineEnds DEF ConsoleInv, RowStarts
<1> QED
    BY <1>1, TextInvariant, PTL DEF Spec, NewlineRecovers

(***************************************************************************)
(* For all widths, precisions, flags, lengths and values, the text of a    *)
(* conversion and its terminator stay within the cell kmalloc returned for *)
(* it, but for the two cases named in BufferFits (log.c, kmalloc.c).       *)
(***************************************************************************)
THEOREM ConversionsFit == Spec => []BufferFits
<1>1. PrintkInv => BufferFits
    BY PrintkGives
<1> QED
    BY <1>1, TextInvariant, PTL

(***************************************************************************)
(* For all flags, lengths, letters and values, and all widths and          *)
(* precisions of at most two digits, a conversion puts out what C's printf *)
(* lays out for the format as it is written, but for a signed 0 with a     *)
(* precision and no sign, and for the length "h" (__parse_specifier,       *)
(* __vprint_putsigned, __vprint_putunsigned).                              *)
(***************************************************************************)
THEOREM ConversionsFormatted == Spec => []Formatted
<1>1. PrintkInv /\ FormatInv => Formatted
    BY FormatGives
<1> QED
    BY <1>1, TextInvariant, PTL

=============================================================================
