-------------------------- MODULE InterruptsProofs --------------------------
(***************************************************************************)
(* Proofs about Interrupts, for any number of lines, any exceptions, any   *)
(* masks the firmware left, and any number of interrupts: the safety       *)
(* invariants of the interrupt machinery.                                  *)
(*                                                                         *)
(* The invariants rest on two facts that span several actions.  A gate     *)
(* disables interrupts and only iretq restores them, so an interrupt of    *)
(* the controllers is always the outermost frame.  And a mask register     *)
(* changes only in WriteMask, so that between reading and writing it the   *)
(* value read is still the value there, and every line open in it has a    *)
(* handler.                                                                *)
(***************************************************************************)
EXTENDS Interrupts, ListLemmas, FiniteSetTheorems

LineSet == 0 .. (Lines - 1)

Frames == [irq : Irqs \cup Exceptions, step : Steps, flag : BOOLEAN, spurious : BOOLEAN]

(* How far isr_install is, what has happened by then and what has not. *)
SetUpInOrder ==
    /\ install \in {"remap", "mask", "lidt", "sti", "done"} => gates = Irqs \cup Exceptions
    /\ install \in {"mask", "lidt", "sti", "done"} => remapped
    /\ install \in {"lidt", "sti"} => imr = [p \in Pics |-> LineSet]
    /\ install \in {"sti", "done"} => loaded
    /\ install # "done" => stack = <<>> /\ call = NoCall /\ handlers = {}

(* Interrupts are enabled in the kernel's own code and nowhere else. *)
FlagFollowsStack == enabled <=> install = "done" /\ stack = <<>>

(* An interrupt of the controllers is outermost; only it runs a handler. *)
Nesting ==
    \A i \in 1 .. Len(stack) :
        /\ stack[i].flag <=> i = 1
        /\ stack[i].irq \in Irqs => i = 1
        /\ stack[i].irq \notin Irqs => stack[i].step \in {"dispatch", "return"}
        /\ stack[i].irq \in Irqs /\ ~stack[i].spurious => stack[i].irq \in handlers

(* A line that is open, now or in the value about to be written, has a handler. *)
OpenLinesHandled ==
    /\ install = "done" =>
          \A irq \in Irqs : LineOf(irq) \notin imr[PicOf(irq)] => irq \in handlers
    /\ call.step # "none" => call.irq \in handlers
    /\ call.step = "write_mask" => call.mask = imr[PicOf(call.irq)]

(* In service is the outermost frame, until its end of interrupt is sent. *)
InService ==
    /\ isr["pic1"] = IF stack # <<>> /\ Waiting(stack[1])
                     THEN {MasterLine(stack[1].irq)} ELSE {}
    /\ Cascade \notin irr["pic1"]

IInv ==
    /\ TypeOK
    /\ SetUpInOrder
    /\ FlagFollowsStack
    /\ Nesting
    /\ OpenLinesHandled
    /\ InService

-----------------------------------------------------------------------------
(***************************************************************************)
(* Lines and numbers of interrupts.                                        *)
(***************************************************************************)

LEMMA LinesNat == Lines \in Nat \ {0} /\ Cascade \in LineSet /\ Exceptions \cap Irqs = {}
BY InterruptsAssumption DEF LineSet

LEMMA LineFacts ==
    ASSUME NEW irq \in Irqs
    PROVE  /\ LineOf(irq) \in LineSet
           /\ PicOf(irq) \in Pics
           /\ irq < Lines => LineOf(irq) = irq /\ PicOf(irq) = "pic1"
           /\ irq >= Lines => LineOf(irq) = irq - Lines /\ PicOf(irq) = "pic2"
<1>1. irq \in Nat /\ irq < 2 * Lines
    BY LinesNat DEF Irqs
<1>2. CASE irq < Lines
  <2>1. irq % Lines = irq
      BY <1>1, <1>2, LinesNat
  <2> QED
      BY <2>1, <1>1, <1>2, LinesNat DEF LineOf, PicOf, Pics, LineSet
<1>3. CASE ~(irq < Lines)
  <2>1. irq % Lines = irq - Lines
      BY <1>1, <1>3, LinesNat
  <2> QED
      BY <2>1, <1>1, <1>3, LinesNat DEF LineOf, PicOf, Pics, LineSet
<1> QED
    BY <1>2, <1>3

(* Two interrupts on the same line of the same controller are the same. *)
LEMMA LineInjective ==
    ASSUME NEW a \in Irqs, NEW b \in Irqs, PicOf(a) = PicOf(b), LineOf(a) = LineOf(b)
    PROVE  a = b
<1>1. a \in Nat /\ b \in Nat
    BY LinesNat DEF Irqs
<1>2. (a < Lines \/ a >= Lines) /\ (b < Lines \/ b >= Lines)
    BY <1>1, LinesNat
<1>3. "pic1" # "pic2"
    OBVIOUS
<1> QED
    BY <1>1, <1>2, <1>3, LineFacts, LinesNat

(* The request of highest priority is a request. *)
LEMMA MinIn ==
    ASSUME NEW S \in SUBSET LineSet, S # {}
    PROVE  Min(S) \in S
<1>1. S \in SUBSET Nat
    BY LinesNat DEF LineSet
<1>2. PICK m \in S : \A k \in S : m <= k
    BY <1>1, LeastElement
<1> QED
    BY <1>2 DEF Min

LEMMA MinSingleton ==
    ASSUME NEW l \in LineSet
    PROVE  Min({l}) = l
BY MinIn

-----------------------------------------------------------------------------
(***************************************************************************)
(* The stack: pushing a frame, popping it, and changing its step.          *)
(***************************************************************************)

LEMMA StackType ==
    ASSUME TypeOK
    PROVE  /\ stack \in Seq(Frames)
           /\ Len(stack) \in Nat
           /\ DOMAIN stack = 1 .. Len(stack)
           /\ stack = <<>> <=> Len(stack) = 0
           /\ \A i \in 1 .. Len(stack) : stack[i] \in Frames
<1>1. stack \in Seq(Frames)
    BY DEF TypeOK, Frames
<1> QED
    BY <1>1, LenProperties, EmptySeq, ElementOfSeq

LEMMA Push ==
    ASSUME TypeOK, NEW f \in Frames, stack' = Append(stack, f)
    PROVE  /\ stack' \in Seq(Frames)
           /\ stack' # <<>>
           /\ Len(stack') = Len(stack) + 1
           /\ \A i \in 1 .. Len(stack) : stack'[i] = stack[i]
           /\ stack'[Len(stack) + 1] = f
BY StackType, AppendProperties

LEMMA Pop ==
    ASSUME TypeOK, stack # <<>>, stack' = Front(stack)
    PROVE  /\ stack' \in Seq(Frames)
           /\ Len(stack') = Len(stack) - 1
           /\ \A i \in 1 .. Len(stack') : stack'[i] = stack[i]
           /\ stack' = <<>> <=> Len(stack) = 1
<1> DEFINE n == Len(stack) - 1
<1>1. n \in Nat /\ stack' = SubSeq(stack, 1, n)
    BY StackType DEF Front
<1>2. \A i \in 1 .. n : stack[i] \in Frames
    BY StackType
<1> HIDE DEF n
<1>3. /\ SubSeq(stack, 1, n) \in Seq(Frames)
      /\ Len(SubSeq(stack, 1, n)) = IF 1 <= n THEN n - 1 + 1 ELSE 0
      /\ \A i \in 1 .. (n - 1 + 1) : SubSeq(stack, 1, n)[i] = stack[1 + i - 1]
    BY <1>1, <1>2, SubSeqProperties
<1>4. /\ stack' \in Seq(Frames)
      /\ Len(stack') = n
      /\ \A i \in 1 .. n : stack'[i] = stack[i]
    BY <1>1, <1>3
<1>5. stack' = <<>> <=> Len(stack') = 0
    BY <1>4, EmptySeq
<1> QED
    BY <1>1, <1>4, <1>5, StackType DEF n

LEMMA ChangeTop ==
    ASSUME TypeOK, NEW step \in Steps, TopGoesTo(step)
    PROVE  /\ stack' \in Seq(Frames)
           /\ stack' # <<>>
           /\ Len(stack') = Len(stack)
           /\ \A i \in 1 .. Len(stack) :
                 /\ stack'[i].irq = stack[i].irq
                 /\ stack'[i].flag = stack[i].flag
                 /\ stack'[i].spurious = stack[i].spurious
                 /\ stack'[i].step = IF i = Len(stack) THEN step ELSE stack[i].step
<1> DEFINE n == Len(stack)
           top == [stack[n] EXCEPT !.step = step]
<1>1. n \in 1 .. Len(stack) /\ stack[n] \in Frames
    BY StackType DEF TopGoesTo
<1>2. top \in Frames
    BY <1>1 DEF Frames
<1>3. /\ top.irq = stack[n].irq /\ top.flag = stack[n].flag
      /\ top.spurious = stack[n].spurious /\ top.step = step
    BY <1>1 DEF Frames
<1>4. stack' = [stack EXCEPT ![n] = top]
    BY DEF TopGoesTo
<1> HIDE DEF top
<1>5. /\ stack' \in Seq(Frames)
      /\ Len(stack') = Len(stack)
      /\ \A j \in 1 .. Len(stack) : stack'[j] = IF j = n THEN top ELSE stack[j]
    BY <1>1, <1>2, <1>4, StackType, ExceptSeq
<1>6. stack' # <<>>
    BY <1>1, <1>5, EmptySeq
<1> QED
    BY <1>3, <1>5, <1>6

-----------------------------------------------------------------------------
(***************************************************************************)
(* Every action preserves the invariant.                                   *)
(***************************************************************************)

LEMMA RegisterType ==
    ASSUME TypeOK
    PROVE  imr \in [Pics -> SUBSET LineSet] /\ irr \in [Pics -> SUBSET LineSet]
             /\ isr \in [Pics -> SUBSET LineSet]
BY DEF TypeOK, LineSet

LEMMA InitInv == Init => IInv
<1> SUFFICES ASSUME Init PROVE IInv
    OBVIOUS
<1>1. stack = <<>> /\ Len(stack) = 0 /\ stack \in Seq(Frames)
    BY EmptySeq DEF Init
<1>2. imr \in [Pics -> SUBSET LineSet]
    BY InterruptsAssumption DEF Init, LineSet
<1>3. NoCall.step = "none" /\ NoCall.irq \in Irqs /\ NoCall.mask \in SUBSET LineSet
    BY LinesNat DEF NoCall, Irqs
<1>4. TypeOK
    BY <1>1, <1>2, <1>3 DEF Init, TypeOK, Frames, LineSet, NoCall
<1>5. SetUpInOrder /\ FlagFollowsStack
    BY <1>1 DEF Init, SetUpInOrder, FlagFollowsStack
<1>6. Nesting /\ OpenLinesHandled
    BY <1>1, <1>3 DEF Init, Nesting, OpenLinesHandled
<1>7. InService
    BY <1>1 DEF Init, InService, Pics
<1> QED
    BY <1>4, <1>5, <1>6, <1>7 DEF IInv

(* isr_install runs before the first interrupt: the stack is empty. *)
LEMMA InstallInv == IInv /\ Install => IInv'
<1> SUFFICES ASSUME IInv, Install PROVE IInv'
    OBVIOUS
<1>1. stack = <<>> /\ UNCHANGED <<irr, isr, call, stack, raises, faults>>
    BY DEF Install, ClearAll, SetGates, Remap, MaskAll, SetIdt, Sti, InstallStep
<1>2. Len(stack) = 0
    BY <1>1
<1>3. TypeOK'
    BY <1>1 DEF IInv, TypeOK, Install, ClearAll, SetGates, Remap, MaskAll, SetIdt, Sti, InstallStep
<1>4. SetUpInOrder'
    BY <1>1, <1>2 DEF IInv, SetUpInOrder, Install, ClearAll, SetGates, Remap, MaskAll, SetIdt, Sti,
        InstallStep, LineSet
<1>5. FlagFollowsStack'
    BY <1>1 DEF IInv, TypeOK, FlagFollowsStack, Install, ClearAll, SetGates, Remap, MaskAll, SetIdt, Sti,
        InstallStep
<1>6. Nesting'
    BY <1>1, <1>2 DEF Nesting
<1>7. OpenLinesHandled'
  <2>1. call = NoCall /\ call' = NoCall
      BY <1>1 DEF IInv, SetUpInOrder, Install, ClearAll, SetGates, Remap, MaskAll, SetIdt, Sti, InstallStep
  <2>2. install' # "done" \/ imr' = [p \in Pics |-> LineSet]
      BY DEF IInv, SetUpInOrder, Install, ClearAll, SetGates, Remap, MaskAll, SetIdt, Sti, InstallStep
  <2>3. call'.step = "none"
      BY <2>1 DEF NoCall
  <2> QED
      BY <2>2, <2>3, LineFacts DEF OpenLinesHandled
<1>8. InService'
    BY <1>1 DEF IInv, InService
<1> QED
    BY <1>3, <1>4, <1>5, <1>6, <1>7, <1>8 DEF IInv

(***************************************************************************)
(* Registration: it leaves the stack and the requests alone, handlers only *)
(* become more, and a mask is opened for the line of the new handler only. *)
(***************************************************************************)
LEMMA RegisterInv ==
    ASSUME IInv, NEW irq \in Irqs, Register(irq)
    PROVE  IInv'
<1>1. TypeOK'
    BY DEF IInv, TypeOK, Register, setup, pics
<1>2. SetUpInOrder' /\ FlagFollowsStack' /\ InService' /\ Nesting'
    BY DEF IInv, SetUpInOrder, FlagFollowsStack, InService, Nesting, Register, Kernel, setup, pics
<1>3. OpenLinesHandled'
    BY DEF IInv, OpenLinesHandled, Register, setup, pics
<1> QED
    BY <1>1, <1>2, <1>3 DEF IInv

LEMMA RegisterIsrInv ==
    ASSUME IInv, NEW e \in Exceptions, RegisterIsr(e)
    PROVE  IInv'
<1>1. TypeOK'
    BY DEF IInv, TypeOK, RegisterIsr, setup, pics
<1>2. SetUpInOrder' /\ FlagFollowsStack' /\ InService' /\ Nesting'
    BY DEF IInv, SetUpInOrder, FlagFollowsStack, InService, Nesting, RegisterIsr, Kernel, setup, pics
<1>3. OpenLinesHandled'
    BY DEF IInv, OpenLinesHandled, RegisterIsr, setup, pics
<1> QED
    BY <1>1, <1>2, <1>3 DEF IInv

LEMMA ReadMaskInv == IInv /\ ReadMask => IInv'
<1> SUFFICES ASSUME IInv, ReadMask PROVE IInv'
    OBVIOUS
<1>1. call.irq \in Irqs /\ PicOf(call.irq) \in Pics
    BY LineFacts DEF IInv, TypeOK
<1>2. imr[PicOf(call.irq)] \in SUBSET LineSet
    BY <1>1, RegisterType DEF IInv
<1>3. call'.step = "write_mask" /\ call'.irq = call.irq /\ call'.mask = imr[PicOf(call.irq)]
    BY DEF IInv, TypeOK, ReadMask
<1>4. TypeOK'
    BY <1>2 DEF IInv, TypeOK, ReadMask, setup, pics, LineSet
<1>5. SetUpInOrder' /\ FlagFollowsStack' /\ InService' /\ Nesting'
    BY DEF IInv, SetUpInOrder, FlagFollowsStack, InService, Nesting, ReadMask, Kernel, setup, pics
<1>6. OpenLinesHandled'
    BY <1>3 DEF IInv, OpenLinesHandled, ReadMask, setup, pics
<1> QED
    BY <1>4, <1>5, <1>6 DEF IInv

LEMMA WriteMaskInv == IInv /\ WriteMask => IInv'
<1> SUFFICES ASSUME IInv, WriteMask PROVE IInv'
    OBVIOUS
<1> DEFINE p == PicOf(call.irq)
<1>1. call.irq \in Irqs /\ p \in Pics
    BY LineFacts DEF IInv, TypeOK
<1>2. imr \in [Pics -> SUBSET LineSet] /\ call.mask = imr[p] /\ call.irq \in handlers
    BY RegisterType DEF IInv, WriteMask, OpenLinesHandled
<1>3. NoCall.step = "none" /\ NoCall.irq \in Irqs /\ NoCall.mask \in SUBSET LineSet
    BY LinesNat DEF NoCall, Irqs
<1>4. imr' \in [Pics -> SUBSET LineSet]
    BY <1>1, <1>2 DEF WriteMask
<1>5. TypeOK'
    BY <1>3, <1>4 DEF IInv, TypeOK, WriteMask, setup, LineSet, NoCall
<1>6. SetUpInOrder' /\ FlagFollowsStack' /\ InService' /\ Nesting'
    BY DEF IInv, SetUpInOrder, FlagFollowsStack, InService, Nesting, WriteMask, Kernel, setup
<1>7. OpenLinesHandled'
  <2>1. ASSUME NEW irq \in Irqs, LineOf(irq) \notin imr'[PicOf(irq)]
        PROVE  irq \in handlers'
    <3>1. PicOf(irq) \in Pics /\ handlers' = handlers
        BY LineFacts DEF WriteMask
    <3>2. CASE LineOf(irq) \notin imr[PicOf(irq)]
        BY <3>1, <3>2 DEF IInv, OpenLinesHandled, WriteMask, Kernel
    <3>3. CASE LineOf(irq) \in imr[PicOf(irq)]
      <4>1. PicOf(irq) = p /\ LineOf(irq) = LineOf(call.irq)
          BY <2>1, <3>1, <3>3, <1>1, <1>2 DEF WriteMask
      <4>2. irq = call.irq
          BY <4>1, <1>1, LineInjective
      <4> QED
          BY <4>2, <3>1, <1>2
    <3> QED
        BY <3>2, <3>3
  <2>2. call'.step = "none"
      BY <1>3 DEF WriteMask
  <2> QED
      BY <2>1, <2>2 DEF OpenLinesHandled
<1> QED
    BY <1>5, <1>6, <1>7 DEF IInv

LEMMA RaiseInv ==
    ASSUME IInv, NEW irq \in Irqs, Raise(irq)
    PROVE  IInv'
<1>1. LineOf(irq) \in LineSet /\ PicOf(irq) \in Pics
    BY LineFacts
<1>2. irr \in [Pics -> SUBSET LineSet] /\ irr' \in [Pics -> SUBSET LineSet]
    BY <1>1, RegisterType DEF IInv, Raise
<1>3. TypeOK'
    BY <1>2 DEF IInv, TypeOK, Raise, setup, LineSet
<1>4. SetUpInOrder' /\ FlagFollowsStack' /\ Nesting' /\ OpenLinesHandled'
    BY DEF IInv, SetUpInOrder, FlagFollowsStack, Nesting, OpenLinesHandled, Raise, setup
<1>5. Cascade \notin irr'["pic1"]
  <2>1. CASE PicOf(irq) = "pic1"
    <3>1. irq \in Nat /\ Lines \in Nat
        BY LinesNat DEF Irqs
    <3>2. LineOf(irq) = irq
        BY <3>1, <2>1, LineFacts
    <3> QED
        BY <3>2, <2>1, <1>2 DEF IInv, InService, Raise, Pics
  <2>2. CASE PicOf(irq) # "pic1"
      BY <2>2, <1>2 DEF IInv, InService, Raise, Pics
  <2> QED
      BY <2>1, <2>2
<1>6. InService'
    BY <1>5 DEF IInv, InService, Raise
<1> QED
    BY <1>3, <1>4, <1>6 DEF IInv

(***************************************************************************)
(* What pushing a frame does to the invariant.  An interrupt of the        *)
(* controllers is pushed on an empty stack only, as interrupts are then    *)
(* enabled.                                                                *)
(***************************************************************************)
LEMMA PushInv ==
    ASSUME IInv, NEW irq \in Irqs \cup Exceptions, NEW spurious \in BOOLEAN,
           stack' = Append(stack, Frame(irq, spurious)), enabled' = FALSE,
           install = "done",
           UNCHANGED <<setup, handlers, imr, call>>,
           irr' \in [Pics -> SUBSET LineSet], isr' \in [Pics -> SUBSET LineSet],
           irq \in Irqs => stack = <<>>,
           irq \in Irqs /\ ~spurious => irq \in handlers
    PROVE  /\ TypeOK' /\ SetUpInOrder' /\ FlagFollowsStack' /\ Nesting' /\ OpenLinesHandled'
           /\ Len(stack') = Len(stack) + 1
           /\ stack' # <<>>
           /\ \A i \in 1 .. Len(stack) : stack'[i] = stack[i]
           /\ stack = <<>> => stack'[1] = Frame(irq, spurious)
<1> DEFINE f == Frame(irq, spurious)
<1>1. TypeOK /\ Len(stack) \in Nat
    BY StackType DEF IInv
<1>2. f \in Frames
    BY <1>1 DEF TypeOK, Frame, Frames, Steps
<1>3. f.irq = irq /\ f.spurious = spurious /\ f.step = "dispatch" /\ f.flag = enabled
    BY DEF Frame
<1> HIDE DEF f
<1>4. /\ stack' \in Seq(Frames)
      /\ stack' # <<>>
      /\ Len(stack') = Len(stack) + 1
      /\ \A i \in 1 .. Len(stack) : stack'[i] = stack[i]
      /\ stack'[Len(stack) + 1] = f
    BY <1>1, <1>2, Push DEF f
<1>5. TypeOK'
    BY <1>1, <1>4 DEF TypeOK, Frames, setup, LineSet
<1>6. SetUpInOrder' /\ OpenLinesHandled'
    BY DEF IInv, SetUpInOrder, OpenLinesHandled, setup
<1>7. FlagFollowsStack'
    BY <1>4 DEF FlagFollowsStack
<1>8. Nesting'
  <2> SUFFICES ASSUME NEW i \in 1 .. Len(stack')
               PROVE  /\ stack'[i].flag <=> i = 1
                      /\ stack'[i].irq \in Irqs => i = 1
                      /\ stack'[i].irq \notin Irqs => stack'[i].step \in {"dispatch", "return"}
                      /\ stack'[i].irq \in Irqs /\ ~stack'[i].spurious => stack'[i].irq \in handlers'
      BY DEF Nesting
  <2>1. CASE i \in 1 .. Len(stack)
      BY <2>1, <1>4 DEF IInv, Nesting
  <2>2. CASE i = Len(stack) + 1
    <3>1. i = 1 <=> stack = <<>>
        BY <2>2, <1>1, StackType
    <3>2. enabled <=> stack = <<>>
        BY DEF IInv, FlagFollowsStack
    <3> QED
        BY <3>1, <3>2, <2>2, <1>3, <1>4
  <2> QED
      BY <2>1, <2>2, <1>1, <1>4
<1>9. stack = <<>> => stack'[1] = f
    BY <1>1, <1>4, StackType
<1> QED
    BY <1>4, <1>5, <1>6, <1>7, <1>8, <1>9 DEF f

(* An open line, or an open line behind the open cascade, has a handler. *)
LEMMA DeliverInv == IInv /\ Deliver => IInv'
<1> SUFFICES ASSUME IInv, Deliver PROVE IInv'
    OBVIOUS
<1> DEFINE l == Min(MasterRequests)
           s == Min(SlaveRequests)
<1>1. install = "done" /\ stack = <<>> /\ Len(stack) = 0
    BY DEF IInv, FlagFollowsStack, Deliver
<1>2. /\ imr \in [Pics -> SUBSET LineSet] /\ irr \in [Pics -> SUBSET LineSet]
      /\ isr \in [Pics -> SUBSET LineSet] /\ isr["pic1"] = {} /\ Cascade \notin irr["pic1"]
      /\ "pic1" \in Pics /\ "pic2" \in Pics
    BY <1>1, RegisterType DEF IInv, InService, Pics
<1>3. SlaveRequests \in SUBSET LineSet /\ MasterRequests \in SUBSET LineSet
    BY <1>2, LinesNat DEF SlaveRequests, MasterRequests, Pending
<1>4. l \in MasterRequests /\ l \in LineSet
    BY <1>3, MinIn DEF Deliver
<1>5. CASE l = Cascade
  <2>1. SlaveRequests # {}
      BY <1>2, <1>4, <1>5 DEF MasterRequests, Pending
  <2>2. s \in SlaveRequests /\ s \in LineSet
      BY <2>1, <1>3, MinIn
  <2> DEFINE irq == Lines + s
  <2>3. irq \in Irqs /\ irq >= Lines /\ irq - Lines = s
      BY <2>2, LinesNat DEF LineSet, Irqs
  <2>4. LineOf(irq) = s /\ PicOf(irq) = "pic2"
      BY <2>3, LineFacts
  <2>5. s \notin imr["pic2"]
      BY <2>2 DEF SlaveRequests, Pending
  <2>6. irq \in handlers
      BY <2>3, <2>4, <2>5, <1>1 DEF IInv, OpenLinesHandled
  <2>7. /\ irr' = [irr EXCEPT !["pic2"] = @ \ {s}]
        /\ isr' = [isr EXCEPT !["pic1"] = @ \cup {l}, !["pic2"] = @ \cup {s}]
        /\ stack' = Append(stack, Frame(irq, FALSE)) /\ enabled' = FALSE
        /\ UNCHANGED <<setup, handlers, imr, call, raises, faults>>
      BY <1>5 DEF Deliver, Interrupt
  <2> HIDE DEF l, s, irq
  <2>8. /\ irr' \in [Pics -> SUBSET LineSet] /\ isr' \in [Pics -> SUBSET LineSet]
        /\ isr'["pic1"] = {Cascade} /\ irr'["pic1"] = irr["pic1"]
      BY <2>2, <2>7, <1>2, <1>4, <1>5 DEF Pics
  <2>9. /\ TypeOK' /\ SetUpInOrder' /\ FlagFollowsStack' /\ Nesting' /\ OpenLinesHandled'
        /\ stack' # <<>> /\ stack'[1] = Frame(irq, FALSE)
      BY <2>3, <2>6, <2>7, <2>8, <1>1, PushInv
  <2>10. Waiting(Frame(irq, FALSE)) /\ MasterLine(Frame(irq, FALSE).irq) = Cascade
      BY <2>3 DEF Waiting, Frame, MasterLine
  <2>11. InService'
      BY <2>8, <2>9, <2>10, <1>2 DEF InService, Waiting, MasterLine
  <2> QED
      BY <2>9, <2>11 DEF IInv
<1>6. CASE l # Cascade
  <2>1. l \in irr["pic1"] /\ l \notin imr["pic1"]
      BY <1>4, <1>6 DEF MasterRequests, Pending
  <2>2. l \in Irqs /\ l < Lines
      BY <1>4, LinesNat DEF LineSet, Irqs
  <2>3. LineOf(l) = l /\ PicOf(l) = "pic1"
      BY <2>2, LineFacts
  <2>4. l \in handlers
      BY <2>1, <2>2, <2>3, <1>1 DEF IInv, OpenLinesHandled
  <2>5. /\ irr' = [irr EXCEPT !["pic1"] = @ \ {l}]
        /\ isr' = [isr EXCEPT !["pic1"] = @ \cup {l}]
        /\ stack' = Append(stack, Frame(l, FALSE)) /\ enabled' = FALSE
        /\ UNCHANGED <<setup, handlers, imr, call, raises, faults>>
      BY <1>6 DEF Deliver, Interrupt
  <2> HIDE DEF l
  <2>6. /\ irr' \in [Pics -> SUBSET LineSet] /\ isr' \in [Pics -> SUBSET LineSet]
        /\ isr'["pic1"] = {l} /\ Cascade \notin irr'["pic1"]
      BY <2>5, <1>2, <1>4 DEF Pics
  <2>7. /\ TypeOK' /\ SetUpInOrder' /\ FlagFollowsStack' /\ Nesting' /\ OpenLinesHandled'
        /\ stack' # <<>> /\ stack'[1] = Frame(l, FALSE)
      BY <2>2, <2>4, <2>5, <2>6, <1>1, PushInv
  <2>8. Waiting(Frame(l, FALSE)) /\ MasterLine(Frame(l, FALSE).irq) = l
      BY <2>2, LinesNat DEF Waiting, Frame, MasterLine, Irqs
  <2>9. InService'
      BY <2>6, <2>7, <2>8 DEF InService, Waiting, MasterLine
  <2> QED
      BY <2>7, <2>9 DEF IInv
<1> QED
    BY <1>5, <1>6

(* A spurious interrupt is outermost too, and nothing is in service for it. *)
LEMMA SpuriousInv == IInv /\ Spurious => IInv'
<1> SUFFICES ASSUME IInv, Spurious PROVE IInv'
    OBVIOUS
<1> DEFINE irq == Lines - 1
<1>1. install = "done" /\ stack = <<>> /\ Len(stack) = 0
    BY DEF IInv, FlagFollowsStack, Spurious
<1>2. irq \in Irqs
    BY LinesNat DEF Irqs
<1>3. irr' = irr /\ isr' = isr /\ irr \in [Pics -> SUBSET LineSet] /\ isr \in [Pics -> SUBSET LineSet]
    BY RegisterType DEF IInv, Spurious, pics
<1>4. /\ stack' = Append(stack, Frame(irq, TRUE)) /\ enabled' = FALSE
      /\ UNCHANGED <<setup, handlers, imr, call>>
    BY DEF Spurious, pics
<1> HIDE DEF irq
<1>5. /\ TypeOK' /\ SetUpInOrder' /\ FlagFollowsStack' /\ Nesting' /\ OpenLinesHandled'
      /\ stack' # <<>> /\ stack'[1] = Frame(irq, TRUE)
    BY <1>1, <1>2, <1>3, <1>4, PushInv
<1>6. ~Waiting(Frame(irq, TRUE))
    BY DEF Waiting, Frame
<1>7. InService'
    BY <1>1, <1>3, <1>5, <1>6 DEF IInv, InService, Waiting
<1> QED
    BY <1>5, <1>7 DEF IInv

LEMMA ExceptionInv ==
    ASSUME IInv, NEW e \in Exceptions, Exception(e)
    PROVE  IInv'
<1>1. install = "done" /\ e \notin Irqs
    BY LinesNat DEF Exception
<1>2. irr' = irr /\ isr' = isr /\ irr \in [Pics -> SUBSET LineSet] /\ isr \in [Pics -> SUBSET LineSet]
    BY RegisterType DEF IInv, Exception, pics
<1>3. /\ stack' = Append(stack, Frame(e, FALSE)) /\ enabled' = FALSE
      /\ UNCHANGED <<setup, handlers, imr, call>>
    BY DEF Exception, pics
<1>4. /\ TypeOK' /\ SetUpInOrder' /\ FlagFollowsStack' /\ Nesting' /\ OpenLinesHandled'
      /\ stack' # <<>>
      /\ \A i \in 1 .. Len(stack) : stack'[i] = stack[i]
      /\ stack = <<>> => stack'[1] = Frame(e, FALSE)
    BY <1>1, <1>2, <1>3, PushInv
<1>5. InService'
  <2>1. CASE stack = <<>>
    <3>1. stack'[1] = Frame(e, FALSE)
        BY <2>1, <1>4
    <3>2. ~Waiting(Frame(e, FALSE))
        BY <1>1 DEF Waiting, Frame
    <3> QED
        BY <3>1, <3>2, <2>1, <1>2, <1>4 DEF IInv, InService, Waiting
  <2>2. CASE stack # <<>>
    <3>1. stack'[1] = stack[1]
        BY <2>2, <1>4, StackType DEF IInv
    <3> QED
        BY <3>1, <2>2, <1>2, <1>4 DEF IInv, InService, Waiting, MasterLine
  <2> QED
      BY <2>1, <2>2
<1> QED
    BY <1>4, <1>5 DEF IInv

(***************************************************************************)
(* What changing the step of the innermost frame does to the invariant.    *)
(* Only the frame of an interrupt may go to its handler or its end of      *)
(* interrupt.                                                              *)
(***************************************************************************)
LEMMA TopInv ==
    ASSUME IInv, NEW step \in Steps, TopGoesTo(step),
           UNCHANGED <<imr, irr>>, isr' \in [Pics -> SUBSET LineSet],
           Top.irq \notin Irqs => step = "return"
    PROVE  /\ TypeOK' /\ SetUpInOrder' /\ FlagFollowsStack' /\ Nesting' /\ OpenLinesHandled'
           /\ stack' # <<>>
           /\ stack'[1].irq = stack[1].irq
           /\ stack'[1].spurious = stack[1].spurious
           /\ stack'[1].step = IF Len(stack) = 1 THEN step ELSE stack[1].step
<1>1. TypeOK /\ Len(stack) \in Nat /\ stack # <<>> /\ 1 \in 1 .. Len(stack)
    BY StackType DEF IInv, TopGoesTo
<1>2. Top = stack[Len(stack)]
    BY DEF Top, Last
<1>3. /\ stack' \in Seq(Frames)
      /\ stack' # <<>>
      /\ Len(stack') = Len(stack)
      /\ \A i \in 1 .. Len(stack) :
            /\ stack'[i].irq = stack[i].irq
            /\ stack'[i].flag = stack[i].flag
            /\ stack'[i].spurious = stack[i].spurious
            /\ stack'[i].step = IF i = Len(stack) THEN step ELSE stack[i].step
    BY <1>1, ChangeTop
<1>4. UNCHANGED <<setup, enabled, handlers, call>>
    BY DEF TopGoesTo
<1>5. TypeOK'
    BY <1>1, <1>3, <1>4 DEF TypeOK, Frames, setup, LineSet
<1>6. SetUpInOrder' /\ OpenLinesHandled' /\ FlagFollowsStack'
    BY <1>1, <1>3, <1>4 DEF IInv, SetUpInOrder, OpenLinesHandled, FlagFollowsStack, setup
<1>7. Nesting'
    BY <1>2, <1>3, <1>4 DEF IInv, Nesting
<1> QED
    BY <1>1, <1>3, <1>5, <1>6, <1>7

(* The frame of an interrupt is the only one on the stack when it is on top. *)
LEMMA IrqOnTop ==
    ASSUME IInv, stack # <<>>
    PROVE  /\ Top = stack[Len(stack)] /\ Top \in Frames
           /\ Top.irq \in Irqs => Len(stack) = 1 /\ Top = stack[1]
           /\ Top.irq \notin Irqs => Top.step \in {"dispatch", "return"}
           /\ Top.irq \notin Irqs /\ Len(stack) = 1 => ~Waiting(stack[1])
<1>1. Len(stack) \in 1 .. Len(stack) /\ Top = stack[Len(stack)] /\ Top \in Frames
    BY StackType DEF IInv, Top, Last
<1> QED
    BY <1>1 DEF IInv, Nesting, Waiting

LEMMA DispatchIrqInv == IInv /\ DispatchIrq => IInv'
<1> SUFFICES ASSUME IInv, DispatchIrq PROVE IInv'
    OBVIOUS
<1> DEFINE step == IF Top.irq \in handlers THEN "handler" ELSE "eoi"
<1>1. step \in Steps /\ step # "return" /\ TopGoesTo(step) /\ UNCHANGED <<imr, irr, isr>>
    BY DEF DispatchIrq, Steps, pics
<1>2. isr' \in [Pics -> SUBSET LineSet]
    BY <1>1, RegisterType DEF IInv
<1>3. Top.irq \in Irqs /\ Top.step = "dispatch" /\ Len(stack) = 1 /\ Top = stack[1] /\ stack # <<>>
    BY IrqOnTop DEF DispatchIrq
<1> HIDE DEF step
<1>4. /\ TypeOK' /\ SetUpInOrder' /\ FlagFollowsStack' /\ Nesting' /\ OpenLinesHandled'
      /\ stack' # <<>>
      /\ stack'[1].irq = stack[1].irq
      /\ stack'[1].spurious = stack[1].spurious
      /\ stack'[1].step = IF Len(stack) = 1 THEN step ELSE stack[1].step
    BY <1>1, <1>2, <1>3, TopInv
<1>5. Waiting(stack[1]) <=> Waiting(stack'[1])
    BY <1>1, <1>3, <1>4 DEF Waiting
<1>6. InService'
    BY <1>1, <1>3, <1>4, <1>5 DEF IInv, InService, Waiting, MasterLine
<1> QED
    BY <1>4, <1>6 DEF IInv

LEMMA DispatchExceptionInv == IInv /\ DispatchException => IInv'
<1> SUFFICES ASSUME IInv, DispatchException PROVE IInv'
    OBVIOUS
<1>1. "return" \in Steps /\ TopGoesTo("return") /\ UNCHANGED <<imr, irr, isr>> /\ stack # <<>>
    BY DEF DispatchException, Steps, pics
<1>2. isr' \in [Pics -> SUBSET LineSet]
    BY <1>1, RegisterType DEF IInv
<1>3. Top.irq \notin Irqs /\ (Len(stack) = 1 => ~Waiting(stack[1]))
    BY <1>1, IrqOnTop, LinesNat DEF DispatchException
<1>4. /\ TypeOK' /\ SetUpInOrder' /\ FlagFollowsStack' /\ Nesting' /\ OpenLinesHandled'
      /\ stack' # <<>>
      /\ stack'[1].irq = stack[1].irq
      /\ stack'[1].spurious = stack[1].spurious
      /\ stack'[1].step = IF Len(stack) = 1 THEN "return" ELSE stack[1].step
    BY <1>1, <1>2, <1>3, TopInv
<1>5. Waiting(stack[1]) <=> Waiting(stack'[1])
    BY <1>3, <1>4 DEF Waiting
<1>6. InService'
    BY <1>1, <1>4, <1>5 DEF IInv, InService, Waiting, MasterLine
<1> QED
    BY <1>4, <1>6 DEF IInv

LEMMA HandlerReturnsInv == IInv /\ HandlerReturns => IInv'
<1> SUFFICES ASSUME IInv, HandlerReturns PROVE IInv'
    OBVIOUS
<1>1. "eoi" \in Steps /\ TopGoesTo("eoi") /\ UNCHANGED <<imr, irr, isr>>
    BY DEF HandlerReturns, Steps, pics
<1>2. isr' \in [Pics -> SUBSET LineSet]
    BY <1>1, RegisterType DEF IInv
<1>3. Top.irq \in Irqs /\ Top.step = "handler" /\ Len(stack) = 1 /\ Top = stack[1] /\ stack # <<>>
    BY IrqOnTop DEF HandlerReturns
<1>4. /\ TypeOK' /\ SetUpInOrder' /\ FlagFollowsStack' /\ Nesting' /\ OpenLinesHandled'
      /\ stack' # <<>>
      /\ stack'[1].irq = stack[1].irq
      /\ stack'[1].spurious = stack[1].spurious
      /\ stack'[1].step = IF Len(stack) = 1 THEN "eoi" ELSE stack[1].step
    BY <1>1, <1>2, <1>3, TopInv
<1>5. Waiting(stack[1]) <=> Waiting(stack'[1])
    BY <1>3, <1>4 DEF Waiting
<1>6. InService'
    BY <1>1, <1>3, <1>4, <1>5 DEF IInv, InService, Waiting, MasterLine
<1> QED
    BY <1>4, <1>6 DEF IInv

(***************************************************************************)
(* An end of interrupt is sent for the only interrupt there is, so the bit *)
(* of highest priority that it clears is its own; for a spurious one there *)
(* is no bit to clear.                                                     *)
(***************************************************************************)
LEMMA EoiInv == IInv /\ Eoi => IInv'
<1> SUFFICES ASSUME IInv, Eoi PROVE IInv'
    OBVIOUS
<1>1. "return" \in Steps /\ TopGoesTo("return") /\ UNCHANGED <<imr, irr>>
    BY DEF Eoi, Steps
<1>2. isr \in [Pics -> SUBSET LineSet] /\ "pic1" \in Pics
    BY RegisterType DEF IInv, Pics
<1>3. isr' \in [Pics -> SUBSET LineSet] /\ isr'["pic1"] = Cleared("pic1")
    BY <1>2 DEF Eoi, AfterEoi, Cleared, Pics
<1>4. Top.irq \in Irqs /\ Len(stack) = 1 /\ Top = stack[1] /\ stack # <<>>
    BY IrqOnTop DEF Eoi
<1>5. /\ TypeOK' /\ SetUpInOrder' /\ FlagFollowsStack' /\ Nesting' /\ OpenLinesHandled'
      /\ stack' # <<>>
      /\ stack'[1].irq = stack[1].irq
      /\ stack'[1].spurious = stack[1].spurious
      /\ stack'[1].step = IF Len(stack) = 1 THEN "return" ELSE stack[1].step
    BY <1>1, <1>3, <1>4, TopInv
<1>6. ~Waiting(stack'[1])
    BY <1>4, <1>5 DEF Waiting
<1>7. isr["pic1"] = {} \/ \E l \in LineSet : isr["pic1"] = {l}
    BY <1>2 DEF IInv, InService
<1>8. Cleared("pic1") = {}
    BY <1>7, MinSingleton DEF Cleared
<1>9. InService'
    BY <1>1, <1>3, <1>6, <1>8 DEF IInv, InService, Waiting
<1> QED
    BY <1>5, <1>9 DEF IInv

LEMMA IretqInv == IInv /\ Iretq => IInv'
<1> SUFFICES ASSUME IInv, Iretq PROVE IInv'
    OBVIOUS
<1>1. TypeOK /\ Len(stack) \in Nat /\ stack # <<>> /\ Len(stack) \in 1 .. Len(stack)
    BY StackType DEF IInv, Iretq
<1>2. /\ stack' \in Seq(Frames)
      /\ Len(stack') = Len(stack) - 1
      /\ \A i \in 1 .. Len(stack') : stack'[i] = stack[i]
      /\ stack' = <<>> <=> Len(stack) = 1
    BY <1>1, Pop DEF Iretq
<1>3. UNCHANGED <<setup, handlers, imr, irr, isr, call>>
    BY DEF Iretq, pics
<1>4. Top = stack[Len(stack)] /\ Top \in Frames /\ Top.step = "return" /\ enabled' = Top.flag
    BY <1>1, IrqOnTop DEF Iretq
<1>5. enabled' <=> Len(stack) = 1
    BY <1>1, <1>4 DEF IInv, Nesting
<1>6. install = "done"
    BY <1>1 DEF IInv, SetUpInOrder
<1>7. enabled' \in BOOLEAN
    BY <1>4 DEF Frames
<1>8. TypeOK'
    BY <1>1, <1>2, <1>3, <1>7 DEF TypeOK, Frames, setup, LineSet
<1>9. SetUpInOrder' /\ OpenLinesHandled'
    BY <1>3, <1>6 DEF IInv, SetUpInOrder, OpenLinesHandled, setup
<1>10. FlagFollowsStack'
    BY <1>2, <1>3, <1>5, <1>6 DEF FlagFollowsStack, setup
<1>11. Nesting'
  <2>1. \A i \in 1 .. Len(stack') : i \in 1 .. Len(stack)
      BY <1>1, <1>2
  <2> QED
      BY <2>1, <1>2, <1>3 DEF IInv, Nesting
<1>12. InService'
  <2>1. CASE Len(stack) = 1
    <3>1. ~Waiting(stack[1])
        BY <2>1, <1>4 DEF Waiting
    <3> QED
        BY <3>1, <2>1, <1>2, <1>3 DEF IInv, InService
  <2>2. CASE Len(stack) # 1
    <3>1. stack' # <<>> /\ 1 \in 1 .. Len(stack')
        BY <2>2, <1>1, <1>2
    <3>2. stack'[1] = stack[1]
        BY <3>1, <1>2
    <3> QED
        BY <3>1, <3>2, <1>1, <1>3 DEF IInv, InService, Waiting, MasterLine
  <2> QED
      BY <2>1, <2>2
<1> QED
    BY <1>8, <1>9, <1>10, <1>11, <1>12 DEF IInv

LEMMA NextInv == IInv /\ [Next]_vars => IInv'
<1> SUFFICES ASSUME IInv, [Next]_vars PROVE IInv'
    OBVIOUS
<1>1. CASE UNCHANGED vars
    BY <1>1 DEF vars, IInv, TypeOK, SetUpInOrder, FlagFollowsStack, Nesting, OpenLinesHandled, InService,
        Waiting, MasterLine
<1>2. CASE Next
    BY <1>2, InstallInv, RegisterInv, RegisterIsrInv, ReadMaskInv, WriteMaskInv, RaiseInv, DeliverInv,
       SpuriousInv, ExceptionInv, DispatchIrqInv, DispatchExceptionInv, HandlerReturnsInv, EoiInv, IretqInv
       DEF Next, Serve
<1> QED
    BY <1>1, <1>2

(* The inductive invariant holds in every reachable state. *)
THEOREM InterruptsInvariant == Spec => []IInv
BY InitInv, NextInv, PTL DEF Spec

-----------------------------------------------------------------------------
(***************************************************************************)
(* The properties of the interrupt machinery.                              *)
(***************************************************************************)

(***************************************************************************)
(* The tables, the registers of the controllers, the registration in       *)
(* progress and the stack of interrupted contexts always have their types, *)
(* for any number of lines and of interrupts.                              *)
(***************************************************************************)
THEOREM TypeCorrect == Spec => []TypeOK
<1>1. IInv => TypeOK
    BY DEF IInv
<1> QED
    BY <1>1, InterruptsInvariant, PTL

(***************************************************************************)
(* isr_install enables interrupts last: whatever the firmware left pending *)
(* and unmasked, every interrupt taken finds the table loaded, its gate    *)
(* set and the controllers remapped.                                       *)
(***************************************************************************)
THEOREM InterruptsTakenWhenReady == Spec => []TakenWhenReady
<1>1. IInv => TakenWhenReady
  <2> SUFFICES ASSUME IInv, NEW i \in DOMAIN stack
               PROVE  loaded /\ remapped /\ stack[i].irq \in gates
      BY DEF TakenWhenReady
  <2>1. stack # <<>> /\ stack[i] \in Frames
      BY StackType DEF IInv
  <2>2. install = "done"
      BY <2>1 DEF IInv, SetUpInOrder
  <2> QED
      BY <2>1, <2>2 DEF IInv, SetUpInOrder, Frames
<1> QED
    BY <1>1, InterruptsInvariant, PTL

(***************************************************************************)
(* register_irq_handler opens a line after the handler is in place, and    *)
(* opens no other one although the mask it writes was read earlier: every  *)
(* interrupt that a device raised finds its handler.                       *)
(***************************************************************************)
THEOREM InterruptsHandled == Spec => []HandlerFound
<1>1. IInv => HandlerFound
    BY StackType DEF IInv, Nesting, HandlerFound
<1> QED
    BY <1>1, InterruptsInvariant, PTL

(***************************************************************************)
(* pic_send_eoi clears the bit of the interrupt it is sent for: the first  *)
(* controller has in service exactly the interrupts whose dispatch has not *)
(* ended, with any nesting of exceptions and any spurious interrupts.      *)
(***************************************************************************)
THEOREM EoiClearsItsOwn == Spec => []ServiceMatchesStack
<1>1. IInv => ServiceMatchesStack
  <2> SUFFICES ASSUME IInv
               PROVE  isr["pic1"] = {MasterLine(f.irq) : f \in {g \in Range(stack) : Waiting(g)}}
      BY DEF ServiceMatchesStack
  <2>1. /\ Len(stack) \in Nat /\ DOMAIN stack = 1 .. Len(stack)
        /\ stack = <<>> <=> Len(stack) = 0
      BY StackType DEF IInv
  <2>2. \A g : g \in Range(stack) <=> \E i \in 1 .. Len(stack) : g = stack[i]
      BY <2>1 DEF Range
  <2>3. \A g : g \in Range(stack) /\ Waiting(g) <=> stack # <<>> /\ Waiting(stack[1]) /\ g = stack[1]
    <3>1. \A g : g \in Range(stack) /\ Waiting(g) => stack # <<>> /\ g = stack[1]
        BY <2>1, <2>2 DEF IInv, Nesting, Waiting
    <3>2. stack # <<>> => stack[1] \in Range(stack)
        BY <2>1, <2>2
    <3> QED
        BY <3>1, <3>2
  <2>4. CASE stack # <<>> /\ Waiting(stack[1])
    <3>1. {g \in Range(stack) : Waiting(g)} = {stack[1]}
        BY <2>3, <2>4
    <3> QED
        BY <3>1, <2>4 DEF IInv, InService
  <2>5. CASE ~(stack # <<>> /\ Waiting(stack[1]))
    <3>1. {g \in Range(stack) : Waiting(g)} = {}
        BY <2>3, <2>5
    <3> QED
        BY <3>1, <2>5 DEF IInv, InService
  <2> QED
      BY <2>4, <2>5
<1> QED
    BY <1>1, InterruptsInvariant, PTL

(***************************************************************************)
(* A gate disables interrupts until iretq: at most one frame on the stack  *)
(* is an interrupt of the controllers, so that a handler that is not       *)
(* re-entrant is safe.                                                     *)
(***************************************************************************)
THEOREM HandlersNotReentered == Spec => []OneIrqAtATime
<1>1. IInv => OneIrqAtATime
  <2> SUFFICES ASSUME IInv PROVE Cardinality({i \in DOMAIN stack : stack[i].irq \in Irqs}) <= 1
      BY DEF OneIrqAtATime
  <2> DEFINE S == {i \in DOMAIN stack : stack[i].irq \in Irqs}
  <2>1. S \subseteq {1}
      BY StackType DEF IInv, Nesting
  <2>2. IsFiniteSet({1}) /\ Cardinality({1}) = 1
      BY FS_Singleton
  <2> HIDE DEF S
  <2>3. Cardinality(S) <= 1
      BY <2>1, <2>2, FS_Subset
  <2> QED
      BY <2>3 DEF S
<1> QED
    BY <1>1, InterruptsInvariant, PTL

=============================================================================
