----------------------------- MODULE Interrupts -----------------------------
(***************************************************************************)
(* Interrupt set-up, registration and dispatch (kernel/src/cpu/isr.c,      *)
(* idt.c, isr_defs.asm) and the driver of the two 8259 controllers         *)
(* (kernel/src/driver/pic.c).                                              *)
(*                                                                         *)
(* One processor: the kernel's own code runs when no frame is on the       *)
(* stack, a gate disables interrupts until iretq, exceptions may nest in a *)
(* handler.  Devices raise lines at any time.  The controllers are         *)
(* hardware, modelled as the driver programs them: fixed priorities, edges *)
(* kept in irr, and an end of interrupt that clears the bit of highest     *)
(* priority in service.  Line l of the first controller is interrupt l,    *)
(* line l of the second one Lines + l.                                     *)
(*                                                                         *)
(* Operators named for what they get wrong are faulty variants of the      *)
(* definition after them.                                                  *)
(***************************************************************************)
EXTENDS Integers, Sequences, FiniteSets, FiniteSetsExt, SequencesExt

CONSTANTS
    Lines,          \* lines of a controller (8)
    Cascade,        \* line of the first controller the second one is wired to (2)
    Exceptions,     \* exceptions the processor may raise, not interrupt numbers
    BootMasks,      \* masks the firmware may have left, per controller
    MaxRaises,      \* bound: times devices raise a line
    MaxExceptions   \* bound: exceptions

Irqs == 0 .. (2 * Lines - 1)
Pics == {"pic1", "pic2"}
PicOf(irq) == IF irq >= Lines THEN "pic2" ELSE "pic1"
LineUnshifted(irq) == irq

(* pic_set_mask and pic_clear_mask subtract 8 from a line of the second controller. *)
LineOf(irq) == irq % Lines

ASSUME InterruptsAssumption ==
    /\ Lines \in Nat \ {0}
    /\ Cascade \in 0 .. (Lines - 1)
    /\ Exceptions \cap Irqs = {}
    /\ BootMasks \subseteq [Pics -> SUBSET (0 .. (Lines - 1))]
    /\ MaxRaises \in Nat /\ MaxExceptions \in Nat

VARIABLES
    install,    \* what isr_install does next, "done" after it
    gates,      \* interrupts whose gate is set in main_idt
    remapped,   \* the controllers use the vectors IRQ_OFFSET1 and IRQ_OFFSET2
    loaded,     \* lidt was executed
    enabled,    \* the interrupt flag
    handlers,   \* interrupts with an entry in registered_handlers
    imr, irr, isr,   \* mask, request and in-service registers of each controller
    call,       \* register_irq_handler in progress: [step, irq, mask]
    stack,      \* interrupted contexts: [irq, step, flag, spurious]
    raises, faults   \* lines raised and exceptions so far, only to bound them

vars == <<install, gates, remapped, loaded, enabled, handlers, imr, irr, isr,
          call, stack, raises, faults>>

pics == <<imr, irr, isr>>
setup == <<install, gates, remapped, loaded>>

NoCall == [step |-> "none", irq |-> 0, mask |-> {}]

(* bootstrap.asm has disabled interrupts; the firmware used the controllers. *)
Init ==
    /\ install = "clear"
    /\ gates = {} /\ remapped = FALSE /\ loaded = FALSE /\ enabled = FALSE
    /\ handlers = {}
    /\ imr \in BootMasks
    /\ irr = [p \in Pics |-> {}] /\ isr = [p \in Pics |-> {}]
    /\ call = NoCall
    /\ stack = <<>>
    /\ raises = 0 /\ faults = 0

-----------------------------------------------------------------------------
(***************************************************************************)
(* isr_install, in the order of the code.                                  *)
(***************************************************************************)

InstallStep(now, next) ==
    /\ install = now
    /\ install' = next
    /\ stack = <<>>
    /\ UNCHANGED <<irr, isr, call, stack, raises, faults>>

(* clear_idt and the memset of registered_handlers *)
ClearAll ==
    /\ InstallStep("clear", "gates")
    /\ gates' = {} /\ handlers' = {}
    /\ UNCHANGED <<remapped, loaded, enabled, imr>>

SetGates ==
    /\ InstallStep("gates", "remap")
    /\ gates' = Irqs \cup Exceptions
    /\ UNCHANGED <<remapped, loaded, enabled, handlers, imr>>

(* pic_remap restores the masks it found. *)
Remap ==
    /\ InstallStep("remap", "mask")
    /\ remapped' = TRUE
    /\ UNCHANGED <<gates, loaded, enabled, handlers, imr>>

(* pic_set_mask for every interrupt *)
MaskAll ==
    /\ InstallStep("mask", "lidt")
    /\ imr' = [p \in Pics |-> 0 .. (Lines - 1)]
    /\ UNCHANGED <<gates, remapped, loaded, enabled, handlers>>

EnabledTooEarly ==
    /\ InstallStep("lidt", "sti")
    /\ enabled' = TRUE
    /\ UNCHANGED <<gates, remapped, loaded, handlers, imr>>

SetIdt ==
    /\ InstallStep("lidt", "sti")
    /\ loaded' = TRUE
    /\ UNCHANGED <<gates, remapped, enabled, handlers, imr>>

Sti ==
    /\ InstallStep("sti", "done")
    /\ enabled' = TRUE
    /\ UNCHANGED <<gates, remapped, loaded, handlers, imr>>

-----------------------------------------------------------------------------
(***************************************************************************)
(* register_irq_handler.  The mask register is read, changed and written   *)
(* by three instructions, and interrupts are enabled between them.         *)
(***************************************************************************)

Kernel == install = "done" /\ stack = <<>>

(***************************************************************************)
(* register_isr_handler refuses an interrupt that has a handler.  A line   *)
(* the controllers do not have and a NULL handler, neither of which is     *)
(* refused, are not among the calls.                                       *)
(***************************************************************************)
Register(irq) ==
    /\ Kernel
    /\ call.step = "none"
    /\ irq \notin handlers
    /\ handlers' = handlers \cup {irq}
    /\ call' = [step |-> "read_mask", irq |-> irq, mask |-> {}]
    /\ UNCHANGED <<setup, enabled, pics, stack, raises, faults>>

(* register_isr_handler alone, for an exception *)
RegisterIsr(e) ==
    /\ Kernel
    /\ call.step = "none"
    /\ e \notin handlers
    /\ handlers' = handlers \cup {e}
    /\ UNCHANGED <<setup, enabled, pics, call, stack, raises, faults>>

ReadMask ==
    /\ Kernel
    /\ call.step = "read_mask"
    /\ call' = [call EXCEPT !.step = "write_mask", !.mask = imr[PicOf(call.irq)]]
    /\ UNCHANGED <<setup, enabled, handlers, pics, stack, raises, faults>>

WholeMaskCleared ==
    /\ Kernel
    /\ call.step = "write_mask"
    /\ imr' = [imr EXCEPT ![PicOf(call.irq)] = {}]
    /\ call' = NoCall
    /\ UNCHANGED <<setup, enabled, handlers, irr, isr, stack, raises, faults>>

WriteMask ==
    /\ Kernel
    /\ call.step = "write_mask"
    /\ imr' = [imr EXCEPT ![PicOf(call.irq)] = call.mask \ {LineOf(call.irq)}]
    /\ call' = NoCall
    /\ UNCHANGED <<setup, enabled, handlers, irr, isr, stack, raises, faults>>

-----------------------------------------------------------------------------
(***************************************************************************)
(* The controllers and the processor.                                      *)
(***************************************************************************)

(* A device raises its line; the cascade line is the second controller's own. *)
Raise(irq) ==
    /\ raises < MaxRaises
    /\ irq # Cascade
    /\ LineOf(irq) \notin irr[PicOf(irq)]
    /\ irr' = [irr EXCEPT ![PicOf(irq)] = @ \cup {LineOf(irq)}]
    /\ raises' = raises + 1
    /\ UNCHANGED <<setup, enabled, handlers, imr, isr, call, stack, faults>>

(* Requests of a controller that nothing of their priority or above holds up. *)
Pending(p, requests) == {l \in requests \ imr[p] : \A k \in isr[p] : l < k}

SlaveRequests == Pending("pic2", irr["pic2"])

MasterRequests ==
    Pending("pic1", irr["pic1"] \cup (IF SlaveRequests = {} THEN {} ELSE {Cascade}))

Frame(irq, spurious) ==
    [irq |-> irq, step |-> "dispatch", flag |-> enabled, spurious |-> spurious]

Interrupt(irq, spurious) ==
    /\ stack' = Append(stack, Frame(irq, spurious))
    /\ enabled' = FALSE
    /\ UNCHANGED <<setup, handlers, imr, call, raises, faults>>

(* The request of highest priority; a slave's is in service in both. *)
Deliver ==
    /\ enabled
    /\ MasterRequests # {}
    /\ LET l == Min(MasterRequests)
           s == Min(SlaveRequests)
       IN  IF l = Cascade
           THEN /\ irr' = [irr EXCEPT !["pic2"] = @ \ {s}]
                /\ isr' = [isr EXCEPT !["pic1"] = @ \cup {l}, !["pic2"] = @ \cup {s}]
                /\ Interrupt(Lines + s, FALSE)
           ELSE /\ irr' = [irr EXCEPT !["pic1"] = @ \ {l}]
                /\ isr' = [isr EXCEPT !["pic1"] = @ \cup {l}]
                /\ Interrupt(l, FALSE)

(* A request that is gone when it is acknowledged arrives as the last line. *)
Spurious ==
    /\ enabled
    /\ raises < MaxRaises
    /\ install = "done"
    /\ stack' = Append(stack, Frame(Lines - 1, TRUE))
    /\ enabled' = FALSE
    /\ raises' = raises + 1
    /\ UNCHANGED <<setup, handlers, pics, call, faults>>

Top == Last(stack)

(* Exceptions are not masked; handlers cause them too. *)
Exception(e) ==
    /\ install = "done"
    /\ faults < MaxExceptions
    /\ stack # <<>> => Top.step = "handler"
    /\ faults' = faults + 1
    /\ stack' = Append(stack, Frame(e, FALSE))
    /\ enabled' = FALSE
    /\ UNCHANGED <<setup, handlers, pics, call, raises>>

-----------------------------------------------------------------------------
(***************************************************************************)
(* root_isr_handler.                                                       *)
(***************************************************************************)

TopGoesTo(step) ==
    /\ stack # <<>>
    /\ stack' = [stack EXCEPT ![Len(stack)].step = step]
    /\ UNCHANGED <<setup, enabled, handlers, call, raises, faults>>

(* handle_irq; without a handler it prints a message. *)
DispatchIrq ==
    /\ stack # <<>>
    /\ Top.step = "dispatch"
    /\ Top.irq \in Irqs
    /\ TopGoesTo(IF Top.irq \in handlers THEN "handler" ELSE "eoi")
    /\ UNCHANGED pics

ExceptionEndsInterrupt ==
    /\ stack # <<>>
    /\ Top.step = "dispatch"
    /\ Top.irq \in Exceptions
    /\ TopGoesTo("eoi")
    /\ UNCHANGED pics

(***************************************************************************)
(* An exception's handler is looked up and not called: without one a       *)
(* message is printed, with one nothing is done.                           *)
(***************************************************************************)
DispatchException ==
    /\ stack # <<>>
    /\ Top.step = "dispatch"
    /\ Top.irq \in Exceptions
    /\ TopGoesTo("return")
    /\ UNCHANGED pics

HandlerReturns ==
    /\ stack # <<>>
    /\ Top.step = "handler"
    /\ TopGoesTo("eoi")
    /\ UNCHANGED pics

Cleared(p) == isr[p] \ (IF isr[p] = {} THEN {} ELSE {Min(isr[p])})

(* pic_send_eoi: the second controller only for a number of 8 or more. *)
AfterEoi(irq_number) ==
    [isr EXCEPT !["pic1"] = Cleared("pic1"),
                !["pic2"] = IF irq_number >= Lines THEN Cleared("pic2") ELSE @]

NoEoi ==
    /\ stack # <<>>
    /\ Top.step = "eoi"
    /\ TopGoesTo("return")
    /\ UNCHANGED pics

(* The number is relative to the controller's own offset, so always below 8. *)
Eoi ==
    /\ stack # <<>>
    /\ Top.step = "eoi"
    /\ isr' = AfterEoi(LineOf(Top.irq))
    /\ TopGoesTo("return")
    /\ UNCHANGED <<imr, irr>>

FlagForgotten ==
    /\ stack # <<>>
    /\ Top.step = "return"
    /\ stack' = Front(stack)
    /\ enabled' = TRUE
    /\ UNCHANGED <<setup, handlers, pics, call, raises, faults>>

(* sti takes effect after iretq, which restores the interrupted flags. *)
Iretq ==
    /\ stack # <<>>
    /\ Top.step = "return"
    /\ stack' = Front(stack)
    /\ enabled' = Top.flag
    /\ UNCHANGED <<setup, handlers, pics, call, raises, faults>>

-----------------------------------------------------------------------------

Install == ClearAll \/ SetGates \/ Remap \/ MaskAll \/ SetIdt \/ Sti

Serve == Deliver \/ DispatchIrq \/ DispatchException \/ HandlerReturns \/ Eoi \/ Iretq

Next ==
    \/ Install
    \/ \E irq \in Irqs : Register(irq) \/ Raise(irq)
    \/ ReadMask \/ WriteMask
    \/ Serve
    \/ Spurious
    \/ \E e \in Exceptions : RegisterIsr(e) \/ Exception(e)

(***************************************************************************)
(* The processor runs on and takes interrupts while it can; no device has  *)
(* to raise a line.                                                        *)
(***************************************************************************)
Spec == Init /\ [][Next]_vars /\ WF_vars(Serve) /\ WF_vars(Install) /\ WF_vars(ReadMask \/ WriteMask)

-----------------------------------------------------------------------------

Steps == {"dispatch", "handler", "eoi", "return"}

(* Type correctness of the interrupt machinery. *)
TypeOK ==
    /\ install \in {"clear", "gates", "remap", "mask", "lidt", "sti", "done"}
    /\ gates \subseteq Irqs \cup Exceptions
    /\ handlers \subseteq Irqs \cup Exceptions
    /\ remapped \in BOOLEAN /\ loaded \in BOOLEAN /\ enabled \in BOOLEAN
    /\ \A reg \in {imr, irr, isr} : reg \in [Pics -> SUBSET (0 .. (Lines - 1))]
    /\ call \in [step : {"none", "read_mask", "write_mask"}, irq : Irqs,
                 mask : SUBSET (0 .. (Lines - 1))]
    /\ stack \in Seq([irq : Irqs \cup Exceptions, step : Steps, flag : BOOLEAN,
                      spurious : BOOLEAN])

(***************************************************************************)
(* The processor takes an interrupt only when the table is loaded, has a   *)
(* gate for it, and the controllers no longer use the vectors of the       *)
(* exceptions, whatever the firmware left pending and unmasked.            *)
(***************************************************************************)
TakenWhenReady ==
    \A i \in DOMAIN stack : loaded /\ remapped /\ stack[i].irq \in gates

(***************************************************************************)
(* An interrupt a device raised is dispatched to a registered handler, in  *)
(* every interleaving of registration and interrupts: the line is unmasked *)
(* only after the handler is in place.  The message for an interrupt       *)
(* without a handler is left to spurious ones.                             *)
(***************************************************************************)
HandlerFound ==
    \A i \in DOMAIN stack :
        stack[i].irq \in Irqs /\ ~stack[i].spurious => stack[i].irq \in handlers

Waiting(f) == f.irq \in Irqs /\ ~f.spurious /\ f.step # "return"
MasterLine(irq) == IF irq >= Lines THEN Cascade ELSE irq

(***************************************************************************)
(* The first controller has in service exactly the interrupts whose        *)
(* dispatch has not ended: exceptions and spurious interrupts in between   *)
(* do not make an end of interrupt clear another one's bit or leave one.   *)
(***************************************************************************)
ServiceMatchesStack ==
    isr["pic1"] = {MasterLine(f.irq) : f \in {g \in Range(stack) : Waiting(g)}}

(***************************************************************************)
(* At most one interrupt of the controllers is handled at a time: handlers *)
(* need not be re-entrant.  Only exceptions nest.                          *)
(***************************************************************************)
OneIrqAtATime ==
    Cardinality({i \in DOMAIN stack : stack[i].irq \in Irqs}) <= 1

(***************************************************************************)
(* Every line of the first controller that is raised while it is unmasked  *)
(* is eventually served, whatever the second controller is stuck with.     *)
(***************************************************************************)
RaisedIsServed ==
    \A l \in (0 .. (Lines - 1)) \ {Cascade} :
        install = "done" /\ l \in irr["pic1"] /\ l \notin imr["pic1"]
            ~> \E i \in DOMAIN stack : stack[i].irq = l /\ stack[i].step = "handler"

=============================================================================
