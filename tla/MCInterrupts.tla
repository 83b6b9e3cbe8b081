---------------------------- MODULE MCInterrupts ----------------------------
(* An instance of Interrupts for TLC: three lines per controller. *)
EXTENDS Interrupts

(* The firmware masked the last lines, or left all of them open. *)
MCBootMasks == {[p \in Pics |-> {2}], [p \in Pics |-> {}]}

=============================================================================
