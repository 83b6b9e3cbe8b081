------------------------------- MODULE MCText -------------------------------
(***************************************************************************)
(* The console and printk's conversions for TLC.  They share no state      *)
(* (vprintk prints through any putc), so each is explored with the other   *)
(* in its initial state.                                                   *)
(***************************************************************************)
EXTENDS Console, Printk

vars == <<consoleVars, printkVars>>

Init == ConsoleInit /\ PrintkInit

Next ==
    \/ PrintkInit /\ ConsoleNext /\ UNCHANGED printkVars
    \/ ConsoleInit /\ PrintkNext /\ UNCHANGED consoleVars

Spec == Init /\ [][Next]_vars

(* Type correctness of the console and of a conversion. *)
TypeOK == ConsoleTypeOK /\ PrintkTypeOK

=============================================================================
