------------------------------- MODULE MCBuddy -------------------------------
(* Instances of BuddyAllocator for TLC. *)
EXTENDS BuddyAllocator

(* Two whole blocks of MAX_ORDER, one next to the other. *)
MCWhole == {[start |-> 0, end |-> 8]}

(* A hole of one page, so that single pages and pairs are left around it. *)
MCHole == {[start |-> 0, end |-> 5], [start |-> 6, end |-> 8]}

(* Two regions that touch: no block may be taken across the boundary. *)
MCTouching == {[start |-> 0, end |-> 3], [start |-> 3, end |-> 8]}

MCMemoryMaps == {MCWhole, MCHole, MCTouching}
MCWholeOnly == {MCWhole}

=============================================================================
