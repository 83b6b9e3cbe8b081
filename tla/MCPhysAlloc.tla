---------------------------- MODULE MCPhysAlloc ----------------------------
(* An instance of PhysAlloc for TLC: two blocks of sixteen pages. *)
EXTENDS PhysAlloc

MCSizes == {1, 6, 15}

=============================================================================
