----------------------------- MODULE MCPageAlloc -----------------------------
(* Instances of PageAlloc for TLC. *)
EXTENDS PageAlloc

CONSTANTS c1, c2

MCCpus == {c1, c2}

AllAllocate == [allocators |-> MCCpus, frees |-> FALSE]
OneAllocator == [allocators |-> {c1}, frees |-> TRUE]

(* The uses of the list that need no protection against a page coming back. *)
MCSafeRoles == {AllAllocate, OneAllocator}

(* Every processor allocates and frees. *)
MCAnyRole == {[allocators |-> MCCpus, frees |-> TRUE]}

(* The code's own wiring: nobody calls _pfa_free_page. *)
MCCodeRole == {AllAllocate}

=============================================================================
