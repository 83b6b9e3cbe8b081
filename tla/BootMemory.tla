------------------------------ MODULE BootMemory ------------------------------
(***************************************************************************)
(* Physical memory at start-up: the regions of the firmware's map and the  *)
(* early reservations from them (kernel/src/mm/boot_mmap.c), and the part  *)
(* of it that becomes the physical allocator's                             *)
(* (kernel/src/mm/phys_alloc.c, lines 23 to 87).                           *)
(*                                                                         *)
(* Addresses are page numbers.  A region is [free_start, end); the list of *)
(* regions is a sequence.  The operators take the regions as they are and  *)
(* return what they become.                                                *)
(***************************************************************************)
EXTENDS Integers, Sequences, FiniteSets, FiniteSetsExt, SequencesExt

CONSTANTS
    MemoryMaps,     \* firmware's maps: their usable entries, [start, end), in pages
    KernelStart,    \* first page of the kernel image
    KernelEnd,      \* first page after it
    OneMegabyte     \* page number of the first megabyte boundary

ASSUME BootMemoryAssumption ==
    /\ MemoryMaps \subseteq Seq([start : Nat, end : Nat])
    /\ KernelStart \in Nat /\ KernelEnd \in Nat /\ OneMegabyte \in Nat
    /\ \A map \in MemoryMaps : \E i \in DOMAIN map : map[i].start >= OneMegabyte

MaxOfTwo(a, b) == IF a >= b THEN a ELSE b

(***************************************************************************)
(* load_physmem_regions.  The first page is avoided.  A region that starts *)
(* inside the kernel image or right after it is moved to the start of the  *)
(* image; one with the image inside it stays as it is.                     *)
(***************************************************************************)
load_physmem_regions(map) ==
    [i \in DOMAIN map |->
        LET base == MaxOfTwo(map[i].start, 1)
        IN  [free_start |-> IF base \in KernelStart .. KernelEnd THEN KernelStart ELSE base,
             end |-> map[i].end]]

(* Regions with room for n pages; a region is never used to its last page. *)
RegionsWithRoom(regions, n) ==
    {i \in DOMAIN regions : regions[i].end - regions[i].free_start > n}

(* reserve_physmem_region: n pages from the start of the first such region. *)
AfterReserve(regions, n) ==
    [regions EXCEPT ![Min(RegionsWithRoom(regions, n))].free_start = @ + n]

ReservedBase(regions, n) == regions[Min(RegionsWithRoom(regions, n))].free_start

(* __find_allocatable_region: the first region above 1MB to the end of the last one. *)
AllocatableStart(regions) ==
    regions[Min({i \in DOMAIN regions : regions[i].free_start >= OneMegabyte})].free_start

AllocatableEnd(regions) == Last(regions).end

HolesIncluded(regions) == AllocatableStart(regions) .. (AllocatableEnd(regions) - 1)

(* The pages buddy_init takes: those of the range that one region contains. *)
AllocatablePages(regions) ==
    {p \in AllocatableStart(regions) .. (AllocatableEnd(regions) - 1) :
        \E i \in DOMAIN regions : regions[i].free_start <= p /\ p < regions[i].end}

=============================================================================
