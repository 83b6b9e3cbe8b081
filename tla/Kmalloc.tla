------------------------------ MODULE Kmalloc ------------------------------
(***************************************************************************)
(* How kmalloc chooses the cache for a size (kernel/src/mm/kmalloc.c).     *)
(* The caches themselves are SlabCache; cache i has cells of               *)
(* kmalloc_sizes[i + 1] bytes.                                             *)
(***************************************************************************)
EXTENDS Integers, Sequences

kmalloc_sizes == <<8, 16, 24, 48, 96, 120, 240, 480, 1016, 2040>>

MAX_KMALLOC_SIZE == 2040
Caches == 0 .. (Len(kmalloc_sizes) - 1)

PrevEights(i) == IF i = 0 THEN 0 ELSE kmalloc_sizes[i] \div 8

(***************************************************************************)
(* kmalloc_init gives cache i the indices above the previous size in       *)
(* eights, up to its own.  Index 0 keeps the initial 0, and the last one   *)
(* is the byte after the array, taken here to be padding.                  *)
(***************************************************************************)
cache_idx_map ==
    [eights \in 0 .. (MAX_KMALLOC_SIZE \div 8) |->
        IF eights = 0 THEN 0
        ELSE CHOOSE i \in Caches :
                PrevEights(i) < eights /\ eights <= kmalloc_sizes[i + 1] \div 8]

NoCell == [cache |-> -1, size |-> 0]

(* The cache and the size of the cell kmalloc returns, NoCell for NULL. *)
kmalloc(size) ==
    IF size > MAX_KMALLOC_SIZE THEN NoCell
    ELSE LET i == cache_idx_map[(size + 7) \div 8]
         IN  [cache |-> i, size |-> kmalloc_sizes[i + 1]]

=============================================================================
