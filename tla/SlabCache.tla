------------------------------ MODULE SlabCache ------------------------------
(***************************************************************************)
(* One object cache of the slab allocator (kernel/src/mm/slab.c,           *)
(* kernel/include/mm/slab.h): slabs on three doubly linked lists, free     *)
(* cells chained inside each slab, and the cache's counters.               *)
(*                                                                         *)
(* Nothing in slab.c waits or calls back, so a call is one step.  The      *)
(* helpers of the code are operators from a cache state to a cache state,  *)
(* applied in the order of the code.  A slab is numbered in the order in   *)
(* which the cache obtains it; a cell is its index in the slab; NULL is    *)
(* NoSlab for a slab, and NoCell for a cell and for the index that is      *)
(* computed from it.                                                       *)
(*                                                                         *)
(* FirstFreeForgotten and the other operators named for what they get      *)
(* wrong are faulty variants of the definition after them, used to check   *)
(* that a property notices the fault.                                      *)
(***************************************************************************)
EXTENDS Integers, FiniteSets

CONSTANTS
    MaxSlabs,       \* bound: slabs the cache may obtain
    objs_per_slab,  \* cells in a slab
    Mod16, Mod32    \* the counters are u16_t and u32_t

ASSUME SlabAssumption ==
    /\ MaxSlabs \in Nat \ {0}
    /\ objs_per_slab \in Nat \ {0, 1}
    /\ Mod16 \in Nat \ {0}
    /\ Mod32 \in Nat \ {0}

NoSlab == 0
NoCell == -1
Slabs == 1 .. MaxSlabs
Cells == 0 .. (objs_per_slab - 1)
Lists == {"free", "partial", "full"}

VARIABLES
    cache,      \* the kmem_cache_t and the slabs it has
    made,       \* number of slabs obtained so far: slabs 1 .. made exist
    handed      \* objects the callers have: pairs of slab and cell

slabVars == <<cache, made, handed>>

(***************************************************************************)
(* A cache state: the list heads, the headers of the slabs (prev, next,    *)
(* first_free_idx, free_count), the next_free link of every cell, the slab *)
(* counters total_free_slabs, total_partial_slabs and total_full_slabs,    *)
(* total_free_objects and allocated_objects.                               *)
(***************************************************************************)
slab_cache_init ==
    [head |-> [l \in Lists |-> NoSlab],
     prev |-> [s \in Slabs |-> NoSlab],
     next |-> [s \in Slabs |-> NoSlab],
     first |-> [s \in Slabs |-> 0],
     count |-> [s \in Slabs |-> 0],
     link |-> [s \in Slabs |-> [i \in Cells |-> NoCell]],
     total |-> [l \in Lists |-> 0],
     freeObjects |-> 0,
     allocated |-> 0]

UnlinkOneWay(c, s, l) ==
    IF c.prev[s] # NoSlab
    THEN [c EXCEPT !.next[c.prev[s]] = c.next[s]]
    ELSE [c EXCEPT !.head[l] = c.next[s]]

unlink_slab(c, s, l) ==
    LET d == IF c.prev[s] # NoSlab
             THEN [c EXCEPT !.next[c.prev[s]] = c.next[s]]
             ELSE [c EXCEPT !.head[l] = c.next[s]]
    IN  IF c.next[s] # NoSlab THEN [d EXCEPT !.prev[c.next[s]] = c.prev[s]] ELSE d

link_slab(c, s, l) ==
    LET d == [c EXCEPT !.next[s] = c.head[l], !.prev[s] = NoSlab]
    IN  [IF c.head[l] # NoSlab THEN [d EXCEPT !.prev[c.head[l]] = s] ELSE d
            EXCEPT !.head[l] = s]

slab_init(c, s) ==
    [c EXCEPT !.first[s] = 0,
              !.count[s] = objs_per_slab,
              !.link[s] = [i \in Cells |-> IF i < objs_per_slab - 1 THEN i + 1 ELSE NoCell]]

Move(c, s, from, to) == link_slab(unlink_slab(c, s, from), s, to)

CountUnbounded(c, l, n) == [c EXCEPT !.total[l] = @ + n]

Count(c, l, n) == [c EXCEPT !.total[l] = (@ + n) % Mod16]

(* Initialize slab s and put it on the free list. *)
AddFree(c, s) ==
    [link_slab(slab_init(c, s), s, "free")
        EXCEPT !.freeObjects = (@ + objs_per_slab) % Mod32]

(***************************************************************************)
(* The cache after i more slabs, each initialized and put on the free list *)
(* in the order in which it is obtained.                                   *)
(***************************************************************************)
Added[i \in 0 .. (MaxSlabs - made)] ==
    IF i = 0 THEN cache ELSE AddFree(Added[i - 1], made + i)

-----------------------------------------------------------------------------

SlabInit ==
    /\ cache = slab_cache_init
    /\ made = 0
    /\ handed = {}

slab_cache_reserve(objects) ==
    LET n == (objects + objs_per_slab - 1) \div objs_per_slab
    IN  /\ made + n <= MaxSlabs
        /\ cache' = Count(Added[n], "free", n)
        /\ made' = made + n
        /\ UNCHANGED handed

(* slab_cache_prealloc of n slabs: it leaves total_free_slabs alone. *)
slab_cache_prealloc(n) ==
    /\ made + n <= MaxSlabs
    /\ cache' = Added[n]
    /\ made' = made + n
    /\ UNCHANGED handed

(***************************************************************************)
(* slab_alloc takes the first free cell of s, the head of the partial      *)
(* list, and moves s to the full list when it has no cell left.            *)
(***************************************************************************)
FirstFreeForgotten(c, s) ==
    LET d == [c EXCEPT !.count[s] = @ - 1,
                       !.allocated = (@ + 1) % Mod32,
                       !.freeObjects = (@ - 1) % Mod32]
    IN  IF d.count[s] = 0
        THEN Count(Count(Move(d, s, "partial", "full"), "partial", -1), "full", 1)
        ELSE d

TakeCell(c, s) ==
    LET d == [c EXCEPT !.first[s] = c.link[s][c.first[s]],
                       !.count[s] = @ - 1,
                       !.allocated = (@ + 1) % Mod32,
                       !.freeObjects = (@ - 1) % Mod32]
    IN  IF d.count[s] = 0
        THEN Count(Count(Move(d, s, "partial", "full"), "partial", -1), "full", 1)
        ELSE d

Alone(c, s) == [c EXCEPT !.prev[s] = NoSlab, !.next[s] = NoSlab]

Hand(c, s) ==
    /\ cache' = TakeCell(c, s)
    /\ handed' = handed \cup {<<s, c.first[s]>>}

AllocPartial ==
    /\ cache.head["partial"] # NoSlab
    /\ Hand(cache, cache.head["partial"])
    /\ UNCHANGED made

FreeBeforePartial ==
    LET s == cache.head["free"]
    IN  /\ s # NoSlab
        /\ Hand(Count(Count(Move(cache, s, "free", "partial"), "free", -1), "partial", 1), s)
        /\ UNCHANGED made

AllocFree ==
    LET s == cache.head["free"]
    IN  /\ cache.head["partial"] = NoSlab
        /\ s # NoSlab
        /\ Hand(Alone(Count(Count(Move(cache, s, "free", "partial"), "free", -1), "partial", 1), s), s)
        /\ UNCHANGED made

(***************************************************************************)
(* A new slab from vm_alloc_block: total_free_objects is not told of its   *)
(* cells.  Obtaining it comes back to this cache only for the cache that   *)
(* the buddy allocator itself uses, which is PhysAlloc's matter.           *)
(***************************************************************************)
AllocNew ==
    LET s == made + 1
    IN  /\ cache.head["partial"] = NoSlab
        /\ cache.head["free"] = NoSlab
        /\ s <= MaxSlabs
        /\ made' = s
        /\ Hand(Alone(Count([slab_init(cache, s) EXCEPT !.head["partial"] = s], "partial", 1), s), s)

(***************************************************************************)
(* slab_free of an object a caller has.  A slab that was full becomes      *)
(* partial, one that is now empty becomes free; both branches count the    *)
(* move as one from full to partial.                                       *)
(***************************************************************************)
slab_free(s, i) ==
    LET d == [cache EXCEPT !.link[s][i] = IF cache.count[s] = 0 THEN NoCell ELSE cache.first[s],
                           !.first[s] = i,
                           !.count[s] = @ + 1,
                           !.allocated = (@ - 1) % Mod32,
                           !.freeObjects = (@ + 1) % Mod32]
    IN  /\ cache' = IF cache.count[s] = 0
                    THEN Count(Count(Move(d, s, "full", "partial"), "full", -1), "partial", 1)
                    ELSE IF d.count[s] = objs_per_slab
                    THEN Count(Count(Move(d, s, "partial", "free"), "full", -1), "partial", 1)
                    ELSE d
        /\ handed' = handed \ {<<s, i>>}
        /\ UNCHANGED made

SlabNext ==
    \/ \E n \in 1 .. (2 * objs_per_slab) : slab_cache_reserve(n)
    \/ \E n \in 1 .. 2 : slab_cache_prealloc(n)
    \/ AllocPartial
    \/ AllocFree
    \/ AllocNew
    \/ \E o \in handed : slab_free(o[1], o[2])

SlabSpec == SlabInit /\ [][SlabNext]_slabVars

-----------------------------------------------------------------------------
(***************************************************************************)
(* Properties.                                                             *)
(***************************************************************************)

Made == 1 .. made

(* The cache and its slabs: links point to slabs and cells, counters have a width. *)
Caches ==
    [head : [Lists -> Slabs \cup {NoSlab}],
     prev : [Slabs -> Slabs \cup {NoSlab}],
     next : [Slabs -> Slabs \cup {NoSlab}],
     first : [Slabs -> Cells \cup {NoCell}],
     count : [Slabs -> 0 .. objs_per_slab],
     link : [Slabs -> [Cells -> Cells \cup {NoCell}]],
     total : [Lists -> 0 .. (Mod16 - 1)],
     freeObjects : 0 .. (Mod32 - 1),
     allocated : 0 .. (Mod32 - 1)]

(* The counters keep their width, links point to slabs and cells. *)
SlabTypeOK ==
    /\ cache \in Caches
    /\ made \in 0 .. MaxSlabs
    /\ handed \subseteq Slabs \X Cells

(* The slab i links behind the head of list l. *)
Walk(l) ==
    LET w[i \in 0 .. MaxSlabs] ==
            IF i = 0 THEN cache.head[l]
            ELSE IF w[i - 1] = NoSlab THEN NoSlab ELSE cache.next[w[i - 1]]
    IN  w

On(l) == {Walk(l)[i] : i \in 0 .. MaxSlabs} \ {NoSlab}

(***************************************************************************)
(* Every slab is on exactly one list, the one its free_count calls for,    *)
(* and the lists are well formed: they end, and prev is the inverse of     *)
(* next (test_slab.c, __validate_slab_list).  An unlink through the wrong  *)
(* head or with a stale prev would lose a slab or tie two lists together.  *)
(***************************************************************************)
ListsSound ==
    /\ \A l \in Lists : Walk(l)[MaxSlabs] = NoSlab
    /\ \A l \in Lists : \A s \in On(l) :
          /\ cache.prev[s] = NoSlab <=> s = cache.head[l]
          /\ cache.next[s] # NoSlab => cache.prev[cache.next[s]] = s
    /\ \A s \in Made :
          /\ s \in On("free") <=> cache.count[s] = objs_per_slab
          /\ s \in On("partial") <=> cache.count[s] \in 1 .. (objs_per_slab - 1)
          /\ s \in On("full") <=> cache.count[s] = 0

(* The cells of s chained from first_free_idx, as many as free_count says. *)
Chained(s) ==
    LET w[i \in 0 .. objs_per_slab] ==
            IF i = 0 THEN cache.first[s]
            ELSE IF w[i - 1] = NoCell THEN NoCell ELSE cache.link[s][w[i - 1]]
    IN  {w[i] : i \in 0 .. (cache.count[s] - 1)}

(***************************************************************************)
(* The chain of a slab visits exactly the cells no caller has: no object   *)
(* is handed out twice and no cell is lost, whatever the order in which    *)
(* objects come back (test_slab.c, __validate_slab_objs).                  *)
(***************************************************************************)
ChainsExact ==
    \A s \in Made : Chained(s) = {i \in Cells : <<s, i>> \notin handed}

(***************************************************************************)
(* A slab that gives out an object was not free while a partial one had    *)
(* room: free slabs are opened only when no started slab is left.          *)
(***************************************************************************)
PartialFirst ==
    [][ Cardinality(handed') > Cardinality(handed) /\ On("partial") # {}
          => On("free")' = On("free") ]_slabVars

=============================================================================
