------------------------------ MODULE PhysAlloc ------------------------------
(***************************************************************************)
(* The physical allocator (kernel/src/mm/phys_alloc.c): allocations of any *)
(* number of pages cut out of buddy blocks, and the growth of the buddy    *)
(* allocator's own pool of freelist entries, which allocates pages from    *)
(* the allocator that ran low (with vm_alloc_block of kernel/src/mm/vm.c). *)
(*                                                                         *)
(* The buddy allocator appears here as sets of blocks, which is what its   *)
(* callers see of it: BuddyAllocator has its lists and bitmap, and the     *)
(* conditions under which they agree with this view.  A freed block merges *)
(* with free buddies as far as the bitmap allows, which here is any        *)
(* distance.  One freelist entry belongs to each free block.               *)
(*                                                                         *)
(* phys_alloc is re-entered through __freespace_check: stack holds the     *)
(* interrupted vm_alloc_block calls.  A call that needs a freelist entry   *)
(* when none is left, or that finds no block, or that replaces a page      *)
(* table in use, ends the behaviour.                                       *)
(*                                                                         *)
(* Operators named for what they get wrong are faulty variants of the      *)
(* definition after them.                                                  *)
(***************************************************************************)
EXTENDS Integers, Sequences, FiniteSets, FiniteSetsExt, SequencesExt

CONSTANTS
    MAX_ORDER,      \* largest block order (7 in the code)
    MaxBlocks,      \* blocks of MAX_ORDER in the allocator's memory
    Sizes,          \* numbers of pages the callers ask for
    MaxOwned,       \* bound: allocations the callers hold at once
    MaxCalls,       \* bound: calls the callers make
    EarlyEntries,   \* freelist entries preallocated by phys_alloc_init
    PerSlab,        \* freelist entries in one slab
    PerTable        \* blocks of the zone one page table maps (256 in the code)

FREELIST_EXPANSION_THRESHOLD == MAX_ORDER + 1

Size(k) == 2^k
Orders == 0 .. MAX_ORDER

(***************************************************************************)
(* The last conjuncts are the facts of arithmetic the proofs use on powers *)
(* of two.                                                                 *)
(***************************************************************************)
ASSUME PhysAllocAssumption ==
    /\ MAX_ORDER \in Nat \ {0}
    /\ MaxBlocks \in Nat \ {0}
    /\ Sizes \subseteq 1 .. Size(MAX_ORDER)
    /\ EarlyEntries \in Nat
    /\ EarlyEntries >= MaxBlocks + FREELIST_EXPANSION_THRESHOLD
    /\ PerSlab \in Nat \ {0}
    /\ PerTable \in Nat \ {0}
    /\ Size(0) = 1
    /\ \A k \in 0 .. (MAX_ORDER + 1) :
          Size(k) \in Nat \ {0} /\ Size(k + 1) = 2 * Size(k)

AllPages == 0 .. (MaxBlocks * Size(MAX_ORDER) - 1)

Block(o, k) == [offset |-> o, order |-> k]
Pages(b) == b.offset .. (b.offset + Size(b.order) - 1)
Bit(n, i) == (n \div Size(i)) % 2 = 1

(* The pages of an allocation [base, size]. *)
Extent(a) == a.base .. (a.base + a.size - 1)

(* Order of the smallest block that holds n pages. *)
bit_order(n) == CHOOSE k \in Orders : n <= Size(k) /\ \A i \in 0 .. (k - 1) : Size(i) < n

VARIABLES
    free,       \* the free blocks
    owned,      \* allocations the callers hold, [base, size]
    kept,       \* pages that back VMZONE_BUDDY_MEM: slabs and page tables
    supply,     \* objects of freelist_cache, in use or not
    cursor,     \* next block of VMZONE_BUDDY_MEM, counted after the early ones
    tables,     \* page tables the zone has
    stack,      \* calls of vm_alloc_block waiting for phys_alloc, innermost last
    work,       \* local variables of phys_block_shrink
    calls,      \* calls made so far, only to bound them
    pc

vars == <<free, owned, kept, supply, cursor, tables, stack, work, calls, pc>>

NoWork == [addr |-> 0, size |-> 0, target |-> 0, order |-> 0, op |-> "none"]

(***************************************************************************)
(* After phys_alloc_init: all blocks of the largest order, and the first   *)
(* page table of the zone, made by vmspace_init.                           *)
(***************************************************************************)
Init ==
    /\ free = {Block(i * Size(MAX_ORDER), MAX_ORDER) : i \in 0 .. (MaxBlocks - 1)}
    /\ owned = {}
    /\ kept = {}
    /\ supply = EarlyEntries
    /\ cursor = 0
    /\ tables = {0}
    /\ stack = <<>>
    /\ work = NoWork
    /\ calls = 0
    /\ pc = "idle"

total_free_objects == supply - Cardinality(free)

(***************************************************************************)
(* The free set becomes bs.  Each block needs an entry of its own; without *)
(* one slab_alloc would ask for memory in the middle of the operation.     *)
(***************************************************************************)
SetFree(bs, next) ==
    IF Cardinality(bs) <= supply
    THEN free' = bs /\ pc' = next
    ELSE pc' = "exhausted" /\ UNCHANGED free

-----------------------------------------------------------------------------
(***************************************************************************)
(* The buddy allocator's three operations, on sets of blocks.              *)
(***************************************************************************)

(* The smallest order, from k up, that has a free block. *)
SourceOrder(k) == Min({b.order : b \in {c \in free : c.order >= k}})

(* Splitting b down to order k keeps the left part at every order. *)
SplitRest(b, k) ==
    {Block(b.offset + Size(i), i) : i \in (k + 1) .. (b.order - 1)}
       \cup (IF b.order > k THEN {Block(b.offset, k)} ELSE {})

AllocatedPastBlock(b, k) == b.offset + Size(b.order)

AllocatedOffset(b, k) == IF b.order > k THEN b.offset + Size(k) ELSE b.offset

(* buddy_shrink_block: what is freed of the block of order k at o when n pages stay. *)
ShrinkRest(o, k, n) ==
    LET cut == Size(k) - n
    IN  {Block(o + n + (cut % Size(i)), i) : i \in {j \in 0 .. (k - 1) : Bit(cut, j)}}

Ancestor(b, k) == Block(b.offset - (b.offset % Size(k)), k)

Sibling(b, k) ==
    LET a == Ancestor(b, k).offset
    IN  Block(IF a % Size(k + 1) = 0 THEN a + Size(k) ELSE a - Size(k), k)

Siblings(b, k) == {Sibling(b, i) : i \in b.order .. (k - 1)}

(* Orders to which a freed block can merge: all buddies on the way are free. *)
MergeOrders(b) == {k \in b.order .. MAX_ORDER : Siblings(b, k) \subseteq free}

buddy_free_block(b, next) ==
    \E k \in MergeOrders(b) :
        SetFree((free \ Siblings(b, k)) \cup {Ancestor(b, k)}, next)

-----------------------------------------------------------------------------
NewCall ==
    /\ pc = "idle"
    /\ calls < MaxCalls
    /\ calls' = calls + 1

(***************************************************************************)
(* phys_alloc(n) up to its __freespace_check; Then(base) is what the       *)
(* caller does with the pages.                                             *)
(***************************************************************************)

CanTake(n) == \E b \in free : b.order >= bit_order(n)

TakePages(n, Then(_)) ==
    LET k == bit_order(n)
    IN  \E b \in free :
          /\ b.order = SourceOrder(k)
          /\ SetFree((free \ {b}) \cup SplitRest(b, k)
                       \cup ShrinkRest(AllocatedOffset(b, k), k, n), "check")
          /\ Then(AllocatedOffset(b, k))

(***************************************************************************)
(* phys_alloc.  A request for more than a block of MAX_ORDER is answered   *)
(* with NULL and changes nothing; Sizes has none.                          *)
(***************************************************************************)
phys_alloc(n) ==
    /\ NewCall
    /\ Cardinality(owned) < MaxOwned
    /\ CanTake(n)
    /\ LET Hold(base) == owned' = owned \cup {[base |-> base, size |-> n]}
       IN  TakePages(n, Hold)
    /\ work' = [NoWork EXCEPT !.op = "alloc"]
    /\ UNCHANGED <<kept, supply, cursor, tables, stack>>

(***************************************************************************)
(* phys_block_shrink(addr, size, target); phys_free is the case target 0.  *)
(* The caller's allocation is what it will have when the call returns.     *)
(***************************************************************************)
ShrinkStart(a, target) ==
    /\ NewCall
    /\ owned' = (owned \ {a}) \cup {[base |-> a.base, size |-> n] : n \in {target} \ {0}}
    /\ work' = [addr |-> a.base, size |-> a.size, target |-> target,
                order |-> bit_order(a.size),
                op |-> IF target = 0 THEN "free" ELSE "shrink"]
    /\ pc' = "shrink"
    /\ UNCHANGED <<free, kept, supply, cursor, tables, stack>>

phys_free(a) == ShrinkStart(a, 0)

phys_block_shrink(a) == \E target \in 1 .. (a.size - 1) : ShrinkStart(a, target)

Advance(target) ==
    work' = [work EXCEPT !.addr = @ + Size(work.order), !.order = @ - 1, !.target = target]

InLoop == pc = "shrink" /\ work.order >= 0 /\ UNCHANGED <<owned, kept, supply, cursor, tables, stack, calls>>

OrderStays == InLoop /\ ~Bit(work.size, work.order) /\ UNCHANGED <<free, work, pc>>

(* No block of this order is part of the allocation. *)
ShrinkSkip ==
    /\ InLoop
    /\ ~Bit(work.size, work.order)
    /\ work' = [work EXCEPT !.order = @ - 1]
    /\ UNCHANGED <<free, pc>>

ShrinkFree ==
    /\ InLoop
    /\ Bit(work.size, work.order)
    /\ work.target = 0
    /\ buddy_free_block(Block(work.addr, work.order), "shrink")
    /\ Advance(0)

ShrinkLeavesTarget ==
    /\ InLoop
    /\ Bit(work.size, work.order)
    /\ work.target \in 1 .. Size(work.order)
    /\ SetFree(free \cup ShrinkRest(work.addr, work.order, work.target), "shrink")
    /\ Advance(work.target)

(* The block in which the target ends; every later one is freed. *)
ShrinkCut ==
    /\ InLoop
    /\ Bit(work.size, work.order)
    /\ work.target \in 1 .. Size(work.order)
    /\ SetFree(free \cup ShrinkRest(work.addr, work.order, work.target), "shrink")
    /\ Advance(0)

ShrinkKeep ==
    /\ InLoop
    /\ Bit(work.size, work.order)
    /\ work.target > Size(work.order)
    /\ Advance(work.target - Size(work.order))
    /\ UNCHANGED <<free, pc>>

ShrinkDone ==
    /\ pc = "shrink"
    /\ work.order < 0
    /\ pc' = "check"
    /\ UNCHANGED <<free, owned, kept, supply, cursor, tables, stack, work, calls>>

-----------------------------------------------------------------------------
(***************************************************************************)
(* __freespace_check and the vm_alloc_block(VMZONE_BUDDY_MEM) it makes.    *)
(***************************************************************************)

LowAtZero == total_free_objects = 0

Low == total_free_objects < FREELIST_EXPANSION_THRESHOLD

Enough ==
    /\ pc = "check"
    /\ ~Low
    /\ pc' = "return"
    /\ UNCHANGED <<free, owned, kept, supply, cursor, tables, stack, work, calls>>

Frame(wait, block) == [wait |-> wait, block |-> block]

(* phys_alloc(n) for the zone's block in hand: its pages are never given back. *)
TakeForZone(n, frames, frame) ==
    /\ LET Keep(base) == kept' = kept \cup (base .. (base + n - 1))
       IN  TakePages(n, Keep)
    /\ stack' = Append(frames, frame)

TableOf(block) == block \div PerTable

(***************************************************************************)
(* The page table of the block at the cursor exists: the cursor moves, and *)
(* the two pages of the slab are allocated.                                *)
(***************************************************************************)
ExpandMapped ==
    /\ pc = "check"
    /\ Low
    /\ TableOf(cursor) \in tables
    /\ CanTake(2)
    /\ TakeForZone(2, stack, Frame("data", cursor))
    /\ cursor' = cursor + 1
    /\ UNCHANGED <<owned, supply, tables, work, calls>>

(* It does not: a page for it is allocated before the cursor moves. *)
ExpandUnmapped ==
    /\ pc = "check"
    /\ Low
    /\ TableOf(cursor) \notin tables
    /\ CanTake(1)
    /\ TakeForZone(1, stack, Frame("table", cursor))
    /\ UNCHANGED <<owned, supply, cursor, tables, work, calls>>

TopFrame == Last(stack)

(* The new table is mapped; a nested expansion may have mapped one already. *)
TableMapped ==
    /\ pc = "return"
    /\ stack # <<>>
    /\ TopFrame.wait = "table"
    /\ TableOf(TopFrame.block) \notin tables
    /\ CanTake(2)
    /\ TakeForZone(2, Front(stack), Frame("data", TopFrame.block))
    /\ tables' = tables \cup {TableOf(TopFrame.block)}
    /\ cursor' = TopFrame.block + 1
    /\ UNCHANGED <<owned, supply, work, calls>>

TableReplaced ==
    /\ pc = "return"
    /\ stack # <<>>
    /\ TopFrame.wait = "table"
    /\ TableOf(TopFrame.block) \in tables
    /\ pc' = "table_replaced"
    /\ UNCHANGED <<free, owned, kept, supply, cursor, tables, stack, work, calls>>

SlabOnce ==
    /\ pc = "return"
    /\ stack # <<>>
    /\ TopFrame.wait = "data"
    /\ supply' = IF Len(stack) = 1 THEN supply + PerSlab ELSE supply
    /\ stack' = Front(stack)
    /\ UNCHANGED <<free, owned, kept, cursor, tables, work, calls, pc>>

(* buddy_freelist_pool_expand; the phys_alloc one level out returns next. *)
SlabAdded ==
    /\ pc = "return"
    /\ stack # <<>>
    /\ TopFrame.wait = "data"
    /\ supply' = supply + PerSlab
    /\ stack' = Front(stack)
    /\ UNCHANGED <<free, owned, kept, cursor, tables, work, calls, pc>>

Return ==
    /\ pc = "return"
    /\ stack = <<>>
    /\ pc' = "idle"
    /\ work' = NoWork
    /\ UNCHANGED <<free, owned, kept, supply, cursor, tables, stack, calls>>

(* Every list is empty from the order needed up: the address is not a page. *)
OutOfMemory ==
    /\ \/ pc = "idle" /\ \E n \in Sizes : ~CanTake(n)
       \/ pc = "check" /\ Low /\ ~CanTake(IF TableOf(cursor) \in tables THEN 2 ELSE 1)
       \/ pc = "return" /\ stack # <<>> /\ TopFrame.wait = "table" /\ ~CanTake(2)
    /\ pc' = "out_of_memory"
    /\ UNCHANGED <<free, owned, kept, supply, cursor, tables, stack, work, calls>>

Call ==
    \/ \E n \in Sizes : phys_alloc(n)
    \/ \E a \in owned : phys_free(a)
    \/ \E a \in owned : phys_block_shrink(a)

Step ==
    \/ ShrinkSkip \/ ShrinkFree \/ ShrinkCut \/ ShrinkKeep \/ ShrinkDone
    \/ Enough \/ ExpandMapped \/ ExpandUnmapped \/ TableMapped \/ TableReplaced
    \/ SlabAdded \/ Return \/ OutOfMemory

Next == Call \/ Step

(* The call on the processor runs on; nothing obliges anyone to make one. *)
Spec == Init /\ [][Next]_vars /\ WF_vars(Step)

-----------------------------------------------------------------------------

Stopped == {"exhausted", "out_of_memory", "table_replaced"}

Allocations == [base : AllPages, size : 1 .. Size(MAX_ORDER)]

(* Type correctness of the allocator's state. *)
TypeOK ==
    /\ free \subseteq [offset : AllPages, order : Orders]
    /\ owned \subseteq Allocations
    /\ kept \subseteq AllPages
    /\ supply \in Nat /\ cursor \in Nat
    /\ tables \subseteq Nat
    /\ stack \in Seq([wait : {"table", "data"}, block : Nat])
    /\ work.order \in -1 .. MAX_ORDER
    /\ pc \in {"idle", "check", "shrink", "return"} \cup Stopped

FreePages == UNION {Pages(b) : b \in free}

(* Each page belongs to at most one of the blocks, allocations and the zone. *)
Disjoint ==
    /\ \A b, c \in free : b # c => Pages(b) \cap Pages(c) = {}
    /\ \A a, b \in owned : a # b => Extent(a) \cap Extent(b) = {}
    /\ \A a \in owned : Extent(a) \cap (FreePages \cup kept) = {}
    /\ FreePages \cap kept = {}

(***************************************************************************)
(* Between calls the pages are partitioned: cutting an allocation of any   *)
(* size out of a block, cutting it again in phys_block_shrink and freeing  *)
(* it piece by piece neither loses a page nor hands one out twice.         *)
(***************************************************************************)
Partition ==
    pc = "idle" =>
        /\ Disjoint
        /\ FreePages \cup kept \cup UNION {Extent(a) : a \in owned} = AllPages

(***************************************************************************)
(* The reserve __freespace_check keeps, MAX_ORDER + 1 entries, covers what *)
(* an allocation or a free consumes, the nested expansions included.  A    *)
(* shrink to a positive size may need more, up to 2 * MAX_ORDER - 2.       *)
(***************************************************************************)
ReserveSuffices == pc = "exhausted" => work.op = "shrink"

(***************************************************************************)
(* Between calls every slab the zone gave out was added to the pool once.  *)
(***************************************************************************)
SlabsCounted == pc = "idle" => supply = EarlyEntries + PerSlab * cursor

(* Every call of the physical allocator comes to an end. *)
CallEnds == pc # "idle" ~> pc \in {"idle"} \cup Stopped

=============================================================================
