--------------------------- MODULE BuddyAllocator ---------------------------
(***************************************************************************)
(* The binary buddy allocator for physical pages                           *)
(* (kernel/src/mm/buddy_alloc.c, kernel/include/mm/buddy_alloc.h,          *)
(* kernel/src/mm/bitmap.c).                                                *)
(*                                                                         *)
(* A block is a page offset from base_addr and an order.  The loops of the *)
(* code (filling the lists at start-up, splitting, coalescing, shrinking)  *)
(* are one step per iteration; pc says which loop is running.  The code    *)
(* takes no lock and calls are not nested, so a call starts only when pc   *)
(* is "idle".  A call that dereferences a NULL entry, writes past          *)
(* freelists[] or returns an address outside the region ends the           *)
(* behaviour: nothing the code does after that is defined.                 *)
(*                                                                         *)
(* Operators named for what they get wrong (ReleaseForgotten, MaxOf, ...)  *)
(* are faulty variants of the definition that follows them; they are not   *)
(* part of the specification and serve to check that a property notices.   *)
(*                                                                         *)
(* Offsets and counters are in pages: every byte quantity of the code is a *)
(* page quantity shifted by PAGE_ORDER.                                    *)
(***************************************************************************)
EXTENDS Integers, Sequences, FiniteSets, SequencesExt

CONSTANTS
    MAX_ORDER,      \* largest block order (7 in the code)
    NumPages,       \* pages between base_addr and end_addr, the end of the last region
    MemoryMaps,     \* the memory maps the firmware may report: sets of usable
                    \* regions [start |-> s, end |-> e), in page offsets
    AccountMod      \* the byte counters are size_t: they wrap at this many pages

Size(k) == 2^k

(***************************************************************************)
(* The last conjuncts are the facts of arithmetic the proofs use on powers *)
(* of two.                                                                 *)
(***************************************************************************)
ASSUME BuddyAssumption ==
    /\ MAX_ORDER \in Nat
    /\ NumPages \in Nat
    /\ MemoryMaps \subseteq SUBSET [start : Nat, end : 0 .. NumPages]
    /\ AccountMod \in Nat \ {0}
    /\ Size(0) = 1
    /\ \A k \in 0 .. (MAX_ORDER + 1) :
          Size(k) \in Nat \ {0} /\ Size(k + 1) = 2 * Size(k)

Orders == 0 .. MAX_ORDER
Blocks == [offset : Nat, order : Orders]
Block(o, k) == [offset |-> o, order |-> k]
Pages(b) == b.offset .. (b.offset + Size(b.order) - 1)

RightNeighbour(o, k) == o + Size(k)

buddy_page_offset(o, k) ==
    IF o % Size(k + 1) # 0 THEN o - Size(k) ELSE o + Size(k)

MAX_BLOCK_BITS == Size(MAX_ORDER + 1) - 1

buddy_bmp_size_bits ==
    ((NumPages + Size(MAX_ORDER + 1) - 1) \div Size(MAX_ORDER + 1)) * MAX_BLOCK_BITS

(***************************************************************************)
(* Keep bits k+1 .. MAX_ORDER of the offset inside its super block, turn   *)
(* bit k on, and count from zero.                                          *)
(***************************************************************************)
buddy_bmp_index_of(o, k) ==
    LET rem == o % Size(MAX_ORDER + 1)
    IN  (o \div Size(MAX_ORDER + 1)) * MAX_BLOCK_BITS
          + (rem - (rem % Size(k + 1))) + Size(k) - 1

VARIABLES
    pc,           \* which loop of the allocator runs, "idle", or how it stopped
    freelists,    \* freelists[k]: page offsets of the free blocks of order k, head first
    bitmap,       \* buddy_state_map
    freeSpace,    \* free_space_bytes, in pages
    allocated,    \* allocated_bytes, in pages
    entries,      \* freelist_cache.allocated_objects
    held,         \* blocks the callers own
    cur,          \* block the running loop has in hand
    arg,          \* target order of a split, pages to keep of a shrink
    order,        \* order passed to the running call
    bmpIndex,     \* local bmp_index of buddy_free_block
    regions,      \* the memory map this machine booted with
    scan          \* cursors of __populate_initial_freelists

vars == <<pc, freelists, bitmap, freeSpace, allocated, entries, held,
          cur, arg, order, bmpIndex, scan, regions>>

(***************************************************************************)
(* A block is usable when one physical memory region contains all of it.   *)
(***************************************************************************)
is_block_usable(o, k) ==
    \E r \in regions : r.start <= o /\ o + Size(k) <= r.end

(***************************************************************************)
(* bitmap.c.  An index past the end reads 0 and writes nothing.            *)
(***************************************************************************)
bmp_get_bit(i) == IF i \in DOMAIN bitmap THEN bitmap[i] ELSE 0
bmp_set_bit(i, v) == [bitmap EXCEPT ![i] = v]
bmp_toggle_bit(i) == [j \in DOMAIN bitmap |-> IF j = i THEN 1 - bitmap[j] ELSE bitmap[j]]

(* An entry for the block at o becomes the head of its list. *)
Link(k, o) == freelists' = [freelists EXCEPT ![k] = Cons(o, @)]

allocate_freelist_entry(k, o) == Link(k, o) /\ entries' = entries + 1

ReleaseForgotten == entries' = entries
release_freelist_entry == entries' = entries - 1

UnlinkForgotten(k, o) == o \in Range(freelists[k]) /\ UNCHANGED freelists

(* __pop_freelist_entry: unlink the first entry of offset o, if there is one *)
Unlink(k, o) ==
    \E i \in DOMAIN freelists[k] :
        /\ freelists[k][i] = o
        /\ \A j \in 1 .. (i - 1) : freelists[k][j] # o
        /\ freelists' = [freelists EXCEPT ![k] = RemoveAt(@, i)]

Absent(k, o) == o \notin Range(freelists[k])

AccountUnbounded(n) == freeSpace' = freeSpace + n /\ allocated' = allocated - n

AccountSwapped(n) ==
    /\ freeSpace' = (freeSpace - n) % AccountMod
    /\ allocated' = (allocated + n) % AccountMod

(* free_space_bytes += n, allocated_bytes -= n *)
Account(n) ==
    /\ freeSpace' = (freeSpace + n) % AccountMod
    /\ allocated' = (allocated - n) % AccountMod

can_coalesce(b) ==
    /\ bmp_get_bit(buddy_bmp_index_of(b.offset, b.order)) = 1
    /\ is_block_usable(buddy_page_offset(b.offset, b.order), b.order)

(* The call returns: its local variables are gone. *)
Return ==
    /\ pc' = "idle"
    /\ cur' = Block(0, 0)
    /\ arg' = 0
    /\ order' = 0
    /\ bmpIndex' = 0

MaxOf(a, b) == IF a <= b THEN b ELSE a
MinOf(a, b) == IF a <= b THEN a ELSE b

-----------------------------------------------------------------------------

Init ==
    /\ pc = "populate"
    /\ freelists = [k \in Orders |-> <<>>]
    /\ bitmap = [i \in 0 .. (buddy_bmp_size_bits - 1) |-> 0]
    /\ freeSpace = 0
    /\ allocated = 0
    /\ entries = 0
    /\ held = {}
    /\ cur = Block(0, 0)
    /\ arg = 0
    /\ order = 0
    /\ bmpIndex = 0
    /\ regions \in MemoryMaps
    /\ scan = [cursor |-> 0, inner |-> 0, order |-> MAX_ORDER]

Scanning == scan.order >= 0 /\ scan.inner < Size(MAX_ORDER)

PopulateInsists ==
    /\ pc = "populate"
    /\ scan.cursor < NumPages
    /\ Scanning
    /\ is_block_usable(scan.cursor + scan.inner, scan.order)
    /\ allocate_freelist_entry(scan.order, scan.cursor + scan.inner)
    /\ freeSpace' = (freeSpace + Size(scan.order)) % AccountMod
    /\ scan' = [cursor |-> scan.cursor, inner |-> scan.inner + Size(scan.order), order |-> scan.order - 1]
    /\ UNCHANGED <<pc, bitmap, allocated, held, cur, arg, order, bmpIndex, regions>>

(***************************************************************************)
(* One pass of the inner loop of __populate_initial_freelists: take the    *)
(* block of this order if it is usable, then try the next smaller order.   *)
(***************************************************************************)
Populate ==
    /\ pc = "populate"
    /\ scan.cursor < NumPages
    /\ Scanning
    /\ LET o == scan.cursor + scan.inner
           k == scan.order
       IN  IF is_block_usable(o, k)
           THEN /\ allocate_freelist_entry(k, o)
                /\ freeSpace' = (freeSpace + Size(k)) % AccountMod
                /\ scan' = [cursor |-> scan.cursor, inner |-> scan.inner + Size(k), order |-> k - 1]
           ELSE /\ scan' = [scan EXCEPT !.order = @ - 1]
                /\ UNCHANGED <<freelists, entries, freeSpace>>
    /\ UNCHANGED <<pc, bitmap, allocated, held, cur, arg, order, bmpIndex, regions>>

(* The outer loop moves on by one block of MAX_ORDER. *)
PopulateNext ==
    /\ pc = "populate"
    /\ scan.cursor < NumPages
    /\ ~Scanning
    /\ scan' = [cursor |-> scan.cursor + Size(MAX_ORDER), inner |-> 0, order |-> MAX_ORDER]
    /\ UNCHANGED <<pc, freelists, bitmap, freeSpace, allocated, entries, held,
                   cur, arg, order, bmpIndex, regions>>

PopulateDone ==
    /\ pc = "populate"
    /\ scan.cursor >= NumPages
    /\ pc' = "idle"
    /\ UNCHANGED <<freelists, bitmap, freeSpace, allocated, entries, held,
                   cur, arg, order, bmpIndex, scan, regions>>

-----------------------------------------------------------------------------
(***************************************************************************)
(* buddy_alloc_block(k).                                                   *)
(***************************************************************************)

(* The list of order k has a block: unlink it and release its entry. *)
AllocHead(k) ==
    /\ pc = "idle"
    /\ freelists[k] # <<>>
    /\ LET o == Head(freelists[k])
       IN  /\ held' = held \cup {Block(o, k)}
           /\ bitmap' = bmp_toggle_bit(buddy_bmp_index_of(o, k))
    /\ freelists' = [freelists EXCEPT ![k] = Tail(@)]
    /\ release_freelist_entry
    /\ Account(-Size(k))
    /\ UNCHANGED <<pc, cur, arg, order, bmpIndex, scan, regions>>

(* __find_or_split_block: unlink the head of the next larger list that has one. *)
AllocFind(k, j) ==
    /\ pc = "idle"
    /\ j > k
    /\ \A i \in k .. (j - 1) : freelists[i] = <<>>
    /\ freelists[j] # <<>>
    /\ pc' = "split"
    /\ cur' = Block(Head(freelists[j]), j)
    /\ arg' = k
    /\ freelists' = [freelists EXCEPT ![j] = Tail(@)]
    /\ bitmap' = bmp_toggle_bit(buddy_bmp_index_of(Head(freelists[j]), j))
    /\ UNCHANGED <<freeSpace, allocated, entries, held, order, bmpIndex, scan, regions>>

(* A new entry for the upper half; the lower half is split again. *)
SplitHalf ==
    /\ pc = "split"
    /\ cur.order - 1 > arg
    /\ LET k == cur.order - 1
       IN  /\ allocate_freelist_entry(k, cur.offset + Size(k))
           /\ bitmap' = bmp_toggle_bit(buddy_bmp_index_of(cur.offset, k))
           /\ cur' = Block(cur.offset, k)
    /\ UNCHANGED <<pc, freeSpace, allocated, held, arg, order, bmpIndex, scan, regions>>

(* The entry in hand becomes the lower half's; the upper half is returned. *)
SplitLast ==
    /\ pc = "split"
    /\ cur.order - 1 <= arg
    /\ Link(arg, cur.offset)
    /\ bitmap' = bmp_toggle_bit(buddy_bmp_index_of(cur.offset, arg))
    /\ held' = held \cup {Block(cur.offset + Size(arg), arg)}
    /\ Account(-Size(arg))
    /\ Return
    /\ UNCHANGED <<entries, scan, regions>>

(* No list has a block: PAGE_OFFSET_OOB is accounted for and returned as an address. *)
AllocNothingLeft(k) ==
    /\ pc = "idle"
    /\ \A i \in k .. MAX_ORDER : freelists[i] = <<>>
    /\ Account(-Size(k))
    /\ pc' = "out_of_bounds_address"
    /\ UNCHANGED <<freelists, bitmap, entries, held, cur, arg, order, bmpIndex, scan, regions>>

-----------------------------------------------------------------------------
(***************************************************************************)
(* buddy_free_block of a block a caller owns.  The usability test of the   *)
(* first level looks at the block to the right, whichever buddy b is.      *)
(***************************************************************************)

FirstMerge(b) ==
    /\ bmp_get_bit(buddy_bmp_index_of(b.offset, b.order)) = 1
    /\ is_block_usable(b.offset + Size(b.order), b.order)

FreeAlone(b) ==
    /\ pc = "idle"
    /\ ~FirstMerge(b)
    /\ held' = held \ {b}
    /\ allocate_freelist_entry(b.order, b.offset)
    /\ bitmap' = bmp_set_bit(buddy_bmp_index_of(b.offset, b.order), 1)
    /\ Account(Size(b.order))
    /\ UNCHANGED <<pc, cur, arg, order, bmpIndex, scan, regions>>

(* Unlink the buddy's entry and keep it for the merged block. *)
FreeMerge(b) ==
    LET o == buddy_page_offset(b.offset, b.order)
        x == buddy_bmp_index_of(b.offset, b.order)
    IN  /\ pc = "idle"
        /\ FirstMerge(b)
        /\ Unlink(b.order, o)
        /\ held' = held \ {b}
        /\ bitmap' = bmp_set_bit(x, 0)
        /\ pc' = "merge"
        /\ cur' = [offset |-> MinOf(b.offset, o), order |-> b.order + 1]
        /\ order' = b.order
        /\ bmpIndex' = x
        /\ UNCHANGED <<freeSpace, allocated, entries, arg, scan, regions>>

(* The buddy has no entry: __pop_freelist_entry returned NULL and it is written through. *)
FreeNullEntry(b) ==
    /\ pc = "idle"
    /\ FirstMerge(b)
    /\ Absent(b.order, buddy_page_offset(b.offset, b.order))
    /\ held' = held \ {b}
    /\ cur' = b
    /\ pc' = "null_entry"
    /\ UNCHANGED <<freelists, bitmap, freeSpace, allocated, entries, arg, order, bmpIndex, scan, regions>>

Coalescing == cur.order < MAX_ORDER /\ can_coalesce(cur)

(* One pass of the coalescing loop: unlink and release the buddy's entry. *)
Coalesce ==
    LET o == buddy_page_offset(cur.offset, cur.order)
        x == buddy_bmp_index_of(cur.offset, cur.order)
    IN  /\ pc = "merge"
        /\ Coalescing
        /\ Unlink(cur.order, o)
        /\ release_freelist_entry
        /\ bitmap' = bmp_set_bit(x, 0)
        /\ bmpIndex' = x
        /\ cur' = [offset |-> MinOf(cur.offset, o), order |-> cur.order + 1]
        /\ UNCHANGED <<pc, freeSpace, allocated, held, arg, order, scan, regions>>

CoalesceNullEntry ==
    /\ pc = "merge"
    /\ Coalescing
    /\ Absent(cur.order, buddy_page_offset(cur.offset, cur.order))
    /\ pc' = "null_entry"
    /\ UNCHANGED <<freelists, bitmap, freeSpace, allocated, entries, held,
                   cur, arg, order, bmpIndex, scan, regions>>

(***************************************************************************)
(* The loop ends: link the entry in hand and toggle bmp_index, which the   *)
(* loop condition refreshed unless it stopped at MAX_ORDER.                *)
(***************************************************************************)
FreeLink ==
    /\ pc = "merge"
    /\ ~Coalescing
    /\ cur.order <= MAX_ORDER
    /\ Link(cur.order, cur.offset)
    /\ bitmap' = bmp_toggle_bit(IF cur.order < MAX_ORDER
                                THEN buddy_bmp_index_of(cur.offset, cur.order)
                                ELSE bmpIndex)
    /\ Account(Size(order))
    /\ Return
    /\ UNCHANGED <<entries, held, scan, regions>>

(* Two blocks of MAX_ORDER merged: freelists[MAX_ORDER + 1] is base_addr. *)
FreeLinkPastEnd ==
    /\ pc = "merge"
    /\ cur.order > MAX_ORDER
    /\ bitmap' = bmp_toggle_bit(bmpIndex)
    /\ Account(Size(order))
    /\ pc' = "base_addr_overwritten"
    /\ UNCHANGED <<freelists, entries, held, cur, arg, order, bmpIndex, scan, regions>>

-----------------------------------------------------------------------------
(***************************************************************************)
(* buddy_shrink_block(b, n).  b is aligned to its order, so truncating the *)
(* address of any of its pages gives b.offset.  For order 0 the loop       *)
(* condition shifts 1 by 256, which the x86 shift instruction masks to     *)
(* 1 << 0: the loop ends at once, as Size(0) says.                         *)
(***************************************************************************)

Shrink(b, n) ==
    /\ pc = "idle"
    /\ held' = held \ {b}
    /\ cur' = b
    /\ arg' = n
    /\ order' = b.order
    /\ pc' = "shrink"
    /\ UNCHANGED <<freelists, bitmap, freeSpace, allocated, entries, bmpIndex, scan, regions>>

(* Both halves stay allocated: go on with the right one. *)
ShrinkRight ==
    /\ pc = "shrink"
    /\ arg # Size(cur.order)
    /\ LET k == cur.order - 1
       IN  /\ arg > Size(k)
           /\ bitmap' = bmp_set_bit(buddy_bmp_index_of(cur.offset, k), 0)
           /\ held' = held \cup {Block(cur.offset, k)}
           /\ cur' = Block(cur.offset + Size(k), k)
           /\ arg' = arg - Size(k)
    /\ UNCHANGED <<pc, freelists, freeSpace, allocated, entries, order, bmpIndex, scan, regions>>

(* The right half becomes free: go on with the left one. *)
ShrinkLeft ==
    /\ pc = "shrink"
    /\ arg # Size(cur.order)
    /\ LET k == cur.order - 1
       IN  /\ arg <= Size(k)
           /\ allocate_freelist_entry(k, cur.offset + Size(k))
           /\ bitmap' = bmp_set_bit(buddy_bmp_index_of(cur.offset, k), 1)
           /\ cur' = Block(cur.offset, k)
    /\ UNCHANGED <<pc, freeSpace, allocated, held, arg, order, bmpIndex, scan, regions>>

(* bytes_freed is computed from what the loop left of num_pages. *)
ShrinkDone ==
    /\ pc = "shrink"
    /\ arg = Size(cur.order)
    /\ held' = held \cup {cur}
    /\ Account(Size(order) - arg)
    /\ Return
    /\ UNCHANGED <<freelists, bitmap, entries, scan, regions>>

-----------------------------------------------------------------------------

Alloc ==
    \/ \E k \in Orders : AllocHead(k)
    \/ \E k, j \in Orders : AllocFind(k, j)
    \/ \E k \in Orders : AllocNothingLeft(k)

Free ==
    \/ \E b \in held : FreeAlone(b)
    \/ \E b \in held : FreeMerge(b)
    \/ \E b \in held : FreeNullEntry(b)

Running ==
    \/ Populate \/ PopulateNext \/ PopulateDone
    \/ SplitHalf \/ SplitLast
    \/ Coalesce \/ CoalesceNullEntry \/ FreeLink \/ FreeLinkPastEnd
    \/ ShrinkRight \/ ShrinkLeft \/ ShrinkDone

Next ==
    \/ Alloc
    \/ Free
    \/ \E b \in held : \E n \in 1 .. Size(b.order) : Shrink(b, n)
    \/ Running

(* A call runs to its end: nothing else has the processor. *)
Spec == Init /\ [][Next]_vars /\ WF_vars(Running)

-----------------------------------------------------------------------------
(***************************************************************************)
(* Properties.                                                             *)
(***************************************************************************)

Stopped == {"out_of_bounds_address", "null_entry", "base_addr_overwritten"}

FreeBlocks == UNION {{Block(o, k) : o \in Range(freelists[k])} : k \in Orders}

(* The block that is on no list because a call is working on it. *)
InHand == IF pc \in {"split", "merge", "shrink", "null_entry", "base_addr_overwritten"}
          THEN {cur} ELSE {}

PagesOf(S) == UNION {Pages(b) : b \in S}

(* The state has the shape the C declarations give it. *)
TypeOK ==
    /\ pc \in {"populate", "idle", "split", "merge", "shrink"} \cup Stopped
    /\ freelists \in [Orders -> Seq(Nat)]
    /\ bitmap \in [0 .. (buddy_bmp_size_bits - 1) -> {0, 1}]
    /\ freeSpace \in 0 .. (AccountMod - 1)
    /\ allocated \in 0 .. (AccountMod - 1)
    /\ entries \in Int
    /\ held \subseteq Blocks
    /\ cur \in [offset : Nat, order : 0 .. (MAX_ORDER + 1)]
    /\ arg \in Nat
    /\ order \in Orders
    /\ bmpIndex \in Int
    /\ regions \in MemoryMaps
    /\ scan \in [cursor : Nat, inner : Nat, order : -1 .. MAX_ORDER]

(***************************************************************************)
(* No page is in two places: every block is once on one free list, or with *)
(* one caller, or in the hands of the running call, and no two blocks      *)
(* overlap.  A double insertion, a split that keeps a half it returned or  *)
(* a merge with a block somebody owns would break it.                      *)
(***************************************************************************)
Exclusive ==
    /\ \A k \in Orders : IsInjective(freelists[k])
    /\ FreeBlocks \cap held = {}
    /\ InHand \cap (FreeBlocks \cup held) = {}
    /\ \A b, c \in FreeBlocks \cup held \cup InHand :
          b # c => Pages(b) \cap Pages(c) = {}

(***************************************************************************)
(* Every block is aligned to its size and consists of pages that the       *)
(* memory map declares usable and that belong to the allocator, however    *)
(* often it was split, coalesced and shrunk (__buddy_page_offset and the   *)
(* truncation of buddy_shrink_block rely on the alignment).                *)
(***************************************************************************)
WellPlaced ==
    \A b \in FreeBlocks \cup held \cup InHand :
        /\ b.offset % Size(b.order) = 0
        /\ \A p \in Pages(b) : is_block_usable(p, 0) /\ p < NumPages

(* The places on the lists, each of which is an entry. *)
Places == UNION {{k} \X DOMAIN freelists[k] : k \in Orders}

(***************************************************************************)
(* Between calls every entry allocated from freelist_cache is on exactly   *)
(* one list: splitting and coalescing neither leak an entry nor release    *)
(* one that is linked (test_buddy.c, check_free_integrity).                *)
(***************************************************************************)
EntriesLinked == pc = "idle" => entries = Cardinality(Places)

(***************************************************************************)
(* How far free_space_bytes is from the pages that are free, counting the  *)
(* block a call has in hand where that call's accounting will put it.      *)
(***************************************************************************)
FreePages == PagesOf(FreeBlocks \cup (IF pc \in {"split", "merge"} THEN InHand ELSE {}))

Drift == (freeSpace + (IF pc = "merge" THEN Size(order) ELSE 0) - Cardinality(FreePages))
           % AccountMod

(***************************************************************************)
(* An allocation or a free, over all the steps of its loop, changes        *)
(* free_space_bytes by exactly the pages that changed hands; only a shrink *)
(* or an allocation that found nothing may disturb the accounts.           *)
(***************************************************************************)
AccountsFollowBlocks ==
    [][ pc # "shrink" /\ pc' \notin Stopped => Drift' = Drift ]_vars

(***************************************************************************)
(* Every call returns or stops the machine: the loops of the allocator     *)
(* end, the shrink loop among them, whose condition is an inequality.      *)
(***************************************************************************)
CallsEnd == pc \notin ({"idle"} \cup Stopped) ~> pc \in ({"idle"} \cup Stopped)

(***************************************************************************)
(* buddy_free_block, once the bit is 1: "We are able to coalesce this block *)
(* and its buddy. [...] we'll find the entry of the buddy and merge with   *)
(* it."  The entry that is merged with is on the free list.                *)
(***************************************************************************)
CoalesceFindsEntry == pc # "null_entry"

(***************************************************************************)
(* What the allocator promises about pages, as PagePool states it: the     *)
(* block a free or a split has in hand is free, the one a shrink has in    *)
(* hand is in use.                                                         *)
(***************************************************************************)
poolFree == PagesOf(FreeBlocks \cup (IF pc = "shrink" THEN {} ELSE InHand))
poolUsed == PagesOf(held \cup (IF pc = "shrink" THEN InHand ELSE {}))
poolOpen == pc # "populate"

Pool == INSTANCE PagePool WITH free <- poolFree, used <- poolUsed, open <- poolOpen

(* The allocator implements the page pool. *)
ImplementsPool == Pool!Spec

=============================================================================
