--------------------------- MODULE BuddyRefinement ---------------------------
(***************************************************************************)
(* What the blocks of BuddyAllocator mean for pages and for the counters,  *)
(* for every MAX_ORDER, every region size, every memory map and every      *)
(* width of the counters: the allocator implements the page pool           *)
(* (ImplementsPool), every block is aligned and made of usable pages       *)
(* (WellPlaced), no list entry leaks (EntriesLinked), and allocations and  *)
(* frees keep free_space_bytes in step with the pages that are free        *)
(* (AccountsFollowBlocks).                                                 *)
(*                                                                         *)
(* The first two follow from what an action does to the three sets of      *)
(* blocks, the free ones, the ones callers hold and the one in hand, which *)
(* is stated once per action (...Moves).  BuddyProofs shows that these     *)
(* sets never overlap, so a block that changes its owner takes all its     *)
(* pages along and no others.                                              *)
(*                                                                         *)
(* Entries are counted through the free blocks they stand for, one more    *)
(* while a split or a merge has an entry in hand.  Pages are counted       *)
(* through the sets of pages: as no two blocks overlap, a block that joins *)
(* or leaves them counts for exactly its size.                             *)
(***************************************************************************)
EXTENDS BuddyProofs, FiniteSetTheorems

-----------------------------------------------------------------------------
(***************************************************************************)
(* The pages of sets of blocks.                                            *)
(***************************************************************************)

LEMMA PagesWith ==
    ASSUME NEW A, NEW b
    PROVE  PagesOf(A \cup {b}) = PagesOf(A) \cup Pages(b)
BY DEF PagesOf

LEMMA PagesSingle ==
    ASSUME NEW b
    PROVE  PagesOf({b}) = Pages(b) /\ PagesOf({}) = {}
BY DEF PagesOf

(* Blocks that do not overlap take their own pages along and no others. *)
LEMMA PagesWithout ==
    ASSUME NEW A, Apart(A), NEW b \in A
    PROVE  Pages(b) \subseteq PagesOf(A) /\ PagesOf(A \ {b}) = PagesOf(A) \ Pages(b)
BY DEF PagesOf, Apart

(* Three owners own different pages. *)
LEMMA PagesDisjoint ==
    ASSUME NEW F, NEW H, NEW I, Parts(F, H, I)
    PROVE  /\ PagesOf(F) \cap PagesOf(H) = {}
           /\ PagesOf(F) \cap PagesOf(I) = {}
           /\ PagesOf(H) \cap PagesOf(I) = {}
           /\ Apart(F) /\ Apart(H)
BY DEF PagesOf, Parts, Apart

(* How the pages of the pool are spread over the owners. *)
LEMMA PoolParts ==
    /\ poolFree = PagesOf(FreeBlocks) \cup (IF pc = "shrink" THEN {} ELSE PagesOf(InHand))
    /\ poolUsed = PagesOf(held) \cup (IF pc = "shrink" THEN PagesOf(InHand) ELSE {})
    /\ poolFree' = PagesOf(FreeBlocks') \cup (IF pc' = "shrink" THEN {} ELSE PagesOf(InHand'))
    /\ poolUsed' = PagesOf(held') \cup (IF pc' = "shrink" THEN PagesOf(InHand') ELSE {})
BY DEF poolFree, poolUsed, PagesOf

LEMMA OwnersApart ==
    ASSUME IndInv
    PROVE  /\ Parts(FreeBlocks, held, InHand)
           /\ PagesOf(FreeBlocks) \cap PagesOf(held) = {}
           /\ PagesOf(FreeBlocks) \cap PagesOf(InHand) = {}
           /\ PagesOf(held) \cap PagesOf(InHand) = {}
           /\ Apart(FreeBlocks) /\ Apart(held)
<1>1. Parts(FreeBlocks, held, InHand)
    BY ExclusiveParts DEF IndInv
<1> QED
    BY <1>1, PagesDisjoint

-----------------------------------------------------------------------------
(***************************************************************************)
(* What each action does to the sets of blocks.                            *)
(***************************************************************************)

(* The block to link while the lists are filled. *)
Found == Block(scan.cursor + scan.inner, scan.order)

LEMMA PopulateMoves ==
    ASSUME IndInv, Populate
    PROVE  /\ pc = "populate" /\ pc' = "populate" /\ held = {} /\ held' = {}
           /\ InHand = {} /\ InHand' = {}
           /\ Found \in Blocks
           /\ \/ /\ is_block_usable(Found.offset, Found.order)
                 /\ FreeBlocks' = FreeBlocks \cup {Found} /\ Found \notin FreeBlocks
                 /\ scan' = [cursor |-> scan.cursor, inner |-> scan.inner + Size(scan.order),
                             order |-> scan.order - 1]
              \/ /\ ~is_block_usable(Found.offset, Found.order)
                 /\ FreeBlocks' = FreeBlocks /\ scan' = [scan EXCEPT !.order = @ - 1]
<1> DEFINE o == scan.cursor + scan.inner
           k == scan.order
<1>1. /\ scan.order \in -1 .. MAX_ORDER /\ scan.order >= 0
      /\ scan.inner \in Nat /\ scan.cursor \in Nat /\ MAX_ORDER \in Nat
    BY SizeFacts DEF Populate, Scanning, IndInv, TypeOK
<1>2. k \in Orders /\ o \in Nat /\ Size(k) \in Nat \ {0}
    BY <1>1, SizeFacts DEF Orders
<1>3. pc = "populate" /\ pc' = "populate" /\ held = {} /\ held' = {} /\ InHand = {} /\ InHand' = {}
    BY DEF Populate, Progress, InHand, IndInv
<1>4. Found \in Blocks /\ Found.offset = o /\ Found.order = k
    BY <1>2 DEF Found, Block, Blocks
<1>5. CASE is_block_usable(o, k)
  <2>1. /\ Link(k, o)
        /\ scan' = [cursor |-> scan.cursor, inner |-> scan.inner + Size(k), order |-> k - 1]
      BY <1>5 DEF Populate, allocate_freelist_entry
  <2>2. \A b \in FreeBlocks : b.offset + Size(b.order) <= o
      BY <1>3 DEF Progress, IndInv
  <2>3. Block(o, k) \notin FreeBlocks
    <3> SUFFICES ASSUME Block(o, k) \in FreeBlocks PROVE FALSE
        OBVIOUS
    <3>1. o + Size(k) <= o
        BY <2>2 DEF Block
    <3> QED
        BY <3>1, <1>2
  <2>4. FreeBlocks' = FreeBlocks \cup {Block(o, k)}
      BY <2>1, <2>3, <1>2, PushEntry
  <2> QED
      BY <2>1, <2>3, <2>4, <1>3, <1>4, <1>5 DEF Found
<1>6. CASE ~is_block_usable(o, k)
  <2>1. scan' = [scan EXCEPT !.order = @ - 1] /\ UNCHANGED freelists
      BY <1>6 DEF Populate
  <2>2. FreeBlocks' = FreeBlocks
      BY <2>1 DEF FreeBlocks
  <2> QED
      BY <2>1, <2>2, <1>3, <1>4, <1>6
<1> QED
    BY <1>5, <1>6

LEMMA AllocHeadMoves ==
    ASSUME IndInv, NEW k \in Orders, AllocHead(k)
    PROVE  /\ pc = "idle" /\ pc' = "idle" /\ InHand = {} /\ InHand' = {}
           /\ \E b \in FreeBlocks : FreeBlocks' = FreeBlocks \ {b} /\ held' = held \cup {b}
<1> DEFINE b == Block(Head(freelists[k]), k)
<1>1. /\ pc = "idle" /\ pc' = "idle" /\ freelists[k] # <<>>
      /\ held' = held \cup {b}
      /\ freelists' = [freelists EXCEPT ![k] = Tail(@)]
    BY DEF AllocHead
<1>2. b \in FreeBlocks /\ FreeBlocks' = FreeBlocks \ {b}
    BY <1>1, PopHead
<1>3. InHand = {} /\ InHand' = {}
    BY <1>1 DEF InHand
<1> QED
    BY <1>1, <1>2, <1>3

LEMMA AllocFindMoves ==
    ASSUME IndInv, NEW k \in Orders, NEW j \in Orders, AllocFind(k, j)
    PROVE  /\ pc = "idle" /\ pc' = "split" /\ InHand = {} /\ held' = held
           /\ cur' \in FreeBlocks /\ FreeBlocks' = FreeBlocks \ {cur'} /\ InHand' = {cur'}
<1> DEFINE b == Block(Head(freelists[j]), j)
<1>1. /\ pc = "idle" /\ pc' = "split" /\ freelists[j] # <<>> /\ cur' = b /\ held' = held
      /\ freelists' = [freelists EXCEPT ![j] = Tail(@)]
    BY DEF AllocFind
<1>2. b \in FreeBlocks /\ FreeBlocks' = FreeBlocks \ {b}
    BY <1>1, PopHead
<1>3. InHand = {} /\ InHand' = {cur'}
    BY <1>1 DEF InHand
<1> QED
    BY <1>1, <1>2, <1>3

(* The halves of the block in hand. *)
Lower == Block(cur.offset, cur.order - 1)
Upper == Block(cur.offset + Size(cur.order - 1), cur.order - 1)

LEMMA HalvesInHand ==
    ASSUME IndInv, pc \in {"split", "shrink"}, cur.order >= 1
    PROVE  /\ cur \in Blocks /\ InHand = {cur} /\ cur.order - 1 \in Orders
           /\ Lower \in Blocks /\ Upper \in Blocks /\ Lower # Upper
           /\ Pages(Lower) \cap Pages(Upper) = {} /\ Pages(Lower) \cup Pages(Upper) = Pages(cur)
           /\ Lower \notin FreeBlocks \cup held /\ Upper \notin FreeBlocks \cup held
           /\ Upper = Block(Upper.offset, cur.order - 1) /\ Upper.offset = cur.offset + Size(cur.order - 1)
           /\ Upper.offset \in Nat /\ cur.offset \in Nat
<1>1. /\ TypeOK /\ cur \in AnyBlocks /\ Parts(FreeBlocks, held, {cur}) /\ InHand = {cur}
      /\ FreeBlocks \in SUBSET AnyBlocks /\ held \in SUBSET AnyBlocks /\ Blocks \subseteq AnyBlocks
    BY Busy
<1>2. cur.order \in Orders /\ cur.offset \in Nat
    BY <1>1 DEF IndInv, Progress, AnyBlocks
<1>3. cur \in Blocks
    BY <1>1, <1>2 DEF AnyBlocks, Blocks
<1>4. /\ cur.order - 1 \in Orders /\ Lower \in Blocks /\ Upper \in Blocks /\ Lower # Upper
      /\ Pages(Lower) \cap Pages(Upper) = {} /\ Pages(Lower) \cup Pages(Upper) = Pages(cur)
    BY <1>1, Halves DEF Lower, Upper
<1>5. Lower \notin FreeBlocks \cup held /\ Upper \notin FreeBlocks \cup held
    BY <1>1, <1>4, Cut
<1>6. /\ Upper = Block(Upper.offset, cur.order - 1) /\ Upper.offset = cur.offset + Size(cur.order - 1)
      /\ Upper.offset \in Nat
    BY <1>4 DEF Upper, Block, Blocks
<1> QED
    BY <1>1, <1>2, <1>3, <1>4, <1>5, <1>6

LEMMA SplitOrder ==
    ASSUME IndInv, pc = "split"
    PROVE  cur.order >= 1 /\ arg \in Nat /\ cur.order \in Int /\ arg < cur.order
<1>1. arg \in Nat /\ cur.order \in Orders /\ arg < cur.order
    BY DEF Progress, IndInv, TypeOK
<1> QED
    BY <1>1, SizeFacts DEF Orders

LEMMA SplitHalfMoves ==
    ASSUME IndInv, SplitHalf
    PROVE  /\ pc = "split" /\ pc' = "split" /\ cur.order >= 1 /\ held' = held
           /\ FreeBlocks' = FreeBlocks \cup {Upper} /\ InHand' = {Lower}
<1>1. /\ pc = "split" /\ pc' = "split" /\ held' = held /\ cur' = Lower
      /\ Link(cur.order - 1, cur.offset + Size(cur.order - 1))
    BY DEF SplitHalf, allocate_freelist_entry, Lower
<1>2. cur.order >= 1
    BY <1>1, SplitOrder
<1>3. FreeBlocks' = FreeBlocks \cup {Upper}
    BY <1>1, <1>2, HalvesInHand, PushEntry DEF Upper
<1>4. InHand' = {Lower}
    BY <1>1 DEF InHand
<1> QED
    BY <1>1, <1>2, <1>3, <1>4

LEMMA SplitLastMoves ==
    ASSUME IndInv, SplitLast
    PROVE  /\ pc = "split" /\ pc' = "idle" /\ cur.order >= 1 /\ held' = held \cup {Upper}
           /\ FreeBlocks' = FreeBlocks \cup {Lower} /\ InHand' = {}
<1>1. pc = "split" /\ cur.order - 1 <= arg /\ Return
    BY DEF SplitLast
<1>2. cur.order >= 1 /\ arg = cur.order - 1
    BY <1>1, SplitOrder
<1>3. Link(cur.order - 1, cur.offset) /\ held' = held \cup {Upper}
    BY <1>2 DEF SplitLast, Upper
<1>4. FreeBlocks' = FreeBlocks \cup {Lower}
    BY <1>1, <1>2, <1>3, HalvesInHand, PushEntry DEF Lower
<1> QED
    BY <1>1, <1>2, <1>3, <1>4, ReturnType

LEMMA FreeAloneMoves ==
    ASSUME IndInv, NEW b \in held, FreeAlone(b)
    PROVE  /\ pc = "idle" /\ pc' = "idle" /\ InHand = {} /\ InHand' = {}
           /\ held' = held \ {b} /\ FreeBlocks' = FreeBlocks \cup {b}
<1>1. pc = "idle" /\ pc' = "idle" /\ held' = held \ {b} /\ Link(b.order, b.offset)
    BY DEF FreeAlone, allocate_freelist_entry
<1>2. Parts(FreeBlocks, held, {}) /\ b \in Blocks
    BY <1>1, Idle
<1>3. b.order \in Orders /\ b.offset \in Nat /\ b = Block(b.offset, b.order) /\ b \notin FreeBlocks
    BY <1>2 DEF Blocks, Block, Parts
<1>4. FreeBlocks' = FreeBlocks \cup {b}
    BY <1>1, <1>3, PushEntry
<1>5. InHand = {} /\ InHand' = {}
    BY <1>1 DEF InHand
<1> QED
    BY <1>1, <1>4, <1>5

(* The buddy of a block, and the block the two make up. *)
BuddyOf(b) == Block(buddy_page_offset(b.offset, b.order), b.order)
Merged(b) == [offset |-> MinOf(b.offset, buddy_page_offset(b.offset, b.order)), order |-> b.order + 1]

LEMMA FreeMergeMoves ==
    ASSUME IndInv, NEW b \in held, FreeMerge(b)
    PROVE  /\ pc = "idle" /\ pc' = "merge" /\ InHand = {} /\ held' = held \ {b} /\ b \in Blocks
           /\ BuddyOf(b) \in FreeBlocks /\ FreeBlocks' = FreeBlocks \ {BuddyOf(b)}
           /\ InHand' = {Merged(b)} /\ Merged(b) \in AnyBlocks
           /\ Pages(Merged(b)) = Pages(b) \cup Pages(BuddyOf(b))
<1> DEFINE o == buddy_page_offset(b.offset, b.order)
<1>1. pc = "idle" /\ pc' = "merge" /\ held' = held \ {b} /\ Unlink(b.order, o) /\ cur' = Merged(b)
    BY DEF FreeMerge, Merged
<1>2. b \in Blocks /\ b.order \in Orders /\ InHand = {}
    BY <1>1, Idle DEF Blocks
<1>3. Block(o, b.order) \in FreeBlocks /\ FreeBlocks' = FreeBlocks \ {Block(o, b.order)} /\ o \in Nat
    BY <1>1, <1>2, PopEntry
<1>4. Merged(b) \in AnyBlocks /\ Pages(Merged(b)) = Pages(b) \cup Pages(Block(o, b.order))
    BY <1>2, <1>3, Whole DEF Merged
<1>5. InHand' = {Merged(b)}
    BY <1>1 DEF InHand
<1> QED
    BY <1>1, <1>2, <1>3, <1>4, <1>5 DEF BuddyOf

LEMMA CoalesceMoves ==
    ASSUME IndInv, Coalesce
    PROVE  /\ pc = "merge" /\ pc' = "merge" /\ InHand = {cur} /\ held' = held /\ cur \in Blocks
           /\ BuddyOf(cur) \in FreeBlocks /\ FreeBlocks' = FreeBlocks \ {BuddyOf(cur)}
           /\ InHand' = {Merged(cur)} /\ Merged(cur) \in AnyBlocks
           /\ Pages(Merged(cur)) = Pages(cur) \cup Pages(BuddyOf(cur))
<1> DEFINE o == buddy_page_offset(cur.offset, cur.order)
<1>1. /\ pc = "merge" /\ pc' = "merge" /\ held' = held /\ Unlink(cur.order, o) /\ cur' = Merged(cur)
      /\ cur.order < MAX_ORDER
    BY DEF Coalesce, Coalescing, Merged
<1>2. cur \in AnyBlocks /\ InHand = {cur}
    BY <1>1, Busy
<1>3. cur.order \in Orders /\ cur \in Blocks
    BY <1>1, <1>2, SizeFacts DEF Blocks, AnyBlocks, Orders
<1>4. Block(o, cur.order) \in FreeBlocks /\ FreeBlocks' = FreeBlocks \ {Block(o, cur.order)} /\ o \in Nat
    BY <1>1, <1>3, PopEntry
<1>5. Merged(cur) \in AnyBlocks /\ Pages(Merged(cur)) = Pages(cur) \cup Pages(Block(o, cur.order))
    BY <1>3, <1>4, Whole DEF Merged
<1>6. InHand' = {Merged(cur)}
    BY <1>1 DEF InHand
<1> QED
    BY <1>1, <1>2, <1>3, <1>4, <1>5, <1>6 DEF BuddyOf

LEMMA FreeLinkMoves ==
    ASSUME IndInv, FreeLink
    PROVE  /\ pc = "merge" /\ pc' = "idle" /\ InHand = {cur} /\ InHand' = {}
           /\ held' = held /\ FreeBlocks' = FreeBlocks \cup {cur}
<1>1. pc = "merge" /\ cur.order <= MAX_ORDER /\ Return /\ Link(cur.order, cur.offset) /\ held' = held
    BY DEF FreeLink
<1>2. Parts(FreeBlocks, held, {cur}) /\ cur \in AnyBlocks /\ InHand = {cur}
    BY <1>1, Busy
<1>3. /\ cur.order \in Orders /\ cur.offset \in Nat /\ cur = Block(cur.offset, cur.order)
      /\ cur \notin FreeBlocks
    BY <1>1, <1>2, SizeFacts DEF AnyBlocks, Orders, Block, Parts
<1>4. FreeBlocks' = FreeBlocks \cup {cur}
    BY <1>1, <1>3, PushEntry
<1> QED
    BY <1>1, <1>2, <1>4, ReturnType

(* A shrink, or a free that finds no entry, takes the block in hand. *)
LEMMA TakeInHandMoves ==
    ASSUME IndInv, NEW b \in held, (\E n : Shrink(b, n)) \/ FreeNullEntry(b)
    PROVE  /\ pc = "idle" /\ pc' \in {"shrink", "null_entry"} /\ InHand = {} /\ InHand' = {b}
           /\ held' = held \ {b} /\ FreeBlocks' = FreeBlocks
           /\ pc' = "shrink" <=> ~FreeNullEntry(b)
<1>1. /\ pc = "idle" /\ pc' \in {"shrink", "null_entry"} /\ held' = held \ {b} /\ cur' = b
      /\ freelists' = freelists /\ (pc' = "shrink" <=> ~FreeNullEntry(b))
    BY DEF Shrink, FreeNullEntry
<1> QED
    BY <1>1 DEF FreeBlocks, InHand

LEMMA ShrinkMoves ==
    ASSUME IndInv, ShrinkRight \/ ShrinkLeft
    PROVE  /\ pc = "shrink" /\ pc' = "shrink" /\ cur.order >= 1
           /\ \/ ShrinkRight /\ FreeBlocks' = FreeBlocks /\ held' = held \cup {Lower} /\ InHand' = {Upper}
              \/ ShrinkLeft /\ FreeBlocks' = FreeBlocks \cup {Upper} /\ held' = held /\ InHand' = {Lower}
<1>1. pc = "shrink" /\ pc' = "shrink" /\ arg # Size(cur.order)
    BY DEF ShrinkRight, ShrinkLeft
<1>2. cur.order >= 1
    BY <1>1, ShrinkGoesOn
<1>3. CASE ShrinkRight
  <2>1. held' = held \cup {Lower} /\ cur' = Upper /\ freelists' = freelists
      BY <1>3 DEF ShrinkRight, Lower, Upper
  <2> QED
      BY <2>1, <1>1, <1>2, <1>3 DEF FreeBlocks, InHand
<1>4. CASE ShrinkLeft
  <2>1. held' = held /\ cur' = Lower /\ Link(cur.order - 1, cur.offset + Size(cur.order - 1))
      BY <1>4 DEF ShrinkLeft, allocate_freelist_entry, Lower
  <2>2. FreeBlocks' = FreeBlocks \cup {Upper}
      BY <2>1, <1>1, <1>2, HalvesInHand, PushEntry DEF Upper
  <2>3. InHand' = {Lower}
      BY <2>1, <1>1 DEF InHand
  <2> QED
      BY <2>1, <2>2, <2>3, <1>1, <1>2, <1>4
<1> QED
    BY <1>3, <1>4

LEMMA ShrinkDoneMoves ==
    ASSUME IndInv, ShrinkDone
    PROVE  /\ pc = "shrink" /\ pc' = "idle" /\ InHand = {cur} /\ InHand' = {}
           /\ held' = held \cup {cur} /\ FreeBlocks' = FreeBlocks
<1>1. pc = "shrink" /\ held' = held \cup {cur} /\ Return /\ freelists' = freelists
    BY DEF ShrinkDone
<1> QED
    BY <1>1, ReturnType, Busy DEF FreeBlocks

(* The steps that move no block. *)
LEMMA NothingMoves ==
    ASSUME IndInv,
           \/ PopulateNext \/ PopulateDone \/ CoalesceNullEntry \/ FreeLinkPastEnd \/ UNCHANGED vars
           \/ \E k \in Orders : AllocNothingLeft(k)
    PROVE  /\ FreeBlocks' = FreeBlocks /\ held' = held /\ InHand' = InHand
           /\ pc' = "shrink" <=> pc = "shrink"
           /\ pc' = "populate" => pc = "populate"
           /\ pc = "populate" /\ pc' # "populate" => PopulateDone
BY DEF PopulateNext, PopulateDone, CoalesceNullEntry, FreeLinkPastEnd, AllocNothingLeft, vars,
       FreeBlocks, InHand

-----------------------------------------------------------------------------
(***************************************************************************)
(* The page pool: every step of the allocator is a step of the pool, or    *)
(* none.                                                                   *)
(***************************************************************************)

PoolStutter == poolFree' = poolFree /\ poolUsed' = poolUsed /\ poolOpen' = poolOpen

LEMMA InitPool == Init => Pool!Init
<1> SUFFICES ASSUME Init PROVE Pool!Init
    OBVIOUS
<1>1. \A k \in Orders : Range(freelists[k]) = {}
    BY DEF Init, Range
<1>2. FreeBlocks = {} /\ InHand = {} /\ held = {} /\ pc = "populate"
    BY <1>1 DEF FreeBlocks, InHand, Init
<1>3. poolFree = {} /\ poolUsed = {}
    BY <1>2, PagesSingle DEF poolFree, poolUsed
<1> QED
    BY <1>2, <1>3 DEF Pool!Init, poolOpen

LEMMA PopulatePool ==
    ASSUME IndInv, Populate
    PROVE  Pool!Fill
<1>1. /\ pc = "populate" /\ pc' = "populate" /\ held = {} /\ held' = {} /\ InHand = {} /\ InHand' = {}
      /\ FreeBlocks \subseteq FreeBlocks'
    BY PopulateMoves
<1>2. PagesOf(FreeBlocks) \subseteq PagesOf(FreeBlocks') /\ PagesOf({}) = {}
    BY <1>1 DEF PagesOf
<1>3. poolFree \subseteq poolFree' /\ poolUsed = {} /\ poolUsed' = {}
    BY <1>1, <1>2, PoolParts
<1> QED
    BY <1>1, <1>3 DEF Pool!Fill, poolOpen

LEMMA AllocHeadPool ==
    ASSUME IndInv, NEW k \in Orders, AllocHead(k)
    PROVE  Pool!Take
<1>1. /\ pc = "idle" /\ pc' = "idle" /\ InHand = {} /\ InHand' = {}
      /\ \E b \in FreeBlocks : FreeBlocks' = FreeBlocks \ {b} /\ held' = held \cup {b}
    BY AllocHeadMoves
<1>2. PICK b \in FreeBlocks : FreeBlocks' = FreeBlocks \ {b} /\ held' = held \cup {b}
    BY <1>1
<1>3. /\ Pages(b) \subseteq PagesOf(FreeBlocks)
      /\ PagesOf(FreeBlocks') = PagesOf(FreeBlocks) \ Pages(b)
      /\ PagesOf(held') = PagesOf(held) \cup Pages(b) /\ PagesOf({}) = {}
    BY <1>2, OwnersApart, PagesWithout, PagesWith, PagesSingle
<1>4. poolFree' \subseteq poolFree /\ poolUsed' = poolUsed \cup (poolFree \ poolFree')
    BY <1>1, <1>3, PoolParts
<1> QED
    BY <1>1, <1>4 DEF Pool!Take, poolOpen

LEMMA AllocFindPool ==
    ASSUME IndInv, NEW k \in Orders, NEW j \in Orders, AllocFind(k, j)
    PROVE  PoolStutter
<1>1. /\ pc = "idle" /\ pc' = "split" /\ InHand = {} /\ held' = held
      /\ cur' \in FreeBlocks /\ FreeBlocks' = FreeBlocks \ {cur'} /\ InHand' = {cur'}
    BY AllocFindMoves
<1>2. /\ PagesOf(InHand') = Pages(cur') /\ PagesOf({}) = {}
      /\ Pages(cur') \subseteq PagesOf(FreeBlocks)
      /\ PagesOf(FreeBlocks') = PagesOf(FreeBlocks) \ Pages(cur')
    BY <1>1, OwnersApart, PagesWithout, PagesSingle
<1>3. poolFree' = poolFree /\ poolUsed' = poolUsed
    BY <1>1, <1>2, PoolParts
<1> QED
    BY <1>1, <1>3 DEF PoolStutter, poolOpen

LEMMA SplitHalfPool ==
    ASSUME IndInv, SplitHalf
    PROVE  PoolStutter
<1>1. /\ pc = "split" /\ pc' = "split" /\ cur.order >= 1 /\ held' = held
      /\ FreeBlocks' = FreeBlocks \cup {Upper} /\ InHand' = {Lower}
    BY SplitHalfMoves
<1>2. InHand = {cur} /\ Pages(Lower) \cup Pages(Upper) = Pages(cur)
    BY <1>1, HalvesInHand
<1>3. /\ PagesOf(InHand) = Pages(cur) /\ PagesOf(InHand') = Pages(Lower)
      /\ PagesOf(FreeBlocks') = PagesOf(FreeBlocks) \cup Pages(Upper)
    BY <1>1, <1>2, PagesWith, PagesSingle
<1>4. poolFree' = poolFree /\ poolUsed' = poolUsed
    BY <1>1, <1>2, <1>3, PoolParts
<1> QED
    BY <1>1, <1>4 DEF PoolStutter, poolOpen

(* The upper half leaves the pool, the lower one stays. *)
LEMMA SplitLastPool ==
    ASSUME IndInv, SplitLast
    PROVE  Pool!Take
<1>1. /\ pc = "split" /\ pc' = "idle" /\ cur.order >= 1 /\ held' = held \cup {Upper}
      /\ FreeBlocks' = FreeBlocks \cup {Lower} /\ InHand' = {}
    BY SplitLastMoves
<1>2. /\ InHand = {cur} /\ Pages(Lower) \cap Pages(Upper) = {}
      /\ Pages(Lower) \cup Pages(Upper) = Pages(cur)
    BY <1>1, HalvesInHand
<1>3. /\ PagesOf(InHand) = Pages(cur) /\ PagesOf(InHand') = {}
      /\ PagesOf(FreeBlocks') = PagesOf(FreeBlocks) \cup Pages(Lower)
      /\ PagesOf(held') = PagesOf(held) \cup Pages(Upper)
    BY <1>1, <1>2, PagesWith, PagesSingle
<1>4. PagesOf(FreeBlocks) \cap PagesOf(InHand) = {}
    BY OwnersApart
<1>5. /\ poolFree = PagesOf(FreeBlocks) \cup Pages(Lower) \cup Pages(Upper)
      /\ poolUsed = PagesOf(held)
      /\ poolFree' = PagesOf(FreeBlocks) \cup Pages(Lower)
      /\ poolUsed' = PagesOf(held) \cup Pages(Upper)
    BY <1>1, <1>2, <1>3, PoolParts
<1>6. PagesOf(FreeBlocks) \cap Pages(Upper) = {}
    BY <1>2, <1>3, <1>4
<1>7. poolFree' \subseteq poolFree /\ poolUsed' = poolUsed \cup (poolFree \ poolFree')
    BY <1>2, <1>5, <1>6
<1> QED
    BY <1>1, <1>7 DEF Pool!Take, poolOpen

LEMMA FreeAlonePool ==
    ASSUME IndInv, NEW b \in held, FreeAlone(b)
    PROVE  Pool!Give
<1>1. /\ pc = "idle" /\ pc' = "idle" /\ InHand = {} /\ InHand' = {}
      /\ held' = held \ {b} /\ FreeBlocks' = FreeBlocks \cup {b}
    BY FreeAloneMoves
<1>2. /\ Pages(b) \subseteq PagesOf(held)
      /\ PagesOf(held') = PagesOf(held) \ Pages(b)
      /\ PagesOf(FreeBlocks') = PagesOf(FreeBlocks) \cup Pages(b) /\ PagesOf({}) = {}
    BY <1>1, OwnersApart, PagesWithout, PagesWith, PagesSingle
<1>3. poolUsed' \subseteq poolUsed /\ poolFree' = poolFree \cup (poolUsed \ poolUsed')
    BY <1>1, <1>2, PoolParts
<1> QED
    BY <1>1, <1>3 DEF Pool!Give, poolOpen

LEMMA FreeMergePool ==
    ASSUME IndInv, NEW b \in held, FreeMerge(b)
    PROVE  Pool!Give
<1> DEFINE c == BuddyOf(b)
           m == Merged(b)
<1>1. /\ pc = "idle" /\ pc' = "merge" /\ InHand = {} /\ held' = held \ {b}
      /\ c \in FreeBlocks /\ FreeBlocks' = FreeBlocks \ {c}
      /\ InHand' = {m} /\ Pages(m) = Pages(b) \cup Pages(c)
    BY FreeMergeMoves
<1> HIDE DEF c, m
<1>2. /\ Pages(b) \subseteq PagesOf(held) /\ PagesOf(held') = PagesOf(held) \ Pages(b)
      /\ Pages(c) \subseteq PagesOf(FreeBlocks) /\ PagesOf(FreeBlocks') = PagesOf(FreeBlocks) \ Pages(c)
      /\ PagesOf(InHand') = Pages(m) /\ PagesOf({}) = {}
    BY <1>1, OwnersApart, PagesWithout, PagesSingle
<1>3. poolUsed' \subseteq poolUsed /\ poolFree' = poolFree \cup (poolUsed \ poolUsed')
    BY <1>1, <1>2, PoolParts
<1> QED
    BY <1>1, <1>3 DEF Pool!Give, poolOpen

LEMMA CoalescePool ==
    ASSUME IndInv, Coalesce
    PROVE  PoolStutter
<1> DEFINE c == BuddyOf(cur)
           m == Merged(cur)
<1>1. /\ pc = "merge" /\ pc' = "merge" /\ InHand = {cur} /\ held' = held
      /\ c \in FreeBlocks /\ FreeBlocks' = FreeBlocks \ {c}
      /\ InHand' = {m} /\ Pages(m) = Pages(cur) \cup Pages(c)
    BY CoalesceMoves
<1> HIDE DEF c, m
<1>2. /\ Pages(c) \subseteq PagesOf(FreeBlocks) /\ PagesOf(FreeBlocks') = PagesOf(FreeBlocks) \ Pages(c)
      /\ PagesOf(InHand) = Pages(cur) /\ PagesOf(InHand') = Pages(m)
    BY <1>1, OwnersApart, PagesWithout, PagesSingle
<1>3. poolFree' = poolFree /\ poolUsed' = poolUsed
    BY <1>1, <1>2, PoolParts
<1> QED
    BY <1>1, <1>3 DEF PoolStutter, poolOpen

LEMMA FreeLinkPool ==
    ASSUME IndInv, FreeLink
    PROVE  PoolStutter
<1>1. /\ pc = "merge" /\ pc' = "idle" /\ InHand = {cur} /\ InHand' = {}
      /\ held' = held /\ FreeBlocks' = FreeBlocks \cup {cur}
    BY FreeLinkMoves
<1>2. /\ PagesOf(InHand) = Pages(cur) /\ PagesOf(InHand') = {}
      /\ PagesOf(FreeBlocks') = PagesOf(FreeBlocks) \cup Pages(cur)
    BY <1>1, PagesWith, PagesSingle
<1>3. poolFree' = poolFree /\ poolUsed' = poolUsed
    BY <1>1, <1>2, PoolParts
<1> QED
    BY <1>1, <1>3 DEF PoolStutter, poolOpen

(* A free that finds no entry has given the pages back; a shrink has not. *)
LEMMA FreeNullEntryPool ==
    ASSUME IndInv, NEW b \in held, FreeNullEntry(b)
    PROVE  Pool!Give
<1>1. /\ pc = "idle" /\ pc' = "null_entry" /\ InHand = {} /\ InHand' = {b}
      /\ held' = held \ {b} /\ FreeBlocks' = FreeBlocks
    BY TakeInHandMoves
<1>2. /\ Pages(b) \subseteq PagesOf(held) /\ PagesOf(held') = PagesOf(held) \ Pages(b)
      /\ PagesOf(InHand') = Pages(b) /\ PagesOf({}) = {}
    BY <1>1, OwnersApart, PagesWithout, PagesSingle
<1>3. poolUsed' \subseteq poolUsed /\ poolFree' = poolFree \cup (poolUsed \ poolUsed')
    BY <1>1, <1>2, PoolParts
<1> QED
    BY <1>1, <1>3 DEF Pool!Give, poolOpen

LEMMA ShrinkPool ==
    ASSUME IndInv, NEW b \in held, NEW n, Shrink(b, n)
    PROVE  PoolStutter
<1>0. pc' = "shrink"
    BY DEF Shrink
<1>1. /\ pc = "idle" /\ InHand = {} /\ InHand' = {b}
      /\ held' = held \ {b} /\ FreeBlocks' = FreeBlocks
    BY TakeInHandMoves
<1>2. /\ Pages(b) \subseteq PagesOf(held) /\ PagesOf(held') = PagesOf(held) \ Pages(b)
      /\ PagesOf(InHand') = Pages(b) /\ PagesOf({}) = {}
    BY <1>1, OwnersApart, PagesWithout, PagesSingle
<1>3. poolFree' = poolFree /\ poolUsed' = poolUsed
    BY <1>0, <1>1, <1>2, PoolParts
<1> QED
    BY <1>0, <1>1, <1>3 DEF PoolStutter, poolOpen

(* A shrink returns the upper half, or goes on with it. *)
LEMMA ShrinkStepPool ==
    ASSUME IndInv, ShrinkRight \/ ShrinkLeft
    PROVE  PoolStutter \/ Pool!Give
<1>1. /\ pc = "shrink" /\ pc' = "shrink" /\ cur.order >= 1
      /\ \/ FreeBlocks' = FreeBlocks /\ held' = held \cup {Lower} /\ InHand' = {Upper}
         \/ FreeBlocks' = FreeBlocks \cup {Upper} /\ held' = held /\ InHand' = {Lower}
    BY ShrinkMoves
<1>2. /\ InHand = {cur} /\ Pages(Lower) \cap Pages(Upper) = {}
      /\ Pages(Lower) \cup Pages(Upper) = Pages(cur) /\ PagesOf(InHand) = Pages(cur)
    BY <1>1, HalvesInHand, PagesSingle
<1>3. CASE FreeBlocks' = FreeBlocks /\ held' = held \cup {Lower} /\ InHand' = {Upper}
  <2>1. PagesOf(held') = PagesOf(held) \cup Pages(Lower) /\ PagesOf(InHand') = Pages(Upper)
      BY <1>3, PagesWith, PagesSingle
  <2>2. poolFree' = poolFree /\ poolUsed' = poolUsed
      BY <2>1, <1>1, <1>2, <1>3, PoolParts
  <2> QED
      BY <2>2, <1>1 DEF PoolStutter, poolOpen
<1>4. CASE FreeBlocks' = FreeBlocks \cup {Upper} /\ held' = held /\ InHand' = {Lower}
  <2>1. PagesOf(FreeBlocks') = PagesOf(FreeBlocks) \cup Pages(Upper) /\ PagesOf(InHand') = Pages(Lower)
      BY <1>4, PagesWith, PagesSingle
  <2>2. PagesOf(held) \cap PagesOf(InHand) = {}
      BY OwnersApart
  <2>3. /\ poolFree = PagesOf(FreeBlocks)
        /\ poolUsed = PagesOf(held) \cup Pages(Lower) \cup Pages(Upper)
        /\ poolFree' = PagesOf(FreeBlocks) \cup Pages(Upper)
        /\ poolUsed' = PagesOf(held) \cup Pages(Lower)
      BY <2>1, <1>1, <1>2, <1>4, PoolParts
  <2>4. PagesOf(held) \cap Pages(Upper) = {}
      BY <2>2, <1>2
  <2>5. poolUsed' \subseteq poolUsed /\ poolFree' = poolFree \cup (poolUsed \ poolUsed')
      BY <2>3, <2>4, <1>2
  <2> QED
      BY <2>5, <1>1 DEF Pool!Give, poolOpen
<1> QED
    BY <1>1, <1>3, <1>4

LEMMA ShrinkDonePool ==
    ASSUME IndInv, ShrinkDone
    PROVE  PoolStutter
<1>1. /\ pc = "shrink" /\ pc' = "idle" /\ InHand = {cur} /\ InHand' = {}
      /\ held' = held \cup {cur} /\ FreeBlocks' = FreeBlocks
    BY ShrinkDoneMoves
<1>2. PagesOf(InHand) = Pages(cur) /\ PagesOf(held') = PagesOf(held) \cup Pages(cur) /\ PagesOf(InHand') = {}
    BY <1>1, PagesWith, PagesSingle
<1>3. poolFree' = poolFree /\ poolUsed' = poolUsed
    BY <1>1, <1>2, PoolParts
<1> QED
    BY <1>1, <1>3 DEF PoolStutter, poolOpen

LEMMA NothingMovesPool ==
    ASSUME IndInv,
           \/ PopulateNext \/ PopulateDone \/ CoalesceNullEntry \/ FreeLinkPastEnd \/ UNCHANGED vars
           \/ \E k \in Orders : AllocNothingLeft(k)
    PROVE  PoolStutter \/ Pool!Open
<1>1. /\ FreeBlocks' = FreeBlocks /\ held' = held /\ InHand' = InHand
      /\ pc' = "shrink" <=> pc = "shrink"
      /\ pc' = "populate" => pc = "populate"
    BY NothingMoves
<1>2. poolFree' = poolFree /\ poolUsed' = poolUsed
    BY <1>1, PoolParts
<1> QED
    BY <1>1, <1>2 DEF PoolStutter, Pool!Open, poolOpen

LEMMA NextPool == IndInv /\ [Next]_vars => [Pool!Next]_(Pool!poolVars)
<1> SUFFICES ASSUME IndInv, [Next]_vars PROVE Pool!Next \/ PoolStutter
    BY DEF Pool!poolVars, PoolStutter
<1>1. CASE Alloc
    BY <1>1, AllocHeadPool, AllocFindPool, NothingMovesPool DEF Alloc, Pool!Next
<1>2. CASE Free
    BY <1>2, FreeAlonePool, FreeMergePool, FreeNullEntryPool DEF Free, Pool!Next
<1>3. CASE \E b \in held : \E n \in 1 .. Size(b.order) : Shrink(b, n)
    BY <1>3, ShrinkPool
<1>4. CASE Running
    BY <1>4, PopulatePool, SplitHalfPool, SplitLastPool, CoalescePool, FreeLinkPool, ShrinkStepPool,
       ShrinkDonePool, NothingMovesPool DEF Running, Pool!Next
<1>5. CASE UNCHANGED vars
    BY <1>5, NothingMovesPool DEF Pool!Next
<1> QED
    BY <1>1, <1>2, <1>3, <1>4, <1>5 DEF Next

(***************************************************************************)
(* The buddy allocator implements the page pool: through all the steps of  *)
(* a split, a coalescing or a shrink, pages only enter while the lists are *)
(* filled, and afterwards an allocation takes pages that were free, a free *)
(* and a shrink give back pages that were in use, and none is lost.        *)
(***************************************************************************)
THEOREM PoolImplemented == Spec => ImplementsPool
<1>1. Init => Pool!Init
    BY InitPool
<1>2. IndInv /\ [Next]_vars => [Pool!Next]_(Pool!poolVars)
    BY NextPool
<1> QED
    BY <1>1, <1>2, Invariance, PTL DEF Spec, ImplementsPool, Pool!Spec

-----------------------------------------------------------------------------
(***************************************************************************)
(* Placement.  While the lists are filled the cursor is aligned to the     *)
(* order that was tried last; after that, halves of aligned blocks are     *)
(* aligned, and so is what an aligned block and its buddy make up.         *)
(***************************************************************************)

Aligned(b) == b.offset % Size(b.order) = 0
Good(p) == is_block_usable(p, 0) /\ p < NumPages
AllBlocks == FreeBlocks \cup held \cup InHand

ScanAligned ==
    pc = "populate" =>
        /\ scan.cursor % Size(MAX_ORDER) = 0
        /\ \/ scan.inner = 0 /\ scan.order = MAX_ORDER
           \/ (scan.cursor + scan.inner) % Size(scan.order + 1) = 0

PlacedInv == WellPlaced /\ ScanAligned

LEMMA Multiple ==
    ASSUME NEW s \in Nat \ {0}, NEW o \in Nat
    PROVE  o % s = 0 <=> \E q \in Nat : o = s * q
<1>1. ASSUME o % s = 0 PROVE \E q \in Nat : o = s * q
  <2>1. o = s * (o \div s) + (o % s) /\ o \div s \in Nat
      OBVIOUS
  <2> QED
      BY <1>1, <2>1
<1>2. ASSUME NEW q \in Nat, o = s * q PROVE o % s = 0
    BY <1>2
<1> QED
    BY <1>1, <1>2

(* A multiple of 2s is one of s; s more, and it still is. *)
LEMMA HalfMultiple ==
    ASSUME NEW s \in Nat \ {0}, NEW o \in Nat, o % (2 * s) = 0
    PROVE  o % s = 0 /\ (o + s) % s = 0
<1>1. 2 * s \in Nat \ {0} /\ o + s \in Nat
    OBVIOUS
<1>2. PICK q \in Nat : o = (2 * s) * q
    BY <1>1, Multiple
<1>3. o = s * (2 * q) /\ o + s = s * (2 * q + 1) /\ 2 * q \in Nat /\ 2 * q + 1 \in Nat
    BY <1>2
<1> QED
    BY <1>1, <1>3, Multiple

LEMMA NextMultiple ==
    ASSUME NEW s \in Nat \ {0}, NEW o \in Nat, o % s = 0
    PROVE  (o + s) % s = 0
<1>1. PICK q \in Nat : o = s * q
    BY Multiple
<1>2. o + s = s * (q + 1) /\ q + 1 \in Nat /\ o + s \in Nat
    BY <1>1
<1> QED
    BY <1>2, Multiple

(* A multiple of s that is no multiple of 2s is s more than one. *)
LEMMA OddMultiple ==
    ASSUME NEW s \in Nat \ {0}, NEW o \in Nat, o % s = 0, o % (2 * s) # 0, o - s \in Nat
    PROVE  (o - s) % (2 * s) = 0
<1>1. PICK q \in Nat : o = s * q
    BY Multiple
<1>2. q = 2 * (q \div 2) \/ q = 2 * (q \div 2) + 1
    OBVIOUS
<1>3. q \div 2 \in Nat /\ 2 * s \in Nat \ {0}
    OBVIOUS
<1> DEFINE h == q \div 2
<1>4. h \in Nat
    BY <1>3
<1> HIDE DEF h
<1>5. CASE q = 2 * h
  <2>1. o = (2 * s) * h
      BY <1>1, <1>4, <1>5
  <2> QED
      BY <2>1, <1>3, <1>4, Multiple
<1>6. CASE q = 2 * h + 1
  <2>1. o - s = (2 * s) * h
      BY <1>1, <1>4, <1>6
  <2> QED
      BY <2>1, <1>3, <1>4, Multiple
<1> QED
    BY <1>2, <1>5, <1>6 DEF h

LEMMA HalvesAligned ==
    ASSUME IndInv, pc \in {"split", "shrink"}, cur.order >= 1, Aligned(cur)
    PROVE  Aligned(Lower) /\ Aligned(Upper)
<1> DEFINE k == cur.order - 1
<1>1. cur.order \in Orders /\ k \in Orders /\ cur.offset \in Nat
    BY HalvesInHand DEF Blocks
<1>2. cur.order = k + 1 /\ k \in 0 .. MAX_ORDER
    BY <1>1, SizeFacts DEF Orders
<1>3. Size(cur.order) = 2 * Size(k) /\ Size(k) \in Nat \ {0}
    BY <1>2, SizeFacts
<1>4. cur.offset % (2 * Size(k)) = 0
    BY <1>3 DEF Aligned
<1> HIDE DEF k
<1>5. cur.offset % Size(k) = 0 /\ (cur.offset + Size(k)) % Size(k) = 0
    BY <1>1, <1>3, <1>4, HalfMultiple
<1> QED
    BY <1>5 DEF Aligned, Lower, Upper, Block, k

LEMMA MergedAligned ==
    ASSUME NEW b \in Blocks, Aligned(b), BuddyOf(b).offset \in Nat
    PROVE  Aligned(Merged(b))
<1> DEFINE s == Size(b.order)
           o == buddy_page_offset(b.offset, b.order)
<1>1. b.offset \in Nat /\ b.order \in Orders /\ o \in Nat
    BY DEF Blocks, BuddyOf, Block
<1>2. s \in Nat \ {0} /\ Size(b.order + 1) = 2 * s
    BY <1>1, SizeFacts DEF Orders
<1>3. o = IF b.offset % Size(b.order + 1) # 0 THEN b.offset - Size(b.order) ELSE b.offset + Size(b.order)
    BY DEF buddy_page_offset
<1>4. b.offset % s = 0
    BY DEF Aligned
<1>5. o = IF b.offset % (2 * s) # 0 THEN b.offset - s ELSE b.offset + s
    BY <1>2, <1>3
<1> HIDE DEF s, o
<1>6. CASE b.offset % (2 * s) # 0
  <2>1. o = b.offset - s /\ MinOf(b.offset, o) = o
      BY <1>1, <1>2, <1>5, <1>6 DEF MinOf
  <2>2. o % (2 * s) = 0
      BY <2>1, <1>1, <1>2, <1>4, <1>6, OddMultiple
  <2> QED
      BY <2>1, <2>2, <1>2 DEF Aligned, Merged, o
<1>7. CASE b.offset % (2 * s) = 0
  <2>1. o = b.offset + s /\ MinOf(b.offset, o) = b.offset
      BY <1>1, <1>2, <1>5, <1>7 DEF MinOf
  <2> QED
      BY <2>1, <1>2, <1>7 DEF Aligned, Merged, o
<1> QED
    BY <1>6, <1>7

(* Blocks that were there, or are aligned and made of good pages, will do. *)
LEMMA StaysPlaced ==
    ASSUME WellPlaced, regions' = regions,
           \A b \in AllBlocks' : b \in AllBlocks \/ (Aligned(b) /\ \A p \in Pages(b) : Good(p))
    PROVE  WellPlaced'
<1>1. \A b \in AllBlocks : b.offset % Size(b.order) = 0 /\ \A p \in Pages(b) : Good(p)
    BY DEF WellPlaced, AllBlocks, Good
<1>2. \A b \in AllBlocks' : b.offset % Size(b.order) = 0 /\ \A p \in Pages(b) : Good(p)
    BY <1>1 DEF Aligned
<1>3. \A p : Good(p) => Good(p)'
    BY DEF Good, is_block_usable
<1> QED
    BY <1>2, <1>3 DEF WellPlaced, AllBlocks, Good

LEMMA PlacedBlock ==
    ASSUME WellPlaced, NEW b \in AllBlocks
    PROVE  Aligned(b) /\ \A p \in Pages(b) : Good(p)
BY DEF WellPlaced, AllBlocks, Aligned, Good

LEMMA RegionsKept == [Next]_vars => regions' = regions
BY DEF Next, vars, Alloc, AllocHead, AllocFind, AllocNothingLeft, Free, FreeAlone, FreeMerge, FreeNullEntry,
       Running, Populate, PopulateNext, PopulateDone, SplitHalf, SplitLast, Coalesce, CoalesceNullEntry,
       FreeLink, FreeLinkPastEnd, Shrink, ShrinkRight, ShrinkLeft, ShrinkDone

(* A block found usable consists of usable pages of the allocator. *)
LEMMA UsableBlock ==
    ASSUME TypeOK, NEW b \in Blocks, is_block_usable(b.offset, b.order)
    PROVE  \A p \in Pages(b) : Good(p)
<1>1. PICK r \in regions : r.start <= b.offset /\ b.offset + Size(b.order) <= r.end
    BY DEF is_block_usable
<1>2. r.start \in Nat /\ r.end \in 0 .. NumPages /\ NumPages \in Nat
    BY BuddyAssumption DEF TypeOK
<1>3. b.offset \in Nat /\ Size(b.order) \in Nat \ {0} /\ Size(0) = 1
    BY SizeFacts DEF Blocks, Orders
<1> SUFFICES ASSUME NEW p \in Pages(b) PROVE Good(p)
    OBVIOUS
<1>4. p \in Nat /\ b.offset <= p /\ p <= b.offset + Size(b.order) - 1
    BY <1>3 DEF Pages
<1>5. r.start <= p /\ p + Size(0) <= r.end /\ p < NumPages
    BY <1>1, <1>2, <1>3, <1>4
<1> QED
    BY <1>5 DEF Good, is_block_usable

(* The cursors after a step of __populate_initial_freelists. *)
LEMMA PopulatePlaced ==
    ASSUME IndInv, PlacedInv, Populate, regions' = regions
    PROVE  PlacedInv'
<1> DEFINE o == scan.cursor + scan.inner
           k == scan.order
<1>1. /\ pc = "populate" /\ pc' = "populate" /\ held = {} /\ held' = {} /\ InHand = {} /\ InHand' = {}
      /\ Found \in Blocks
      /\ \/ /\ is_block_usable(Found.offset, Found.order)
            /\ FreeBlocks' = FreeBlocks \cup {Found}
            /\ scan' = [cursor |-> scan.cursor, inner |-> scan.inner + Size(scan.order),
                        order |-> scan.order - 1]
         \/ FreeBlocks' = FreeBlocks /\ scan' = [scan EXCEPT !.order = @ - 1]
    BY PopulateMoves
<1>2. /\ scan.inner \in Nat /\ scan.cursor \in Nat /\ o \in Nat /\ scan.order >= 0
      /\ scan \in [cursor : Nat, inner : Nat, order : -1 .. MAX_ORDER]
    BY DEF Populate, Scanning, IndInv, TypeOK
<1>3. k \in Orders /\ Found.offset = o /\ Found.order = k
    BY <1>1, <1>2 DEF Found, Block, Blocks
<1>4. Size(k) \in Nat \ {0} /\ Size(k + 1) = 2 * Size(k) /\ k \in Int /\ Size(MAX_ORDER) \in Nat \ {0}
    BY <1>3, SizeFacts DEF Orders
<1>5. scan.cursor % Size(MAX_ORDER) = 0
    BY <1>1 DEF PlacedInv, ScanAligned
<1>6. o % Size(k) = 0
  <2>1. CASE scan.inner = 0 /\ k = MAX_ORDER
    <3>1. o = scan.cursor
        BY <2>1, <1>2
    <3> QED
        BY <3>1, <2>1, <1>5
  <2>2. CASE o % Size(k + 1) = 0
    <3> HIDE DEF o, k
    <3>1. o % (2 * Size(k)) = 0
        BY <2>2, <1>4
    <3> QED
        BY <3>1, <1>2, <1>4, HalfMultiple
  <2> QED
      BY <2>1, <2>2, <1>1 DEF PlacedInv, ScanAligned
<1>7. (o + Size(k)) % Size(k) = 0
  <2> HIDE DEF o, k
  <2> QED
      BY <1>2, <1>4, <1>6, NextMultiple
<1>8. CASE /\ is_block_usable(Found.offset, Found.order)
           /\ FreeBlocks' = FreeBlocks \cup {Found}
           /\ scan' = [cursor |-> scan.cursor, inner |-> scan.inner + Size(scan.order),
                       order |-> scan.order - 1]
  <2>1. \A p \in Pages(Found) : Good(p)
      BY <1>1, <1>8, UsableBlock DEF IndInv
  <2>2. Aligned(Found)
      BY <1>3, <1>6 DEF Aligned
  <2>3. \A b \in AllBlocks' : b \in AllBlocks \/ b = Found
      BY <1>1, <1>8 DEF AllBlocks
  <2>4. WellPlaced'
      BY <2>1, <2>2, <2>3, StaysPlaced DEF PlacedInv
  <2>5. scan'.cursor = scan.cursor /\ scan'.cursor + scan'.inner = o + Size(k) /\ scan'.order + 1 = k
      BY <1>2, <1>4, <1>8
  <2> QED
      BY <2>4, <2>5, <1>5, <1>7 DEF PlacedInv, ScanAligned
<1>9. CASE FreeBlocks' = FreeBlocks /\ scan' = [scan EXCEPT !.order = @ - 1]
  <2>1. AllBlocks' = AllBlocks
      BY <1>1, <1>9 DEF AllBlocks
  <2>2. WellPlaced'
      BY <2>1, StaysPlaced DEF PlacedInv
  <2>3. scan'.cursor = scan.cursor /\ scan'.cursor + scan'.inner = o /\ scan'.order + 1 = k
      BY <1>2, <1>4, <1>9
  <2> QED
      BY <2>2, <2>3, <1>5, <1>6 DEF PlacedInv, ScanAligned
<1> QED
    BY <1>1, <1>8, <1>9

LEMMA PopulateNextPlaced ==
    ASSUME IndInv, PlacedInv, PopulateNext, regions' = regions
    PROVE  PlacedInv'
<1>1. FreeBlocks' = FreeBlocks /\ held' = held /\ InHand' = InHand
    BY NothingMoves
<1>2. WellPlaced'
    BY <1>1, StaysPlaced DEF PlacedInv, AllBlocks
<1>3. /\ scan'.cursor = scan.cursor + Size(MAX_ORDER) /\ scan'.inner = 0 /\ scan'.order = MAX_ORDER
      /\ pc = "populate"
    BY DEF PopulateNext
<1>4. scan.cursor \in Nat /\ Size(MAX_ORDER) \in Nat \ {0} /\ scan.cursor % Size(MAX_ORDER) = 0
    BY <1>3, SizeFacts DEF IndInv, TypeOK, PlacedInv, ScanAligned
<1>5. scan'.cursor % Size(MAX_ORDER) = 0
    BY <1>3, <1>4, NextMultiple
<1> QED
    BY <1>2, <1>3, <1>5 DEF PlacedInv, ScanAligned

(* Blocks that only change their owner. *)
LEMMA MovedPlaced ==
    ASSUME IndInv, PlacedInv, regions' = regions,
           \/ \E k \in Orders : AllocHead(k)
           \/ \E k, j \in Orders : AllocFind(k, j)
           \/ \E k \in Orders : AllocNothingLeft(k)
           \/ \E b \in held : FreeAlone(b) \/ FreeNullEntry(b) \/ \E n : Shrink(b, n)
           \/ FreeLink \/ FreeLinkPastEnd \/ CoalesceNullEntry \/ ShrinkDone \/ PopulateDone
    PROVE  PlacedInv'
<1>1. AllBlocks' \subseteq AllBlocks
  <2>1. ASSUME NEW k \in Orders, AllocHead(k) PROVE AllBlocks' \subseteq AllBlocks
      BY <2>1, AllocHeadMoves DEF AllBlocks
  <2>2. ASSUME NEW k \in Orders, NEW j \in Orders, AllocFind(k, j) PROVE AllBlocks' \subseteq AllBlocks
      BY <2>2, AllocFindMoves DEF AllBlocks
  <2>3. ASSUME NEW b \in held, FreeAlone(b) PROVE AllBlocks' \subseteq AllBlocks
      BY <2>3, FreeAloneMoves DEF AllBlocks
  <2>4. ASSUME NEW b \in held, FreeNullEntry(b) \/ \E n : Shrink(b, n) PROVE AllBlocks' \subseteq AllBlocks
      BY <2>4, TakeInHandMoves DEF AllBlocks
  <2>5. ASSUME FreeLink PROVE AllBlocks' \subseteq AllBlocks
      BY <2>5, FreeLinkMoves DEF AllBlocks
  <2>6. ASSUME ShrinkDone PROVE AllBlocks' \subseteq AllBlocks
      BY <2>6, ShrinkDoneMoves DEF AllBlocks
  <2>7. ASSUME PopulateDone \/ CoalesceNullEntry \/ FreeLinkPastEnd \/ \E k \in Orders : AllocNothingLeft(k)
        PROVE  AllBlocks' \subseteq AllBlocks
      BY <2>7, NothingMoves DEF AllBlocks
  <2> QED
      BY <2>1, <2>2, <2>3, <2>4, <2>5, <2>6, <2>7
<1>2. WellPlaced'
    BY <1>1, StaysPlaced DEF PlacedInv
<1>3. pc' # "populate"
    BY DEF AllocHead, AllocFind, AllocNothingLeft, FreeAlone, FreeNullEntry, Shrink, FreeLink, FreeLinkPastEnd,
           CoalesceNullEntry, ShrinkDone, PopulateDone, Return
<1> QED
    BY <1>2, <1>3 DEF PlacedInv, ScanAligned

(* The block in hand is cut in two. *)
LEMMA CutPlaced ==
    ASSUME IndInv, PlacedInv, regions' = regions, SplitHalf \/ SplitLast \/ ShrinkRight \/ ShrinkLeft
    PROVE  PlacedInv'
<1>1. /\ pc \in {"split", "shrink"} /\ pc' # "populate" /\ cur.order >= 1
      /\ \A b \in AllBlocks' : b \in AllBlocks \/ b = Lower \/ b = Upper
    BY SplitHalfMoves, SplitLastMoves, ShrinkMoves DEF AllBlocks
<1>2. InHand = {cur} /\ Pages(Lower) \cup Pages(Upper) = Pages(cur)
    BY <1>1, HalvesInHand
<1>3. Aligned(cur) /\ \A p \in Pages(cur) : Good(p)
    BY <1>2, PlacedBlock DEF PlacedInv, AllBlocks
<1>4. Aligned(Lower) /\ Aligned(Upper)
    BY <1>1, <1>3, HalvesAligned
<1>5. (\A p \in Pages(Lower) : Good(p)) /\ \A p \in Pages(Upper) : Good(p)
    BY <1>2, <1>3
<1>6. WellPlaced'
    BY <1>1, <1>4, <1>5, StaysPlaced DEF PlacedInv
<1> QED
    BY <1>1, <1>6 DEF PlacedInv, ScanAligned

(* A block is joined with its free buddy. *)
LEMMA JoinPlaced ==
    ASSUME IndInv, PlacedInv, regions' = regions, NEW b \in AllBlocks, b \in Blocks, pc' # "populate",
           BuddyOf(b) \in FreeBlocks, Pages(Merged(b)) = Pages(b) \cup Pages(BuddyOf(b)),
           AllBlocks' \subseteq AllBlocks \cup {Merged(b)}
    PROVE  PlacedInv'
<1>1. BuddyOf(b) \in AllBlocks /\ BuddyOf(b).offset \in Nat
    BY FreeAreBlocks DEF IndInv, AllBlocks, Blocks
<1>2. /\ Aligned(b) /\ \A p \in Pages(b) : Good(p)
      /\ \A p \in Pages(BuddyOf(b)) : Good(p)
    BY <1>1, PlacedBlock DEF PlacedInv
<1>3. Aligned(Merged(b))
    BY <1>1, <1>2, MergedAligned
<1>4. \A p \in Pages(Merged(b)) : Good(p)
    BY <1>2
<1>5. WellPlaced'
    BY <1>3, <1>4, StaysPlaced DEF PlacedInv
<1> QED
    BY <1>5 DEF PlacedInv, ScanAligned

LEMMA FreeMergePlaced ==
    ASSUME IndInv, PlacedInv, regions' = regions, NEW b \in held, FreeMerge(b)
    PROVE  PlacedInv'
<1>1. /\ pc' = "merge" /\ held' = held \ {b} /\ b \in Blocks /\ BuddyOf(b) \in FreeBlocks
      /\ FreeBlocks' = FreeBlocks \ {BuddyOf(b)} /\ InHand' = {Merged(b)}
      /\ Pages(Merged(b)) = Pages(b) \cup Pages(BuddyOf(b))
    BY FreeMergeMoves
<1>2. b \in AllBlocks /\ AllBlocks' \subseteq AllBlocks \cup {Merged(b)}
    BY <1>1 DEF AllBlocks
<1> QED
    BY <1>1, <1>2, JoinPlaced

LEMMA CoalescePlaced ==
    ASSUME IndInv, PlacedInv, regions' = regions, Coalesce
    PROVE  PlacedInv'
<1>1. /\ pc' = "merge" /\ held' = held /\ cur \in Blocks /\ InHand = {cur} /\ BuddyOf(cur) \in FreeBlocks
      /\ FreeBlocks' = FreeBlocks \ {BuddyOf(cur)} /\ InHand' = {Merged(cur)}
      /\ Pages(Merged(cur)) = Pages(cur) \cup Pages(BuddyOf(cur))
    BY CoalesceMoves
<1>2. cur \in AllBlocks /\ AllBlocks' \subseteq AllBlocks \cup {Merged(cur)}
    BY <1>1 DEF AllBlocks
<1> QED
    BY <1>1, <1>2, JoinPlaced

LEMMA InitPlaced == Init => PlacedInv
<1> SUFFICES ASSUME Init PROVE PlacedInv
    OBVIOUS
<1>1. \A k \in Orders : Range(freelists[k]) = {}
    BY DEF Init, Range
<1>2. FreeBlocks = {} /\ InHand = {} /\ held = {}
    BY <1>1 DEF FreeBlocks, InHand, Init
<1>3. 0 % Size(MAX_ORDER) = 0
  <2>1. Size(MAX_ORDER) \in Nat \ {0}
      BY SizeFacts
  <2> QED
      BY <2>1
<1> QED
    BY <1>2, <1>3 DEF PlacedInv, WellPlaced, ScanAligned, Init

LEMMA NextPlaced == IndInv /\ PlacedInv /\ [Next]_vars => PlacedInv'
<1> SUFFICES ASSUME IndInv, PlacedInv, [Next]_vars PROVE PlacedInv'
    OBVIOUS
<1>0. regions' = regions
    BY RegionsKept
<1>1. CASE Alloc
    BY <1>0, <1>1, MovedPlaced DEF Alloc
<1>2. CASE Free
    BY <1>0, <1>2, MovedPlaced, FreeMergePlaced DEF Free
<1>3. CASE \E b \in held : \E n \in 1 .. Size(b.order) : Shrink(b, n)
    BY <1>0, <1>3, MovedPlaced
<1>4. CASE Running
    BY <1>0, <1>4, PopulatePlaced, PopulateNextPlaced, MovedPlaced, CutPlaced, CoalescePlaced DEF Running
<1>5. CASE UNCHANGED vars
  <2>1. FreeBlocks' = FreeBlocks /\ held' = held /\ InHand' = InHand
      BY <1>5, NothingMoves
  <2>2. WellPlaced'
      BY <2>1, <1>0, StaysPlaced DEF PlacedInv, AllBlocks
  <2> QED
      BY <2>2, <1>5 DEF PlacedInv, ScanAligned, vars
<1> QED
    BY <1>1, <1>2, <1>3, <1>4, <1>5 DEF Next

(***************************************************************************)
(* Every block the allocator has or hands out is aligned to its size and   *)
(* lies in memory the map declares usable, after any sequence of splits,   *)
(* merges and shrinks: __buddy_page_offset, which finds the buddy from the *)
(* offset alone, always computes the other half of the next larger block.  *)
(***************************************************************************)
THEOREM BlocksWellPlaced == Spec => []WellPlaced
<1>1. Init => PlacedInv
    BY InitPlaced
<1>2. IndInv /\ PlacedInv /\ [Next]_vars => PlacedInv'
    BY NextPlaced
<1>3. PlacedInv => WellPlaced
    BY DEF PlacedInv
<1> QED
    BY <1>1, <1>2, <1>3, Invariance, PTL DEF Spec

-----------------------------------------------------------------------------
(***************************************************************************)
(* Entries.                                                                *)
(***************************************************************************)

Spare == IF pc \in {"split", "merge"} THEN 1 ELSE 0

EntryInv ==
    /\ IsFiniteSet(FreeBlocks)
    /\ pc \notin Stopped => entries = Cardinality(FreeBlocks) + Spare

(* A block that joins or leaves a finite set counts for one. *)
LEMMA OneMore ==
    ASSUME NEW S, IsFiniteSet(S), NEW b, b \notin S, NEW T, T = S \cup {b}
    PROVE  IsFiniteSet(T) /\ Cardinality(T) = Cardinality(S) + 1 /\ Cardinality(S) \in Nat
BY FS_AddElement, FS_CardinalityType

LEMMA OneLess ==
    ASSUME NEW S, IsFiniteSet(S), NEW b \in S, NEW T, T = S \ {b}
    PROVE  IsFiniteSet(T) /\ Cardinality(T) = Cardinality(S) - 1 /\ Cardinality(S) \in Nat
BY FS_RemoveElement, FS_CardinalityType

LEMMA InitEntry == Init => EntryInv
<1> SUFFICES ASSUME Init PROVE EntryInv
    OBVIOUS
<1>1. \A k \in Orders : Range(freelists[k]) = {}
    BY DEF Init, Range
<1>2. FreeBlocks = {} /\ pc = "populate" /\ entries = 0
    BY <1>1 DEF FreeBlocks, Init
<1> QED
    BY <1>2, FS_EmptySet DEF EntryInv, Spare

(* The block that is linked is not on the lists yet. *)
LEMMA NotYetFree ==
    ASSUME IndInv
    PROVE  (\A b \in held : b \notin FreeBlocks) /\ (\A b \in InHand : b \notin FreeBlocks)
BY OwnersApart DEF Parts

LEMMA LinkedEntry ==
    ASSUME IndInv, EntryInv, NEW b, b \notin FreeBlocks, FreeBlocks' = FreeBlocks \cup {b},
           pc \notin Stopped, entries' - Spare' = entries - Spare + 1, entries' \in Int
    PROVE  EntryInv'
<1>1. IsFiniteSet(FreeBlocks') /\ Cardinality(FreeBlocks') = Cardinality(FreeBlocks) + 1
        /\ Cardinality(FreeBlocks) \in Nat
    BY OneMore DEF EntryInv
<1>2. Spare \in Int /\ Spare' \in Int /\ entries = Cardinality(FreeBlocks) + Spare
    BY DEF Spare, EntryInv
<1>3. entries' = Cardinality(FreeBlocks') + Spare'
    BY <1>1, <1>2
<1> QED
    BY <1>1, <1>3 DEF EntryInv

LEMMA UnlinkedEntry ==
    ASSUME IndInv, EntryInv, NEW b \in FreeBlocks, FreeBlocks' = FreeBlocks \ {b},
           pc \notin Stopped, entries' - Spare' = entries - Spare - 1, entries' \in Int
    PROVE  EntryInv'
<1>1. IsFiniteSet(FreeBlocks') /\ Cardinality(FreeBlocks') = Cardinality(FreeBlocks) - 1
        /\ Cardinality(FreeBlocks) \in Nat
    BY OneLess DEF EntryInv
<1>2. Spare \in Int /\ Spare' \in Int /\ entries = Cardinality(FreeBlocks) + Spare
    BY DEF Spare, EntryInv
<1>3. entries' = Cardinality(FreeBlocks') + Spare'
    BY <1>1, <1>2
<1> QED
    BY <1>1, <1>3 DEF EntryInv

LEMMA KeptEntries ==
    ASSUME EntryInv, FreeBlocks' = FreeBlocks, entries' = entries,
           pc' \notin Stopped => pc \notin Stopped /\ Spare' = Spare
    PROVE  EntryInv'
BY DEF EntryInv

LEMMA NextEntry == IndInv /\ EntryInv /\ [Next]_vars => EntryInv'
<1> SUFFICES ASSUME IndInv, EntryInv, [Next]_vars PROVE EntryInv'
    OBVIOUS
<1>0. entries \in Int /\ Stopped = {"out_of_bounds_address", "null_entry", "base_addr_overwritten"}
    BY DEF IndInv, TypeOK, Stopped
<1>1. CASE Populate
  <2>1. CASE FreeBlocks' = FreeBlocks \cup {Found} /\ Found \notin FreeBlocks /\ entries' = entries + 1
    <3>1. entries' - Spare' = entries - Spare + 1 /\ pc \notin Stopped
        BY <1>0, <1>1, <2>1 DEF Populate, Spare
    <3> QED
        BY <3>1, <2>1, <1>0, LinkedEntry
  <2>2. CASE FreeBlocks' = FreeBlocks /\ entries' = entries
    <3>1. Spare' = Spare /\ pc \notin Stopped
        BY <1>0, <1>1 DEF Populate, Spare
    <3> QED
        BY <3>1, <2>2, KeptEntries
  <2>3. \/ is_block_usable(scan.cursor + scan.inner, scan.order) /\ entries' = entries + 1
        \/ /\ ~is_block_usable(scan.cursor + scan.inner, scan.order)
           /\ entries' = entries /\ FreeBlocks' = FreeBlocks
      BY <1>1 DEF Populate, allocate_freelist_entry, FreeBlocks
  <2>4. ASSUME is_block_usable(scan.cursor + scan.inner, scan.order), entries' = entries + 1
        PROVE  FreeBlocks' = FreeBlocks \cup {Found} /\ Found \notin FreeBlocks
    <3>1. /\ scan \in [cursor : Nat, inner : Nat, order : -1 .. MAX_ORDER]
          /\ scan' = [cursor |-> scan.cursor, inner |-> scan.inner + Size(scan.order),
                      order |-> scan.order - 1]
          /\ scan.order \in Orders
        BY <1>1, <2>4 DEF Populate, Scanning, IndInv, TypeOK, Orders
    <3>2. scan.inner \in Nat /\ Size(scan.order) \in Nat \ {0} /\ scan'.inner = scan.inner + Size(scan.order)
        BY <3>1, SizeNat
    <3>3. scan' # [scan EXCEPT !.order = @ - 1]
        BY <3>1, <3>2
    <3> QED
        BY <3>3, <1>1, PopulateMoves
  <2> QED
      BY <2>1, <2>2, <2>3, <2>4
<1>2. ASSUME NEW k \in Orders, AllocHead(k) PROVE EntryInv'
  <2>1. PICK b \in FreeBlocks : FreeBlocks' = FreeBlocks \ {b}
      BY <1>2, AllocHeadMoves
  <2>2. entries' - Spare' = entries - Spare - 1 /\ pc \notin Stopped /\ entries' \in Int
      BY <1>0, <1>2 DEF AllocHead, release_freelist_entry, Spare
  <2> QED
      BY <2>1, <2>2, UnlinkedEntry
<1>3. ASSUME NEW k \in Orders, NEW j \in Orders, AllocFind(k, j) PROVE EntryInv'
  <2>1. cur' \in FreeBlocks /\ FreeBlocks' = FreeBlocks \ {cur'}
      BY <1>3, AllocFindMoves
  <2>2. entries' - Spare' = entries - Spare - 1 /\ pc \notin Stopped /\ entries' \in Int
      BY <1>0, <1>3 DEF AllocFind, Spare
  <2> QED
      BY <2>1, <2>2, UnlinkedEntry
<1>4. CASE SplitHalf
  <2>1. FreeBlocks' = FreeBlocks \cup {Upper} /\ Upper \notin FreeBlocks
      BY <1>4, SplitHalfMoves, HalvesInHand
  <2>2. entries' - Spare' = entries - Spare + 1 /\ pc \notin Stopped /\ entries' \in Int
      BY <1>0, <1>4 DEF SplitHalf, allocate_freelist_entry, Spare
  <2> QED
      BY <2>1, <2>2, LinkedEntry
<1>5. CASE SplitLast
  <2>1. FreeBlocks' = FreeBlocks \cup {Lower} /\ Lower \notin FreeBlocks
      BY <1>5, SplitLastMoves, HalvesInHand
  <2>2. entries' - Spare' = entries - Spare + 1 /\ pc \notin Stopped /\ entries' \in Int
      BY <1>0, <1>5 DEF SplitLast, Return, Spare
  <2> QED
      BY <2>1, <2>2, LinkedEntry
<1>6. ASSUME NEW b \in held, FreeAlone(b) PROVE EntryInv'
  <2>1. FreeBlocks' = FreeBlocks \cup {b} /\ b \notin FreeBlocks
      BY <1>6, FreeAloneMoves, NotYetFree
  <2>2. entries' - Spare' = entries - Spare + 1 /\ pc \notin Stopped /\ entries' \in Int
      BY <1>0, <1>6 DEF FreeAlone, allocate_freelist_entry, Spare
  <2> QED
      BY <2>1, <2>2, LinkedEntry
<1>7. ASSUME NEW b \in held, FreeMerge(b) PROVE EntryInv'
  <2>1. BuddyOf(b) \in FreeBlocks /\ FreeBlocks' = FreeBlocks \ {BuddyOf(b)}
      BY <1>7, FreeMergeMoves
  <2>2. entries' - Spare' = entries - Spare - 1 /\ pc \notin Stopped /\ entries' \in Int
      BY <1>0, <1>7 DEF FreeMerge, Spare
  <2> QED
      BY <2>1, <2>2, UnlinkedEntry
<1>8. CASE Coalesce
  <2>1. BuddyOf(cur) \in FreeBlocks /\ FreeBlocks' = FreeBlocks \ {BuddyOf(cur)}
      BY <1>8, CoalesceMoves
  <2>2. entries' - Spare' = entries - Spare - 1 /\ pc \notin Stopped /\ entries' \in Int
      BY <1>0, <1>8 DEF Coalesce, release_freelist_entry, Spare
  <2> QED
      BY <2>1, <2>2, UnlinkedEntry
<1>9. CASE FreeLink
  <2>1. FreeBlocks' = FreeBlocks \cup {cur} /\ cur \notin FreeBlocks
      BY <1>9, FreeLinkMoves, NotYetFree
  <2>2. entries' - Spare' = entries - Spare + 1 /\ pc \notin Stopped /\ entries' \in Int
      BY <1>0, <1>9 DEF FreeLink, Return, Spare
  <2> QED
      BY <2>1, <2>2, LinkedEntry
<1>10. ASSUME NEW b \in held, NEW n, Shrink(b, n) PROVE EntryInv'
  <2>1. FreeBlocks' = FreeBlocks
      BY <1>10, TakeInHandMoves
  <2> QED
      BY <2>1, <1>0, <1>10, KeptEntries DEF Shrink, Spare
<1>11. CASE ShrinkRight \/ ShrinkLeft
  <2>1. pc = "shrink" /\ pc' = "shrink" /\ cur.order >= 1
      BY <1>11, ShrinkMoves
  <2>2. CASE ShrinkRight
    <3>1. FreeBlocks' = FreeBlocks
        BY <2>2 DEF ShrinkRight, FreeBlocks
    <3> QED
        BY <3>1, <2>1, <2>2, <1>0, KeptEntries DEF ShrinkRight, Spare
  <2>3. CASE ShrinkLeft
    <3>1. arg <= Size(cur.order - 1) /\ entries' = entries + 1
        BY <2>3 DEF ShrinkLeft, allocate_freelist_entry
    <3>2. ~ShrinkRight
        BY <3>1, <1>0 DEF ShrinkRight
    <3>3. FreeBlocks' = FreeBlocks \cup {Upper} /\ Upper \notin FreeBlocks
        BY <3>2, <1>11, <2>1, ShrinkMoves, HalvesInHand
    <3>4. entries' - Spare' = entries - Spare + 1 /\ pc \notin Stopped /\ entries' \in Int
        BY <3>1, <2>1, <1>0 DEF Spare
    <3> QED
        BY <3>3, <3>4, LinkedEntry
  <2> QED
      BY <1>11, <2>2, <2>3
<1>12. CASE ShrinkDone
  <2>1. FreeBlocks' = FreeBlocks
      BY <1>12, ShrinkDoneMoves
  <2> QED
      BY <2>1, <1>0, <1>12, KeptEntries DEF ShrinkDone, Return, Spare
<1>13. CASE PopulateNext \/ PopulateDone \/ UNCHANGED vars
  <2>1. FreeBlocks' = FreeBlocks
      BY <1>13, NothingMoves
  <2> QED
      BY <2>1, <1>0, <1>13, KeptEntries DEF PopulateNext, PopulateDone, vars, Spare
<1>14. ASSUME \/ CoalesceNullEntry \/ FreeLinkPastEnd \/ \E k \in Orders : AllocNothingLeft(k)
              \/ \E b \in held : FreeNullEntry(b)
       PROVE  EntryInv'
  <2>1. pc' \in Stopped /\ FreeBlocks' = FreeBlocks
      BY <1>14 DEF CoalesceNullEntry, FreeLinkPastEnd, AllocNothingLeft, FreeNullEntry, FreeBlocks, Stopped
  <2> QED
      BY <2>1 DEF EntryInv
<1> QED
    BY <1>1, <1>2, <1>3, <1>4, <1>5, <1>6, <1>7, <1>8, <1>9, <1>10, <1>11, <1>12, <1>13, <1>14
       DEF Next, Alloc, Free, Running

(* As no list holds a block twice, there are as many places as free blocks. *)
LEMMA PlacesCount ==
    ASSUME IndInv, IsFiniteSet(FreeBlocks)
    PROVE  Cardinality(Places) = Cardinality(FreeBlocks)
<1> DEFINE f == [b \in FreeBlocks |-> CHOOSE x \in Places : Block(freelists[x[1]][x[2]], x[1]) = b]
<1>1. freelists \in [Orders -> Seq(Nat)] /\ \A k \in Orders : IsInjective(freelists[k])
    BY DEF IndInv, TypeOK, Exclusive
<1>2. \A x : x \in Places <=> \E k \in Orders : \E i \in DOMAIN freelists[k] : x = <<k, i>>
    BY DEF Places
<1>3. \A b : b \in FreeBlocks <=>
              \E k \in Orders : \E i \in DOMAIN freelists[k] : b = Block(freelists[k][i], k)
    BY DEF FreeBlocks, Range
<1>4. \A b \in FreeBlocks : f[b] \in Places /\ Block(freelists[f[b][1]][f[b][2]], f[b][1]) = b
  <2> SUFFICES ASSUME NEW b \in FreeBlocks
               PROVE  \E x \in Places : Block(freelists[x[1]][x[2]], x[1]) = b
      OBVIOUS
  <2>1. PICK k \in Orders : \E i \in DOMAIN freelists[k] : b = Block(freelists[k][i], k)
      BY <1>3
  <2>2. PICK i \in DOMAIN freelists[k] : b = Block(freelists[k][i], k)
      BY <2>1
  <2>3. <<k, i>> \in Places
      BY <1>2
  <2> QED
      BY <2>2, <2>3
<1>5. \A x, y \in Places : Block(freelists[x[1]][x[2]], x[1]) = Block(freelists[y[1]][y[2]], y[1]) => x = y
  <2> SUFFICES ASSUME NEW x \in Places, NEW y \in Places,
                      Block(freelists[x[1]][x[2]], x[1]) = Block(freelists[y[1]][y[2]], y[1])
               PROVE  x = y
      OBVIOUS
  <2>10. PICK k \in Orders : \E i \in DOMAIN freelists[k] : x = <<k, i>>
      BY <1>2
  <2>1. PICK i \in DOMAIN freelists[k] : x = <<k, i>>
      BY <2>10
  <2>20. PICK l \in Orders : \E j \in DOMAIN freelists[l] : y = <<l, j>>
      BY <1>2
  <2>2. PICK j \in DOMAIN freelists[l] : y = <<l, j>>
      BY <2>20
  <2>3. Block(freelists[k][i], k) = Block(freelists[l][j], l)
      BY <2>1, <2>2
  <2>4. k = l /\ freelists[k][i] = freelists[l][j]
      BY <2>3 DEF Block
  <2>5. i = j
      BY <2>4, <1>1 DEF IsInjective
  <2> QED
      BY <2>1, <2>2, <2>4, <2>5
<1>6. \A x \in Places : Block(freelists[x[1]][x[2]], x[1]) \in FreeBlocks
    BY <1>2, <1>3
<1>7. f \in Bijection(FreeBlocks, Places)
  <2>1. f \in [FreeBlocks -> Places]
      BY <1>4
  <2>2. \A b, c \in FreeBlocks : f[b] = f[c] => b = c
      BY <1>4
  <2>3. \A x \in Places : \E b \in FreeBlocks : f[b] = x
      BY <1>4, <1>5, <1>6
  <2> HIDE DEF f
  <2> QED
      BY <2>1, <2>2, <2>3 DEF Bijection, Injection, Surjection, IsInjective
<1> HIDE DEF f
<1>8. ExistsBijection(FreeBlocks, Places)
    BY <1>7 DEF ExistsBijection
<1> QED
    BY <1>8, FS_Bijection

(***************************************************************************)
(* Between calls the entries allocated from freelist_cache are exactly the *)
(* ones on the lists: the entry a split or a coalescing keeps in hand is   *)
(* linked or released by its end, in every sequence of calls.              *)
(***************************************************************************)
THEOREM NoEntryLeaks == Spec => []EntriesLinked
<1>1. Init => EntryInv
    BY InitEntry
<1>2. IndInv /\ EntryInv /\ [Next]_vars => EntryInv'
    BY NextEntry
<1>3. IndInv /\ EntryInv => EntriesLinked
  <2> SUFFICES ASSUME IndInv, EntryInv, pc = "idle" PROVE entries = Cardinality(Places)
      BY DEF EntriesLinked
  <2>1. IsFiniteSet(FreeBlocks) /\ entries = Cardinality(FreeBlocks) + 0
      BY DEF EntryInv, Spare, Stopped
  <2>2. Cardinality(FreeBlocks) \in Nat
      BY <2>1, FS_CardinalityType
  <2> QED
      BY <2>1, <2>2, PlacesCount
<1> QED
    BY <1>1, <1>2, <1>3, Invariance, PTL DEF Spec

-----------------------------------------------------------------------------
(***************************************************************************)
(* Accounts.                                                               *)
(***************************************************************************)

(* A sum is taken modulo M once or twice, with the same result. *)
LEMMA ModTwice ==
    ASSUME NEW M \in Nat \ {0}, NEW a \in Int, NEW x \in Int
    PROVE  ((a % M) + x) % M = (a + x) % M
<1> DEFINE q == a \div M
           r == a % M
           q2 == (r + x) \div M
           t == (r + x) % M
<1>1. q \in Int /\ r \in Int /\ a = M * q + r
    OBVIOUS
<1> HIDE DEF q, r
<1>2. q2 \in Int /\ t \in 0 .. (M - 1) /\ r + x = M * q2 + t
    BY <1>1
<1> HIDE DEF q2, t
<1>3. M * (q + q2) = M * q + M * q2 /\ q + q2 \in Int
    BY <1>1, <1>2
<1>4. M * q \in Int /\ M * q2 \in Int
    BY <1>1, <1>2
<1>5. a + x = M * (q + q2) + t
    BY <1>1, <1>2, <1>3, <1>4
<1>6. (a + x) % M = t
  <2> DEFINE y == a + x
             p == y \div M
             u == y % M
             d == (q + q2) - p
  <2>1. p \in Int /\ u \in 0 .. (M - 1) /\ y = M * p + u
      OBVIOUS
  <2> HIDE DEF p, u
  <2>2. d \in Int /\ M * d = M * (q + q2) - M * p /\ M * p \in Int /\ M * (q + q2) \in Int
      BY <1>3, <2>1
  <2>3. M * d = u - t
      BY <1>2, <1>5, <2>1, <2>2
  <2> HIDE DEF d
  <2>4. -M < M * d /\ M * d < M
      BY <1>2, <2>1, <2>3
  <2>5. d = 0
    <3>1. d >= 1 => M * d >= M
        BY <2>2
    <3>2. d <= -1 => M * d <= -M
        BY <2>2
    <3> QED
        BY <2>2, <2>4, <3>1, <3>2
  <2>6. u = t
      BY <1>2, <2>1, <2>3, <2>5
  <2> QED
      BY <2>6 DEF u
<1> QED
    BY <1>6 DEF r, t

(* What free_space_bytes is short of while a free has its block in hand. *)
Due == IF pc = "merge" THEN Size(order) ELSE 0

LEMMA DriftOf ==
    Drift = (freeSpace + Due - Cardinality(FreePages)) % AccountMod
      /\ Drift' = (freeSpace' + Due' - Cardinality(FreePages')) % AccountMod
BY DEF Drift, Due

LEMMA DueNat ==
    ASSUME IndInv
    PROVE  freeSpace \in Int /\ Due \in Nat
<1>1. freeSpace \in Int /\ order \in Orders
    BY BuddyAssumption DEF IndInv, TypeOK
<1>2. Size(order) \in Nat
    BY <1>1, SizeNat
<1> QED
    BY <1>1, <1>2 DEF Due

(* The pages that are free are finitely many. *)
LEMMA FreePagesFinite ==
    ASSUME IndInv, WellPlaced
    PROVE  IsFiniteSet(FreePages) /\ Cardinality(FreePages) \in Nat
<1>0. \A b \in AllBlocks : b \in AnyBlocks
    BY AllAreBlocks DEF IndInv, AllBlocks
<1>1. \A b \in AllBlocks : \A p \in Pages(b) : p \in 0 .. NumPages - 1
  <2> SUFFICES ASSUME NEW b \in AllBlocks, NEW p \in Pages(b)
               PROVE  p \in 0 .. NumPages - 1
      OBVIOUS
  <2>1. p < NumPages
      BY DEF AllBlocks, WellPlaced
  <2>2. b.offset \in Nat /\ Size(b.order) \in Nat
      BY <1>0, SizeFacts DEF AnyBlocks
  <2> QED
      BY <2>1, <2>2, BuddyAssumption DEF Pages
<1>2. FreePages \subseteq 0 .. NumPages - 1
    BY <1>1 DEF FreePages, PagesOf, AllBlocks
<1>3. IsFiniteSet(0 .. NumPages - 1)
    BY BuddyAssumption, FS_Interval
<1> QED
    BY <1>2, <1>3, FS_Subset, FS_CardinalityType

LEMMA BlockCount ==
    ASSUME NEW b \in AnyBlocks
    PROVE  IsFiniteSet(Pages(b)) /\ Cardinality(Pages(b)) = Size(b.order) /\ Size(b.order) \in Nat \ {0}
<1>1. b.offset \in Nat /\ Size(b.order) \in Nat \ {0}
    BY SizeFacts DEF AnyBlocks
<1> DEFINE l == b.offset
           h == b.offset + Size(b.order) - 1
<1>2. l \in Int /\ h \in Int /\ ~(l > h) /\ h - l + 1 = Size(b.order)
    BY <1>1
<1>3. IsFiniteSet(l .. h) /\ Cardinality(l .. h) = IF l > h THEN 0 ELSE h - l + 1
    BY <1>2, FS_Interval
<1> QED
    BY <1>1, <1>2, <1>3 DEF Pages

(* A block's pages join, or leave, a finite set of other pages. *)
LEMMA PagesJoin ==
    ASSUME NEW P, IsFiniteSet(P), NEW b \in AnyBlocks, P \cap Pages(b) = {}, NEW Q, Q = P \cup Pages(b)
    PROVE  Cardinality(Q) = Cardinality(P) + Size(b.order)
<1>1. IsFiniteSet(Pages(b)) /\ Cardinality(Pages(b)) = Size(b.order) /\ Size(b.order) \in Nat \ {0}
    BY BlockCount
<1>2. Cardinality(P \cap Pages(b)) = 0 /\ Cardinality(P) \in Nat
    BY FS_EmptySet, FS_CardinalityType
<1>3. Cardinality(Q) = Cardinality(P) + Cardinality(Pages(b)) - Cardinality(P \cap Pages(b))
    BY <1>1, FS_Union
<1> QED
    BY <1>1, <1>2, <1>3

(***************************************************************************)
(* The three ways the accounts stay in step: pages and sum grow alike,     *)
(* shrink alike, or neither changes.                                       *)
(***************************************************************************)
LEMMA DriftSame ==
    ASSUME FreePages' = FreePages, freeSpace' = freeSpace, Due' = Due
    PROVE  Drift' = Drift
BY DriftOf

(* n more pages are accounted for or due. *)
LEMMA DriftMoved ==
    ASSUME IndInv, NEW n \in Int, NEW d \in Nat, Due' = d,
           Cardinality(FreePages) \in Nat,
           Cardinality(FreePages') = Cardinality(FreePages) + (n + d - Due),
           freeSpace' = (freeSpace + n) % AccountMod
    PROVE  Drift' = Drift
<1> DEFINE C == Cardinality(FreePages)
           C2 == Cardinality(FreePages')
           x == d - C2
<1>1. freeSpace \in Int /\ Due \in Nat /\ AccountMod \in Nat \ {0} /\ C \in Nat
    BY DueNat, BuddyAssumption
<1>2. C2 = C + (n + d - Due)
    OBVIOUS
<1> HIDE DEF C, C2
<1>3. x \in Int /\ freeSpace + n \in Int /\ (freeSpace + n) + x = freeSpace + Due - C
    BY <1>1, <1>2
<1>4. (((freeSpace + n) % AccountMod) + x) % AccountMod = ((freeSpace + n) + x) % AccountMod
  <2> HIDE DEF x
  <2> QED
      BY <1>1, <1>3, ModTwice
<1>5. freeSpace' \in Int /\ freeSpace' + Due' - C2 = freeSpace' + x
  <2>1. (freeSpace + n) % AccountMod \in Int
      BY <1>1, <1>3
  <2> QED
      BY <2>1, <1>1, <1>2
<1>6. (freeSpace' + x) % AccountMod = (freeSpace + Due - C) % AccountMod
    BY <1>3, <1>4
<1> QED
    BY <1>5, <1>6, DriftOf DEF C, C2

(* A block's pages become free, and are accounted for, or due. *)
LEMMA DriftFreed ==
    ASSUME IndInv, WellPlaced, NEW b \in AnyBlocks, FreePages \cap Pages(b) = {},
           FreePages' = FreePages \cup Pages(b), NEW n \in Int, NEW d \in Nat, Due' = d,
           n + d - Due = Size(b.order), freeSpace' = (freeSpace + n) % AccountMod
    PROVE  Drift' = Drift
<1>1. IsFiniteSet(FreePages) /\ Cardinality(FreePages) \in Nat
    BY FreePagesFinite
<1>2. Cardinality(FreePages') = Cardinality(FreePages) + (n + d - Due)
    BY <1>1, PagesJoin
<1> QED
    BY <1>1, <1>2, DriftMoved

(* A block's pages are handed out. *)
LEMMA DriftTaken ==
    ASSUME IndInv, WellPlaced, NEW b \in AnyBlocks, FreePages' \cap Pages(b) = {},
           FreePages = FreePages' \cup Pages(b), Due = 0, Due' = 0,
           freeSpace' = (freeSpace + (-Size(b.order))) % AccountMod
    PROVE  Drift' = Drift
<1>1. IsFiniteSet(FreePages) /\ Cardinality(FreePages) \in Nat
    BY FreePagesFinite
<1>2. IsFiniteSet(FreePages') /\ Cardinality(FreePages') \in Nat
    BY <1>1, FS_Subset, FS_CardinalityType
<1>3. Cardinality(FreePages) = Cardinality(FreePages') + Size(b.order) /\ Size(b.order) \in Nat \ {0}
    BY <1>2, PagesJoin, BlockCount
<1> DEFINE n == -Size(b.order)
<1>4. n \in Int /\ Cardinality(FreePages') = Cardinality(FreePages) + (n + 0 - Due)
    BY <1>1, <1>2, <1>3
<1> HIDE DEF n
<1>5. freeSpace' = (freeSpace + n) % AccountMod
    BY DEF n
<1> QED
    BY <1>1, <1>4, <1>5, DriftMoved

(***************************************************************************)
(* Each action.  As long as the machine has not stopped, the free pages    *)
(* are those of the pool, so a step the pool does not see leaves them.     *)
(***************************************************************************)
LEMMA FreeAsPool ==
    (pc \notin Stopped => FreePages = poolFree) /\ (pc' \notin Stopped => FreePages' = poolFree')
<1>1. ASSUME pc \notin Stopped
      PROVE  (IF pc \in {"split", "merge"} THEN InHand ELSE {}) = (IF pc = "shrink" THEN {} ELSE InHand)
    BY <1>1 DEF InHand, Stopped
<1>2. ASSUME pc' \notin Stopped
      PROVE  (IF pc' \in {"split", "merge"} THEN InHand' ELSE {}) = (IF pc' = "shrink" THEN {} ELSE InHand')
    BY <1>2 DEF InHand, Stopped
<1> QED
    BY <1>1, <1>2 DEF FreePages, poolFree

LEMMA StutterKeeps ==
    ASSUME PoolStutter, pc \notin Stopped, pc' \notin Stopped, freeSpace' = freeSpace, Due' = Due
    PROVE  Drift' = Drift
BY FreeAsPool, DriftSame DEF PoolStutter

LEMMA PopulateAccounts ==
    ASSUME IndInv, WellPlaced, Populate
    PROVE  Drift' = Drift
<1>1. /\ pc = "populate" /\ pc' = "populate" /\ InHand = {} /\ InHand' = {}
      /\ Found \in Blocks
    BY PopulateMoves
<1>2. Due = 0 /\ Due' = 0 /\ FreePages = PagesOf(FreeBlocks) /\ FreePages' = PagesOf(FreeBlocks')
    BY <1>1 DEF Due, FreePages
<1>3. CASE is_block_usable(Found.offset, Found.order)
  <2>1. FreeBlocks' = FreeBlocks \cup {Found} /\ Found \notin FreeBlocks
      BY <1>3, PopulateMoves
  <2>2. freeSpace' = (freeSpace + Size(Found.order)) % AccountMod
      BY <1>3 DEF Populate, Found, Block
  <2>3. FreePages' = FreePages \cup Pages(Found)
      BY <1>2, <2>1, PagesWith
  <2>4. FreePages \cap Pages(Found) = {}
    <3>1. IndInv'
        BY PopulateInv
    <3>2. Apart(FreeBlocks')
        BY <3>1, ExclusiveParts DEF IndInv, Exclusive, Apart
    <3> QED
        BY <1>2, <2>1, <3>2 DEF Apart, PagesOf
  <2>5. Found \in AnyBlocks /\ Size(Found.order) \in Nat
      BY <1>1, SizeFacts DEF Blocks, AnyBlocks, Orders
  <2>6. Size(Found.order) \in Int /\ 0 \in Nat /\ Size(Found.order) + 0 - Due = Size(Found.order)
      BY <1>2, <2>5
  <2> QED
      BY <1>2, <2>2, <2>3, <2>4, <2>5, <2>6, DriftFreed
<1>4. CASE ~is_block_usable(Found.offset, Found.order)
  <2>1. freelists' = freelists /\ freeSpace' = freeSpace
      BY <1>4 DEF Populate, Found, Block
  <2>2. FreePages' = FreePages
      BY <1>2, <2>1 DEF FreeBlocks
  <2> QED
      BY <1>2, <2>1, <2>2, DriftSame
<1> QED
    BY <1>3, <1>4

LEMMA AllocHeadAccounts ==
    ASSUME IndInv, WellPlaced, NEW k \in Orders, AllocHead(k)
    PROVE  Drift' = Drift
<1> DEFINE b == Block(Head(freelists[k]), k)
<1>1. /\ pc = "idle" /\ pc' = "idle" /\ freelists[k] # <<>>
      /\ freelists' = [freelists EXCEPT ![k] = Tail(@)]
      /\ freeSpace' = (freeSpace + (-Size(k))) % AccountMod
    BY DEF AllocHead, Account
<1>2. b \in FreeBlocks /\ FreeBlocks' = FreeBlocks \ {b} /\ b.order = k
    BY <1>1, PopHead DEF Block
<1> HIDE DEF b
<1>3. Due = 0 /\ Due' = 0 /\ FreePages = PagesOf(FreeBlocks) /\ FreePages' = PagesOf(FreeBlocks')
    BY <1>1 DEF Due, FreePages
<1>4. Pages(b) \subseteq FreePages /\ FreePages' = FreePages \ Pages(b)
    BY <1>2, <1>3, OwnersApart, PagesWithout
<1>5. b \in AnyBlocks
    BY <1>2, AllAreBlocks DEF IndInv
<1>6. FreePages' \cap Pages(b) = {} /\ FreePages = FreePages' \cup Pages(b)
    BY <1>4
<1> QED
    BY <1>1, <1>2, <1>3, <1>5, <1>6, DriftTaken

LEMMA SplitLastAccounts ==
    ASSUME IndInv, WellPlaced, SplitLast
    PROVE  Drift' = Drift
<1>1. /\ pc = "split" /\ pc' = "idle" /\ cur.order >= 1
      /\ FreeBlocks' = FreeBlocks \cup {Lower} /\ InHand' = {}
    BY SplitLastMoves
<1>2. /\ InHand = {cur} /\ Upper \in Blocks /\ Pages(Lower) \cap Pages(Upper) = {}
      /\ Pages(Lower) \cup Pages(Upper) = Pages(cur)
    BY <1>1, HalvesInHand
<1>3. Upper.order = arg
  <2>1. cur.order - 1 <= arg
      BY DEF SplitLast
  <2>2. arg = cur.order - 1
      BY <1>1, <2>1, SplitOrder
  <2> QED
      BY <2>2 DEF Upper, Block
<1>4. freeSpace' = (freeSpace + (-Size(Upper.order))) % AccountMod
    BY <1>3 DEF SplitLast, Account
<1>5. Due = 0 /\ Due' = 0
    BY <1>1 DEF Due
<1>6. FreePages = PagesOf(FreeBlocks) \cup Pages(cur) /\ FreePages' = PagesOf(FreeBlocks) \cup Pages(Lower)
    BY <1>1, <1>2, PagesWith DEF FreePages
<1>7. PagesOf(FreeBlocks) \cap Pages(cur) = {}
    BY <1>2, OwnersApart, PagesSingle
<1>8. FreePages' \cap Pages(Upper) = {} /\ FreePages = FreePages' \cup Pages(Upper)
    BY <1>2, <1>6, <1>7
<1>9. Upper \in AnyBlocks
    BY <1>2, SizeFacts DEF Blocks, AnyBlocks, Orders
<1> HIDE DEF Upper
<1> QED
    BY <1>4, <1>5, <1>8, <1>9, DriftTaken

LEMMA FreeAloneAccounts ==
    ASSUME IndInv, WellPlaced, NEW b \in held, FreeAlone(b)
    PROVE  Drift' = Drift
<1>1. pc = "idle" /\ pc' = "idle" /\ FreeBlocks' = FreeBlocks \cup {b}
    BY FreeAloneMoves
<1>2. Due = 0 /\ Due' = 0 /\ FreePages = PagesOf(FreeBlocks) /\ FreePages' = PagesOf(FreeBlocks) \cup Pages(b)
    BY <1>1, PagesWith DEF Due, FreePages
<1>3. FreePages \cap Pages(b) = {}
  <2>1. Pages(b) \subseteq PagesOf(held)
      BY DEF PagesOf
  <2> QED
      BY <1>2, <2>1, OwnersApart
<1>4. b \in AnyBlocks /\ Size(b.order) \in Nat
    BY AllAreBlocks, BlockCount DEF IndInv
<1>5. freeSpace' = (freeSpace + Size(b.order)) % AccountMod
    BY DEF FreeAlone, Account
<1>6. Size(b.order) \in Int /\ 0 \in Nat /\ Size(b.order) + 0 - Due = Size(b.order)
    BY <1>2, <1>4
<1> QED
    BY <1>2, <1>3, <1>4, <1>5, <1>6, DriftFreed

LEMMA FreeMergeAccounts ==
    ASSUME IndInv, WellPlaced, NEW b \in held, FreeMerge(b)
    PROVE  Drift' = Drift
<1> DEFINE c == BuddyOf(b)
           m == Merged(b)
<1>1. /\ pc = "idle" /\ pc' = "merge" /\ c \in FreeBlocks /\ FreeBlocks' = FreeBlocks \ {c}
      /\ InHand' = {m} /\ Pages(m) = Pages(b) \cup Pages(c)
    BY FreeMergeMoves
<1>2. order' = b.order /\ freeSpace' = freeSpace
    BY DEF FreeMerge
<1> HIDE DEF c, m
<1>3. Due = 0 /\ Due' = Size(b.order)
    BY <1>1, <1>2 DEF Due
<1>4. FreePages = PagesOf(FreeBlocks) /\ FreePages' = PagesOf(FreeBlocks') \cup Pages(m)
    BY <1>1, PagesWith DEF FreePages
<1>5. Pages(c) \subseteq PagesOf(FreeBlocks) /\ PagesOf(FreeBlocks') = PagesOf(FreeBlocks) \ Pages(c)
    BY <1>1, OwnersApart, PagesWithout
<1>6. FreePages' = FreePages \cup Pages(b)
    BY <1>1, <1>4, <1>5
<1>7. FreePages \cap Pages(b) = {}
  <2>1. Pages(b) \subseteq PagesOf(held)
      BY DEF PagesOf
  <2> QED
      BY <1>4, <2>1, OwnersApart
<1>8. b \in AnyBlocks /\ Size(b.order) \in Nat
    BY AllAreBlocks, BlockCount DEF IndInv
<1>9. freeSpace' = (freeSpace + 0) % AccountMod
  <2>1. freeSpace \in 0 .. (AccountMod - 1) /\ AccountMod \in Nat \ {0}
      BY BuddyAssumption DEF IndInv, TypeOK
  <2> QED
      BY <1>2, <2>1
<1>10. 0 \in Int /\ 0 + Size(b.order) - Due = Size(b.order)
    BY <1>3, <1>8
<1> QED
    BY <1>3, <1>6, <1>7, <1>8, <1>9, <1>10, DriftFreed

(* The link at the end of a merge accounts for the block the caller freed. *)
LEMMA FreeLinkAccounts ==
    ASSUME IndInv, WellPlaced, FreeLink
    PROVE  Drift' = Drift
<1>1. pc = "merge" /\ pc' = "idle" /\ freeSpace' = (freeSpace + Size(order)) % AccountMod
    BY FreeLinkMoves DEF FreeLink, Account
<1>2. FreePages' = FreePages
    BY <1>1, FreeLinkPool, FreeAsPool DEF PoolStutter, Stopped
<1>3. Due = Size(order) /\ Due' = 0 /\ Due \in Nat
    BY <1>1, DueNat DEF Due
<1>4. Cardinality(FreePages) \in Nat
    BY FreePagesFinite
<1>5. Size(order) \in Int /\ 0 \in Nat
    BY <1>3
<1>6. Cardinality(FreePages') = Cardinality(FreePages) + (Size(order) + 0 - Due)
    BY <1>2, <1>3, <1>4
<1> QED
    BY <1>1, <1>3, <1>4, <1>5, <1>6, DriftMoved

(* A split, a further merge or the start of a shrink accounts for nothing. *)
LEMMA OtherAccounts ==
    ASSUME IndInv, WellPlaced, pc' \notin Stopped,
           \/ \E k, j \in Orders : AllocFind(k, j)
           \/ \E b \in held : \E n : Shrink(b, n)
           \/ SplitHalf \/ Coalesce \/ PopulateNext \/ PopulateDone
    PROVE  Drift' = Drift
<1>1. freeSpace' = freeSpace
    BY DEF AllocFind, Shrink, SplitHalf, Coalesce, PopulateNext, PopulateDone
<1>2. Due' = Due /\ pc \notin Stopped
    BY DEF AllocFind, Shrink, SplitHalf, Coalesce, PopulateNext, PopulateDone, Due, Stopped
<1>3. CASE PopulateNext \/ PopulateDone
  <2>1. FreeBlocks' = FreeBlocks
      BY <1>3, NothingMoves
  <2>2. FreePages' = FreePages
      BY <1>3, <2>1 DEF FreePages, PopulateNext, PopulateDone
  <2> QED
      BY <1>1, <1>2, <2>2, DriftSame
<1>4. CASE ~(PopulateNext \/ PopulateDone)
  <2>1. PoolStutter
      BY <1>4, AllocFindPool, ShrinkPool, SplitHalfPool, CoalescePool
  <2> QED
      BY <1>1, <1>2, <2>1, StutterKeeps
<1> QED
    BY <1>3, <1>4

LEMMA NextAccounts ==
    ASSUME IndInv, WellPlaced, [Next]_vars, pc # "shrink", pc' \notin Stopped
    PROVE  Drift' = Drift
<1>1. CASE Alloc
    BY <1>1, AllocHeadAccounts, OtherAccounts DEF Alloc, AllocNothingLeft, Stopped
<1>2. CASE Free
    BY <1>2, FreeAloneAccounts, FreeMergeAccounts DEF Free, FreeNullEntry, Stopped
<1>3. CASE \E b \in held : \E n \in 1 .. Size(b.order) : Shrink(b, n)
    BY <1>3, OtherAccounts
<1>4. CASE Running
  <2>1. ~(CoalesceNullEntry \/ FreeLinkPastEnd \/ ShrinkRight \/ ShrinkLeft \/ ShrinkDone)
      BY DEF CoalesceNullEntry, FreeLinkPastEnd, ShrinkRight, ShrinkLeft, ShrinkDone, Stopped
  <2> QED
      BY <1>4, <2>1, PopulateAccounts, SplitLastAccounts, FreeLinkAccounts, OtherAccounts DEF Running
<1>5. CASE UNCHANGED vars
  <2>1. FreePages' = FreePages /\ freeSpace' = freeSpace /\ Due' = Due
      BY <1>5 DEF vars, FreePages, FreeBlocks, InHand, PagesOf, Due
  <2> QED
      BY <2>1, DriftSame
<1> QED
    BY <1>1, <1>2, <1>3, <1>4, <1>5 DEF Next

(***************************************************************************)
(* An allocation or a free changes free_space_bytes by exactly the pages   *)
(* that changed hands, whatever the width of the counter: only a shrink,   *)
(* or an allocation that found nothing, makes them differ.                 *)
(***************************************************************************)
THEOREM AccountsKept == Spec => AccountsFollowBlocks
<1>1. IndInv /\ WellPlaced /\ [Next]_vars
        => [pc # "shrink" /\ pc' \notin Stopped => Drift' = Drift]_vars
    BY NextAccounts
<1> QED
    BY <1>1, Invariance, BlocksWellPlaced, PTL DEF Spec, AccountsFollowBlocks

=============================================================================
