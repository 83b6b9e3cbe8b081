----------------------------- MODULE BuddyProofs -----------------------------
(***************************************************************************)
(* Proofs about BuddyAllocator, for every MAX_ORDER, every region size and *)
(* every memory map: the state keeps its type, and no page is in two       *)
(* places.  BuddyRefinement builds on it.                                  *)
(*                                                                         *)
(* The argument works on sets of blocks.  A list operation adds or removes *)
(* one block of the set of free blocks (ListLemmas); a step of the         *)
(* allocator moves a block from one owner to another, replaces it by its   *)
(* two halves, or replaces two buddies by the block they make up.          *)
(***************************************************************************)
EXTENDS BuddyAllocator, ListLemmas

AnyBlocks == [offset : Nat, order : 0 .. (MAX_ORDER + 1)]

(* No two blocks of S overlap. *)
Apart(S) == \A b, c \in S : b # c => Pages(b) \cap Pages(c) = {}

(* The blocks on the lists f. *)
BlocksOn(f) == UNION {{Block(o, k) : o \in Range(f[k])} : k \in Orders}

(***************************************************************************)
(* Powers of two, as far as the proofs need them.                          *)
(***************************************************************************)
LEMMA SizeFacts ==
    /\ MAX_ORDER \in Nat
    /\ Size(0) = 1
    /\ \A k \in 0 .. (MAX_ORDER + 1) : Size(k) \in Nat \ {0}
    /\ \A k \in 0 .. MAX_ORDER : Size(k + 1) = 2 * Size(k)
BY BuddyAssumption

LEMMA PagesNonEmpty ==
    ASSUME NEW b \in AnyBlocks
    PROVE  b.offset \in Pages(b)
BY SizeFacts DEF AnyBlocks, Pages

(***************************************************************************)
(* A block is made up of its two halves.                                   *)
(***************************************************************************)
LEMMA Halves ==
    ASSUME NEW b \in AnyBlocks, b.order >= 1, NEW k, k = b.order - 1
    PROVE  /\ k \in Orders
           /\ Block(b.offset, k) \in Blocks
           /\ Block(b.offset + Size(k), k) \in Blocks
           /\ Block(b.offset, k) # Block(b.offset + Size(k), k)
           /\ Pages(Block(b.offset, k)) \cap Pages(Block(b.offset + Size(k), k)) = {}
           /\ Pages(Block(b.offset, k)) \cup Pages(Block(b.offset + Size(k), k)) = Pages(b)
<1>1. b.offset \in Nat /\ k \in Orders /\ b.order = k + 1
    BY SizeFacts DEF AnyBlocks, Orders
<1>2. Size(k) \in Nat \ {0} /\ Size(b.order) = Size(k) + Size(k)
    BY <1>1, SizeFacts DEF Orders
<1> QED
    BY <1>1, <1>2 DEF Blocks, Block, Pages

(***************************************************************************)
(* A block and its buddy make up the block of the next order.              *)
(***************************************************************************)
LEMMA Whole ==
    ASSUME NEW b \in Blocks, NEW o \in Nat, o = buddy_page_offset(b.offset, b.order),
           NEW m, m = [offset |-> MinOf(b.offset, o), order |-> b.order + 1]
    PROVE  /\ m \in AnyBlocks
           /\ Block(o, b.order) \in Blocks
           /\ Block(o, b.order) # b
           /\ Pages(m) = Pages(b) \cup Pages(Block(o, b.order))
<1>1. b.offset \in Nat /\ b.order \in Orders
    BY DEF Blocks
<1>2. Size(b.order) \in Nat \ {0} /\ Size(b.order + 1) = Size(b.order) + Size(b.order)
    BY <1>1, SizeFacts DEF Orders
<1>3. o = b.offset - Size(b.order) \/ o = b.offset + Size(b.order)
    BY DEF buddy_page_offset
<1>4. m.offset = MinOf(b.offset, o) /\ m.order = b.order + 1 /\ m \in AnyBlocks
    BY <1>1, SizeFacts DEF AnyBlocks, MinOf, Orders
<1>5. CASE o = b.offset - Size(b.order)
    BY <1>1, <1>2, <1>4, <1>5 DEF Pages, MinOf, Block, Blocks
<1>6. CASE o = b.offset + Size(b.order)
    BY <1>1, <1>2, <1>4, <1>6 DEF Pages, MinOf, Block, Blocks
<1> QED
    BY <1>3, <1>5, <1>6

(***************************************************************************)
(* Replacing a block by two that share its pages keeps a set apart, and    *)
(* neither of the two was there before.                                    *)
(***************************************************************************)
LEMMA SplitApart ==
    ASSUME NEW S \in SUBSET AnyBlocks, Apart(S), NEW b \in S,
           NEW x \in AnyBlocks, NEW y \in AnyBlocks,
           Pages(x) \cap Pages(y) = {}, Pages(x) \cup Pages(y) = Pages(b)
    PROVE  /\ x \notin S \ {b}
           /\ y \notin S \ {b}
           /\ Apart((S \ {b}) \cup {x, y})
<1>1. \A c \in S \ {b} : Pages(c) \cap Pages(x) = {} /\ Pages(c) \cap Pages(y) = {}
    BY DEF Apart
<1>2. Pages(x) # {} /\ Pages(y) # {}
    BY PagesNonEmpty
<1> QED
    BY <1>1, <1>2 DEF Apart

(***************************************************************************)
(* Replacing two blocks by one that has the pages of both.                 *)
(***************************************************************************)
LEMMA MergeApart ==
    ASSUME NEW S \in SUBSET AnyBlocks, Apart(S), NEW b \in S, NEW c \in S,
           NEW m \in AnyBlocks, Pages(m) = Pages(b) \cup Pages(c)
    PROVE  /\ m \notin S \ {b, c}
           /\ Apart((S \ {b, c}) \cup {m})
<1>1. \A d \in S \ {b, c} : Pages(d) \cap Pages(m) = {}
    BY DEF Apart
<1>2. Pages(m) # {}
    BY PagesNonEmpty
<1> QED
    BY <1>1, <1>2 DEF Apart

(***************************************************************************)
(* The set of free blocks after a list has gained or lost an offset.       *)
(***************************************************************************)
LEMMA OnLists ==
    ASSUME NEW f \in [Orders -> Seq(Nat)], NEW b
    PROVE  b \in BlocksOn(f) <=> \E k \in Orders : \E o \in Range(f[k]) : b = Block(o, k)
BY DEF BlocksOn

LEMMA LinkBlocks ==
    ASSUME NEW f \in [Orders -> Seq(Nat)], NEW k \in Orders, NEW o \in Nat,
           \A i \in Orders : IsInjective(f[i]),
           Block(o, k) \notin BlocksOn(f),
           NEW g, g = [f EXCEPT ![k] = Cons(o, @)]
    PROVE  /\ g \in [Orders -> Seq(Nat)]
           /\ \A i \in Orders : IsInjective(g[i])
           /\ BlocksOn(g) = BlocksOn(f) \cup {Block(o, k)}
<1>1. g = [f EXCEPT ![k] = Cons(o, f[k])]
    OBVIOUS
<1>2. f[k] \in Seq(Nat) /\ o \notin Range(f[k])
    BY OnLists
<1>3. /\ Cons(o, f[k]) \in Seq(Nat)
      /\ Range(Cons(o, f[k])) = Range(f[k]) \cup {o}
      /\ IsInjective(Cons(o, f[k]))
    BY <1>2, ConsFacts
<1>4. g[k] = Cons(o, f[k]) /\ \A i \in Orders \ {k} : g[i] = f[i]
    BY <1>1
<1>5. g \in [Orders -> Seq(Nat)]
    BY <1>1, <1>3
<1>6. \A i \in Orders : IsInjective(g[i])
    BY <1>3, <1>4
<1>7. \A i \in Orders : Range(g[i]) = IF i = k THEN Range(f[k]) \cup {o} ELSE Range(f[i])
    BY <1>3, <1>4
<1>8. BlocksOn(g) = BlocksOn(f) \cup {Block(o, k)}
    BY <1>7 DEF BlocksOn, Block
<1> QED
    BY <1>5, <1>6, <1>8

-----------------------------------------------------------------------------
(***************************************************************************)
(* The inductive invariant.                                                *)
(***************************************************************************)

(* F free, H held, I in hand: three owners, no block and no page shared. *)
Parts(F, H, I) ==
    /\ F \cap H = {}
    /\ I \cap (F \cup H) = {}
    /\ Apart(F \cup H \cup I)

(***************************************************************************)
(* While the lists are filled every free block lies below the cursor, and  *)
(* the cursor stays inside its block of MAX_ORDER.  A split still has to   *)
(* reach its target order; a shrink still has something to keep.           *)
(***************************************************************************)
Progress ==
    /\ pc = "populate" =>
          /\ held = {}
          /\ \A b \in FreeBlocks : b.offset + Size(b.order) <= scan.cursor + scan.inner
          /\ \/ scan.inner = Size(MAX_ORDER)
             \/ scan.inner = 0 /\ scan.order = MAX_ORDER
             \/ scan.inner + Size(scan.order + 1) <= Size(MAX_ORDER)
    /\ pc = "split" => cur.order \in Orders /\ arg < cur.order
    /\ pc = "shrink" => cur.order \in Orders /\ arg \in 1 .. Size(cur.order)

IndInv == TypeOK /\ Exclusive /\ Progress

LEMMA ExclusiveParts ==
    Exclusive <=> (\A k \in Orders : IsInjective(freelists[k])) /\ Parts(FreeBlocks, held, InHand)
BY DEF Exclusive, Parts, Apart

LEMMA FreeAreBlocks ==
    ASSUME TypeOK
    PROVE  FreeBlocks = BlocksOn(freelists) /\ FreeBlocks \subseteq Blocks
<1>1. FreeBlocks = BlocksOn(freelists)
    BY DEF FreeBlocks, BlocksOn
<1>2. ASSUME NEW k \in Orders, NEW o \in Range(freelists[k])
      PROVE  Block(o, k) \in Blocks
  <2>1. freelists[k] \in Seq(Nat)
      BY DEF TypeOK
  <2>2. o \in Nat
      BY <2>1, RangeOfSeq
  <2> QED
      BY <2>2 DEF Block, Blocks
<1> QED
    BY <1>1, <1>2 DEF BlocksOn

(* Every block there is, is a block of some order up to MAX_ORDER + 1. *)
LEMMA AllAreBlocks ==
    ASSUME TypeOK
    PROVE  FreeBlocks \cup held \cup InHand \subseteq AnyBlocks
<1>1. Blocks \subseteq AnyBlocks
    BY SizeFacts DEF Blocks, AnyBlocks, Orders
<1>2. InHand \subseteq AnyBlocks /\ held \subseteq Blocks
    BY DEF TypeOK, InHand, AnyBlocks
<1> QED
    BY <1>1, <1>2, FreeAreBlocks

(* Bitmap indices are integers, and the bitmap keeps its type. *)
LEMMA IndexInt ==
    ASSUME NEW o \in Int, NEW k \in Orders
    PROVE  buddy_bmp_index_of(o, k) \in Int
<1>1. /\ Size(MAX_ORDER + 1) \in Nat \ {0} /\ Size(k + 1) \in Nat \ {0} /\ Size(k) \in Nat \ {0}
    BY SizeFacts DEF Orders
<1>2. ASSUME NEW a \in Int, NEW d \in Nat \ {0}
      PROVE  a % d \in Int /\ a \div d \in Int
    BY <1>2
<1> DEFINE r == o % Size(MAX_ORDER + 1)
           q == o \div Size(MAX_ORDER + 1)
<1>3. r \in Int /\ q \in Int
    BY <1>1, <1>2
<1> HIDE DEF r, q
<1>4. r % Size(k + 1) \in Int
    BY <1>1, <1>2, <1>3
<1>5. q * MAX_BLOCK_BITS \in Int
    BY <1>1, <1>3 DEF MAX_BLOCK_BITS
<1>6. buddy_bmp_index_of(o, k) = q * MAX_BLOCK_BITS + (r - (r % Size(k + 1))) + Size(k) - 1
    BY DEF buddy_bmp_index_of, q, r
<1> QED
    BY <1>1, <1>3, <1>4, <1>5, <1>6

LEMMA BitmapType ==
    ASSUME TypeOK, NEW i
    PROVE  /\ bmp_toggle_bit(i) \in [0 .. (buddy_bmp_size_bits - 1) -> {0, 1}]
           /\ bmp_set_bit(i, 0) \in [0 .. (buddy_bmp_size_bits - 1) -> {0, 1}]
           /\ bmp_set_bit(i, 1) \in [0 .. (buddy_bmp_size_bits - 1) -> {0, 1}]
<1> DEFINE D == 0 .. (buddy_bmp_size_bits - 1)
<1>1. bitmap \in [D -> {0, 1}]
    BY DEF TypeOK
<1> HIDE DEF D
<1>2. \A j \in D : 1 - bitmap[j] \in {0, 1}
  <2> SUFFICES ASSUME NEW j \in D PROVE 1 - bitmap[j] \in {0, 1}
      OBVIOUS
  <2>1. bitmap[j] = 0 \/ bitmap[j] = 1
      BY <1>1
  <2> QED
      BY <2>1
<1>3. bmp_toggle_bit(i) \in [D -> {0, 1}]
    BY <1>1, <1>2 DEF bmp_toggle_bit
<1>4. bmp_set_bit(i, 0) \in [D -> {0, 1}] /\ bmp_set_bit(i, 1) \in [D -> {0, 1}]
    BY <1>1 DEF bmp_set_bit
<1> QED
    BY <1>3, <1>4 DEF D

LEMMA AccountType ==
    ASSUME TypeOK, NEW n \in Int, Account(n)
    PROVE  freeSpace' \in 0 .. (AccountMod - 1) /\ allocated' \in 0 .. (AccountMod - 1)
<1>1. ASSUME NEW x \in Int PROVE x % AccountMod \in 0 .. (AccountMod - 1)
    BY BuddyAssumption
<1>2. freeSpace + n \in Int /\ allocated - n \in Int
    BY BuddyAssumption DEF TypeOK
<1> QED
    BY <1>1, <1>2 DEF Account

-----------------------------------------------------------------------------
(***************************************************************************)
(* One lemma per action.                                                   *)
(***************************************************************************)

LEMMA InitInv == Init => IndInv
<1> SUFFICES ASSUME Init PROVE IndInv
    OBVIOUS
<1>1. Block(0, 0) \in AnyBlocks
    BY SizeFacts DEF Block, AnyBlocks
<1>2. \A k \in Orders : freelists[k] = <<>> /\ freelists[k] \in Seq(Nat) /\ Range(freelists[k]) = {}
    BY DEF Init, Range
<1>3. FreeBlocks = {} /\ InHand = {} /\ held = {}
    BY <1>2 DEF FreeBlocks, InHand, Init
<1>4. TypeOK
    BY <1>1, SizeFacts, BuddyAssumption DEF Init, TypeOK, AnyBlocks, Orders
<1>5. Exclusive
    BY <1>2, <1>3 DEF Exclusive, IsInjective, Init
<1>6. Progress
    BY <1>3, SizeFacts DEF Progress, Init
<1> QED
    BY <1>4, <1>5, <1>6 DEF IndInv

LEMMA PopulateInv == IndInv /\ Populate => IndInv'
<1> SUFFICES ASSUME IndInv, Populate PROVE IndInv'
    OBVIOUS
<1> USE DEF IndInv
<1> DEFINE o == scan.cursor + scan.inner
           k == scan.order
<1>1. /\ o \in Nat /\ k \in Orders /\ Size(k) \in Nat \ {0} /\ Size(k + 1) = Size(k) + Size(k)
      /\ scan.inner \in Nat /\ scan.cursor \in Nat /\ Size(MAX_ORDER) \in Nat \ {0}
      /\ k - 1 \in -1 .. MAX_ORDER
  <2>1. /\ scan.order \in -1 .. MAX_ORDER /\ scan.order >= 0
        /\ scan.inner \in Nat /\ scan.cursor \in Nat /\ MAX_ORDER \in Nat
      BY SizeFacts DEF Populate, Scanning, TypeOK
  <2>2. k \in Orders /\ k - 1 \in -1 .. MAX_ORDER /\ MAX_ORDER \in Orders /\ o \in Nat
      BY <2>1 DEF Orders
  <2>3. ASSUME NEW i \in Orders
        PROVE  Size(i) \in Nat \ {0} /\ Size(i + 1) = Size(i) + Size(i)
      BY SizeFacts DEF Orders
  <2> QED
      BY <2>1, <2>2, <2>3
<1>2. pc = "populate" /\ pc' = "populate" /\ held = {} /\ held' = {} /\ InHand = {} /\ InHand' = {}
    BY DEF Populate, Progress, InHand
<1>3. CASE is_block_usable(o, k)
  <2>1. /\ freelists' = [freelists EXCEPT ![k] = Cons(o, @)]
        /\ entries' = entries + 1
        /\ freeSpace' = (freeSpace + Size(k)) % AccountMod
        /\ scan' = [cursor |-> scan.cursor, inner |-> scan.inner + Size(k), order |-> k - 1]
        /\ UNCHANGED <<pc, bitmap, allocated, held, cur, arg, order, bmpIndex, regions>>
      BY <1>3 DEF Populate, allocate_freelist_entry, Link
  <2>2. /\ scan'.cursor = scan.cursor /\ scan'.inner = scan.inner + Size(k)
        /\ scan'.order = k - 1 /\ Size(scan'.order + 1) = Size(k)
        /\ scan' \in [cursor : Nat, inner : Nat, order : -1 .. MAX_ORDER]
    <3>1. scan'.order + 1 = k
        BY <2>1, <1>1 DEF TypeOK, Orders
    <3>2. scan.cursor \in Nat /\ scan.inner + Size(k) \in Nat /\ k - 1 \in -1 .. MAX_ORDER
        BY <1>1
    <3>3. /\ scan'.cursor = scan.cursor /\ scan'.inner = scan.inner + Size(k)
          /\ scan'.order = k - 1
        BY <2>1
    <3>4. scan' \in [cursor : Nat, inner : Nat, order : -1 .. MAX_ORDER]
        BY <2>1, <3>2
    <3> QED
        BY <3>1, <3>3, <3>4
  <2>3. \A b \in FreeBlocks : b.offset + Size(b.order) <= o
      BY <1>2 DEF Progress
  <2>4. \A b \in FreeBlocks : Pages(b) \cap Pages(Block(o, k)) = {} /\ b # Block(o, k)
    <3> SUFFICES ASSUME NEW b \in FreeBlocks
                 PROVE  Pages(b) \cap Pages(Block(o, k)) = {} /\ b # Block(o, k)
        OBVIOUS
    <3>1. b.offset \in Nat /\ Size(b.order) \in Nat \ {0}
        BY FreeAreBlocks, SizeFacts DEF Blocks, Orders
    <3> QED
        BY <3>1, <2>3, <1>1 DEF Pages, Block
  <2>5. /\ freelists' \in [Orders -> Seq(Nat)]
        /\ \A i \in Orders : IsInjective(freelists'[i])
        /\ BlocksOn(freelists') = BlocksOn(freelists) \cup {Block(o, k)}
    <3>1. freelists \in [Orders -> Seq(Nat)] /\ \A i \in Orders : IsInjective(freelists[i])
        BY DEF TypeOK, Exclusive
    <3>2. Block(o, k) \notin BlocksOn(freelists)
        BY <2>4, FreeAreBlocks
    <3> QED
        BY <3>1, <3>2, <2>1, <1>1, LinkBlocks
  <2>6. FreeBlocks' = FreeBlocks \cup {Block(o, k)}
      BY <2>5 DEF FreeBlocks, BlocksOn
  <2>7. TypeOK'
    <3>1. (freeSpace + Size(k)) % AccountMod \in 0 .. (AccountMod - 1)
      <4>1. freeSpace + Size(k) \in Int
          BY <1>1, BuddyAssumption DEF TypeOK
      <4> QED
          BY <4>1, BuddyAssumption
    <3>2. entries' \in Int /\ freeSpace' \in 0 .. (AccountMod - 1)
        BY <3>1, <2>1 DEF TypeOK
    <3> QED
        BY <3>2, <2>1, <2>2, <2>5 DEF TypeOK
  <2>8. Exclusive'
    <3>1. Apart(FreeBlocks)
        BY <1>2 DEF Exclusive, Apart
    <3>2. Apart(FreeBlocks \cup {Block(o, k)})
        BY <3>1, <2>4 DEF Apart
    <3> QED
        BY <3>2, <2>5, <2>6, <1>2 DEF Exclusive, Apart
  <2>9. Progress'
    <3>1. \A b \in FreeBlocks' : b.offset + Size(b.order) <= scan'.cursor + scan'.inner
      <4> SUFFICES ASSUME NEW b \in FreeBlocks'
                   PROVE  b.offset + Size(b.order) <= scan'.cursor + scan'.inner
          OBVIOUS
      <4>1. CASE b = Block(o, k)
          BY <4>1, <2>2, <1>1 DEF Block
      <4>2. CASE b \in FreeBlocks
        <5>1. b.offset \in Nat /\ Size(b.order) \in Nat
            BY <4>2, FreeAreBlocks, SizeFacts DEF Blocks, Orders
        <5> QED
            BY <4>2, <5>1, <2>2, <2>3, <1>1
      <4> QED
          BY <4>1, <4>2, <2>6
    <3>2. \/ scan'.inner = Size(MAX_ORDER)
          \/ scan'.inner + Size(scan'.order + 1) <= Size(MAX_ORDER)
      <4>1. CASE scan.inner = 0 /\ k = MAX_ORDER
          BY <4>1, <2>2, <1>1
      <4>2. CASE scan.inner + Size(k + 1) <= Size(MAX_ORDER)
          BY <4>2, <2>2, <1>1
      <4>3. scan.inner # Size(MAX_ORDER)
          BY <1>1 DEF Populate, Scanning
      <4> QED
          BY <4>1, <4>2, <4>3, <1>2 DEF Progress
    <3> QED
        BY <3>1, <3>2, <1>2 DEF Progress
  <2> QED
      BY <2>7, <2>8, <2>9
<1>4. CASE ~is_block_usable(o, k)
  <2>1. /\ scan' = [scan EXCEPT !.order = @ - 1]
        /\ UNCHANGED <<freelists, entries, freeSpace, pc, bitmap, allocated, held, cur, arg,
                       order, bmpIndex, regions>>
      BY <1>4 DEF Populate
  <2>2. /\ scan'.cursor = scan.cursor /\ scan'.inner = scan.inner /\ scan'.order = k - 1
        /\ Size(scan'.order + 1) = Size(k)
        /\ scan' \in [cursor : Nat, inner : Nat, order : -1 .. MAX_ORDER]
    <3>1. scan'.order + 1 = k
        BY <2>1, <1>1 DEF TypeOK, Orders
    <3> QED
        BY <2>1, <3>1, <1>1 DEF TypeOK
  <2>3. FreeBlocks' = FreeBlocks
      BY <2>1 DEF FreeBlocks
  <2>4. TypeOK' /\ Exclusive'
      BY <2>1, <2>2, <2>3, <1>2 DEF TypeOK, Exclusive
  <2>5. Progress'
    <3>1. \/ scan'.inner = Size(MAX_ORDER)
          \/ scan'.inner + Size(scan'.order + 1) <= Size(MAX_ORDER)
      <4>1. CASE scan.inner = 0 /\ k = MAX_ORDER
          BY <4>1, <2>2, <1>1
      <4>2. CASE scan.inner + Size(k + 1) <= Size(MAX_ORDER)
          BY <4>2, <2>2, <1>1
      <4> QED
          BY <4>1, <4>2, <2>2, <1>2 DEF Progress
    <3> QED
        BY <3>1, <2>2, <2>3, <1>2 DEF Progress
  <2> QED
      BY <2>4, <2>5
<1> QED
    BY <1>3, <1>4

LEMMA PopulateNextInv == IndInv /\ PopulateNext => IndInv'
<1> SUFFICES ASSUME IndInv, PopulateNext PROVE IndInv'
    OBVIOUS
<1> USE DEF IndInv
<1>1. /\ pc = "populate" /\ scan.cursor \in Nat /\ scan.inner \in Nat
      /\ Size(MAX_ORDER) \in Nat \ {0} /\ MAX_ORDER \in Nat
      /\ scan.order + 1 \in 0 .. (MAX_ORDER + 1)
  <2>1. MAX_ORDER \in Nat /\ scan.order \in -1 .. MAX_ORDER /\ Size(MAX_ORDER) \in Nat \ {0}
      BY SizeFacts DEF TypeOK
  <2>2. pc = "populate" /\ scan.cursor \in Nat /\ scan.inner \in Nat
      BY DEF PopulateNext, TypeOK
  <2> QED
      BY <2>1, <2>2
<1>2. /\ scan' = [cursor |-> scan.cursor + Size(MAX_ORDER), inner |-> 0, order |-> MAX_ORDER]
      /\ UNCHANGED <<pc, freelists, bitmap, freeSpace, allocated, entries, held, cur, arg,
                     order, bmpIndex, regions>>
    BY DEF PopulateNext
<1>3. scan.cursor + Size(MAX_ORDER) \in Nat /\ MAX_ORDER \in -1 .. MAX_ORDER /\ 0 \in Nat
    BY <1>1
<1>4. TypeOK'
    BY <1>2, <1>3 DEF TypeOK
<1>5. FreeBlocks' = FreeBlocks /\ InHand' = InHand
    BY <1>2 DEF FreeBlocks, InHand
<1>6. Exclusive'
    BY <1>2, <1>5 DEF Exclusive
<1>7. Progress'
  <2>1. scan.inner <= Size(MAX_ORDER)
    <3>1. Size(scan.order + 1) \in Nat
        BY <1>1, SizeFacts
    <3> QED
        BY <3>1, <1>1 DEF Progress
  <2>2. ASSUME NEW b \in FreeBlocks
        PROVE  b.offset + Size(b.order) <= scan.cursor + Size(MAX_ORDER) + 0
    <3>1. b.offset \in Nat /\ Size(b.order) \in Nat
        BY FreeAreBlocks, SizeFacts DEF Blocks, Orders
    <3> QED
        BY <3>1, <2>1, <1>1 DEF Progress
  <2> QED
      BY <2>2, <1>1, <1>2, <1>5 DEF Progress
<1> QED
    BY <1>4, <1>6, <1>7

LEMMA PopulateDoneInv == IndInv /\ PopulateDone => IndInv'
<1> SUFFICES ASSUME IndInv, PopulateDone PROVE IndInv'
    OBVIOUS
<1>1. FreeBlocks' = FreeBlocks /\ InHand' = {} /\ InHand = {}
    BY DEF PopulateDone, FreeBlocks, InHand
<1> QED
    BY <1>1 DEF PopulateDone, IndInv, TypeOK, Exclusive, Progress

(***************************************************************************)
(* What unlinking the head of a list, or the entry of a given block, and   *)
(* linking a new entry do, in terms of the free blocks.                    *)
(***************************************************************************)
LEMMA UnlinkedFrom ==
    ASSUME IndInv, NEW k \in Orders, NEW o \in Range(freelists[k]),
           freelists' \in [Orders -> Seq(Nat)],
           \A i \in Orders \ {k} : freelists'[i] = freelists[i],
           Range(freelists'[k]) = Range(freelists[k]) \ {o}
    PROVE  Block(o, k) \in FreeBlocks /\ FreeBlocks' = FreeBlocks \ {Block(o, k)}
<1>1. \A i \in Orders :
          Range(freelists'[i]) = IF i = k THEN Range(freelists[k]) \ {o} ELSE Range(freelists[i])
    OBVIOUS
<1>2. FreeBlocks' = FreeBlocks \ {Block(o, k)}
    BY <1>1 DEF FreeBlocks, Block
<1>3. Block(o, k) \in FreeBlocks
  <2>1. FreeBlocks = BlocksOn(freelists) /\ freelists \in [Orders -> Seq(Nat)]
      BY DEF FreeBlocks, BlocksOn, IndInv, TypeOK
  <2> QED
      BY <2>1, OnLists
<1> QED
    BY <1>2, <1>3

LEMMA PopHead ==
    ASSUME IndInv, NEW k \in Orders, freelists[k] # <<>>,
           freelists' = [freelists EXCEPT ![k] = Tail(@)]
    PROVE  /\ freelists' \in [Orders -> Seq(Nat)]
           /\ \A i \in Orders : IsInjective(freelists'[i])
           /\ Block(Head(freelists[k]), k) \in FreeBlocks
           /\ FreeBlocks' = FreeBlocks \ {Block(Head(freelists[k]), k)}
           /\ Head(freelists[k]) \in Nat
<1>1. freelists \in [Orders -> Seq(Nat)] /\ \A i \in Orders : IsInjective(freelists[i])
    BY DEF IndInv, TypeOK, Exclusive
<1>2. freelists[k] \in Seq(Nat) /\ IsInjective(freelists[k])
    BY <1>1
<1> DEFINE t == Tail(freelists[k])
           o == Head(freelists[k])
<1>3. t \in Seq(Nat) /\ IsInjective(t) /\ o \in Range(freelists[k]) /\ o \in Nat
      /\ Range(t) = Range(freelists[k]) \ {o}
    BY <1>2, TailFacts
<1>4. /\ freelists' \in [Orders -> Seq(Nat)]
      /\ freelists'[k] = t
      /\ \A i \in Orders \ {k} : freelists'[i] = freelists[i]
    BY <1>1, <1>3
<1>5. \A i \in Orders : IsInjective(freelists'[i])
    BY <1>1, <1>3, <1>4
<1>6. Range(freelists'[k]) = Range(freelists[k]) \ {o}
    BY <1>3, <1>4
<1> HIDE DEF t, o
<1>7. Block(o, k) \in FreeBlocks /\ FreeBlocks' = FreeBlocks \ {Block(o, k)}
    BY <1>3, <1>4, <1>6, UnlinkedFrom
<1> QED
    BY <1>3, <1>4, <1>5, <1>7 DEF o

LEMMA PopEntry ==
    ASSUME IndInv, NEW k \in Orders, NEW o, Unlink(k, o)
    PROVE  /\ freelists' \in [Orders -> Seq(Nat)]
           /\ \A i \in Orders : IsInjective(freelists'[i])
           /\ Block(o, k) \in FreeBlocks
           /\ FreeBlocks' = FreeBlocks \ {Block(o, k)}
           /\ o \in Nat
<1>1. freelists \in [Orders -> Seq(Nat)] /\ \A i \in Orders : IsInjective(freelists[i])
    BY DEF IndInv, TypeOK, Exclusive
<1>2. freelists[k] \in Seq(Nat) /\ IsInjective(freelists[k])
    BY <1>1
<1>3. PICK i \in DOMAIN freelists[k] :
          freelists[k][i] = o /\ freelists' = [freelists EXCEPT ![k] = RemoveAt(@, i)]
    BY DEF Unlink
<1>4. i \in 1 .. Len(freelists[k]) /\ o \in Nat /\ o \in Range(freelists[k])
    BY <1>2, <1>3 DEF Range
<1> DEFINE t == RemoveAt(freelists[k], i)
<1>5. t \in Seq(Nat) /\ IsInjective(t) /\ Range(t) = Range(freelists[k]) \ {o}
    BY <1>2, <1>3, <1>4, RemoveFacts
<1>6. freelists' = [freelists EXCEPT ![k] = t]
    BY <1>3
<1> HIDE DEF t
<1>7. /\ freelists' \in [Orders -> Seq(Nat)]
      /\ freelists'[k] = t
      /\ \A j \in Orders \ {k} : freelists'[j] = freelists[j]
    BY <1>1, <1>5, <1>6
<1>8. \A j \in Orders : IsInjective(freelists'[j])
    BY <1>1, <1>5, <1>7
<1>9. Range(freelists'[k]) = Range(freelists[k]) \ {o}
    BY <1>5, <1>7
<1>10. Block(o, k) \in FreeBlocks /\ FreeBlocks' = FreeBlocks \ {Block(o, k)}
    BY <1>4, <1>7, <1>9, UnlinkedFrom
<1> QED
    BY <1>4, <1>7, <1>8, <1>10

LEMMA PushEntry ==
    ASSUME IndInv, NEW k \in Orders, NEW o \in Nat, Link(k, o), Block(o, k) \notin FreeBlocks
    PROVE  /\ freelists' \in [Orders -> Seq(Nat)]
           /\ \A i \in Orders : IsInjective(freelists'[i])
           /\ FreeBlocks' = FreeBlocks \cup {Block(o, k)}
<1>1. freelists \in [Orders -> Seq(Nat)] /\ \A i \in Orders : IsInjective(freelists[i])
    BY DEF IndInv, TypeOK, Exclusive
<1>2. FreeBlocks = BlocksOn(freelists) /\ FreeBlocks' = BlocksOn(freelists')
    BY DEF FreeBlocks, BlocksOn
<1> QED
    BY <1>1, <1>2, LinkBlocks DEF Link

(***************************************************************************)
(* Sets of blocks: F free, H held, I in hand.                              *)
(***************************************************************************)
LEMMA Moved ==
    ASSUME NEW F, NEW H, NEW I, NEW F2, NEW H2, NEW I2, Parts(F, H, I),
           F2 \cup H2 \cup I2 = F \cup H \cup I,
           F2 \cap H2 = {}, I2 \cap (F2 \cup H2) = {}
    PROVE  Parts(F2, H2, I2)
BY DEF Parts

(* The block in hand is cut in two. *)
LEMMA Cut ==
    ASSUME NEW F \in SUBSET AnyBlocks, NEW H \in SUBSET AnyBlocks, NEW b \in AnyBlocks,
           Parts(F, H, {b}), NEW x \in AnyBlocks, NEW y \in AnyBlocks, x # y,
           Pages(x) \cap Pages(y) = {}, Pages(x) \cup Pages(y) = Pages(b)
    PROVE  /\ x \notin F \cup H /\ y \notin F \cup H
           /\ Parts(F \cup {x}, H, {y})
           /\ Parts(F, H \cup {x}, {y})
           /\ Parts(F \cup {x}, H \cup {y}, {})
<1> DEFINE S == F \cup H \cup {b}
<1>1. S \in SUBSET AnyBlocks /\ Apart(S) /\ b \in S /\ S \ {b} = F \cup H
    BY DEF Parts
<1>2. x \notin S \ {b} /\ y \notin S \ {b} /\ Apart((S \ {b}) \cup {x, y})
  <2> HIDE DEF S
  <2> QED
      BY <1>1, SplitApart
<1>3. x \notin F \cup H /\ y \notin F \cup H /\ Apart(F \cup H \cup {x, y}) /\ F \cap H = {}
    BY <1>1, <1>2 DEF Parts
<1>4. /\ (F \cup {x}) \cup H \cup {y} = F \cup H \cup {x, y}
      /\ F \cup (H \cup {x}) \cup {y} = F \cup H \cup {x, y}
      /\ (F \cup {x}) \cup (H \cup {y}) \cup {} = F \cup H \cup {x, y}
    OBVIOUS
<1> HIDE DEF S
<1>5. Parts(F \cup {x}, H, {y})
    BY <1>3, <1>4 DEF Parts
<1>6. Parts(F, H \cup {x}, {y})
    BY <1>3, <1>4 DEF Parts
<1>7. Parts(F \cup {x}, H \cup {y}, {})
    BY <1>3, <1>4 DEF Parts
<1> QED
    BY <1>3, <1>5, <1>6, <1>7

(* A free block c and a block b, held or in hand, are joined. *)
LEMMA Joined ==
    ASSUME NEW F \in SUBSET AnyBlocks, NEW H \in SUBSET AnyBlocks, NEW I \in SUBSET AnyBlocks,
           Parts(F, H, I), NEW c \in F, NEW b, NEW m \in AnyBlocks,
           Pages(m) = Pages(b) \cup Pages(c)
    PROVE  /\ b \in H /\ I = {} => Parts(F \ {c}, H \ {b}, {m})
           /\ I = {b} => Parts(F \ {c}, H, {m})
<1> DEFINE S == F \cup H \cup I
<1>1. ASSUME b \in S
      PROVE  m \notin S \ {b, c} /\ Apart((S \ {b, c}) \cup {m})
  <2>1. S \in SUBSET AnyBlocks /\ Apart(S) /\ c \in S
      BY DEF Parts
  <2> HIDE DEF S
  <2> QED
      BY <1>1, <2>1, MergeApart
<1>2. CASE b \in H /\ I = {}
  <2>1. S \ {b, c} = (F \ {c}) \cup (H \ {b}) /\ b \in S
      BY <1>2 DEF Parts
  <2>2. m \notin (F \ {c}) \cup (H \ {b}) /\ Apart((F \ {c}) \cup (H \ {b}) \cup {m})
      BY <1>1, <2>1
  <2>3. Parts(F \ {c}, H \ {b}, {m})
      BY <2>2 DEF Parts
  <2> QED
      BY <1>2, <2>3 DEF Parts
<1>3. CASE I = {b}
  <2>1. S \ {b, c} = (F \ {c}) \cup H /\ b \in S
      BY <1>3 DEF Parts
  <2>2. m \notin (F \ {c}) \cup H /\ Apart((F \ {c}) \cup H \cup {m})
      BY <1>1, <2>1
  <2>3. Parts(F \ {c}, H, {m})
      BY <2>2 DEF Parts
  <2> QED
      BY <1>3, <2>3
<1> QED
    BY <1>2, <1>3

(* What holds whenever a call starts. *)
LEMMA Idle ==
    ASSUME IndInv, pc = "idle"
    PROVE  /\ TypeOK
           /\ InHand = {}
           /\ Parts(FreeBlocks, held, {})
           /\ \A k \in Orders : IsInjective(freelists[k])
           /\ FreeBlocks \subseteq Blocks /\ held \subseteq Blocks /\ Blocks \subseteq AnyBlocks
<1>1. TypeOK /\ Exclusive
    BY DEF IndInv
<1>2. InHand = {}
    BY DEF InHand
<1>3. Blocks \subseteq AnyBlocks
    BY SizeFacts DEF Blocks, AnyBlocks, Orders
<1> QED
    BY <1>1, <1>2, <1>3, ExclusiveParts, FreeAreBlocks DEF TypeOK

(* What holds while a loop has the block cur in hand. *)
LEMMA Busy ==
    ASSUME IndInv, pc \in {"split", "merge", "shrink"}
    PROVE  /\ TypeOK
           /\ InHand = {cur}
           /\ cur \in AnyBlocks
           /\ Parts(FreeBlocks, held, {cur})
           /\ \A k \in Orders : IsInjective(freelists[k])
           /\ FreeBlocks \subseteq Blocks /\ held \subseteq Blocks /\ Blocks \subseteq AnyBlocks
<1>1. TypeOK /\ Exclusive
    BY DEF IndInv
<1>2. InHand = {cur}
    BY DEF InHand
<1>3. Blocks \subseteq AnyBlocks
    BY SizeFacts DEF Blocks, AnyBlocks, Orders
<1>4. cur \in AnyBlocks
    BY <1>1 DEF TypeOK, AnyBlocks
<1> QED
    BY <1>1, <1>2, <1>3, <1>4, ExclusiveParts, FreeAreBlocks DEF TypeOK

LEMMA SizeNat ==
    ASSUME NEW k \in Orders
    PROVE  Size(k) \in Nat \ {0} /\ -Size(k) \in Int
<1>1. Size(k) \in Nat \ {0}
    BY SizeFacts DEF Orders
<1> QED
    BY <1>1

(* The values Return leaves behind have their type. *)
LEMMA ReturnType ==
    ASSUME Return
    PROVE  /\ pc' = "idle"
           /\ cur' \in [offset : Nat, order : 0 .. (MAX_ORDER + 1)]
           /\ arg' \in Nat /\ order' \in Orders /\ bmpIndex' \in Int
           /\ InHand' = {}
<1>1. cur' = Block(0, 0) /\ arg' = 0 /\ order' = 0 /\ bmpIndex' = 0 /\ pc' = "idle"
    BY DEF Return
<1>2. 0 \in 0 .. (MAX_ORDER + 1) /\ 0 \in Orders /\ 0 \in Nat /\ 0 \in Int
    BY SizeFacts DEF Orders
<1> QED
    BY <1>1, <1>2 DEF Block, InHand

LEMMA AllocHeadInv ==
    ASSUME IndInv, NEW k \in Orders, AllocHead(k)
    PROVE  IndInv'
<1> DEFINE b == Block(Head(freelists[k]), k)
<1>1. /\ pc = "idle" /\ pc' = "idle" /\ freelists[k] # <<>>
      /\ held' = held \cup {b}
      /\ bitmap' = bmp_toggle_bit(buddy_bmp_index_of(Head(freelists[k]), k))
      /\ freelists' = [freelists EXCEPT ![k] = Tail(@)]
      /\ entries' = entries - 1
      /\ Account(-Size(k))
      /\ UNCHANGED <<cur, arg, order, bmpIndex, scan, regions>>
    BY DEF AllocHead, release_freelist_entry
<1>2. TypeOK /\ Parts(FreeBlocks, held, {}) /\ FreeBlocks \subseteq Blocks
    BY <1>1, Idle
<1>3. /\ freelists' \in [Orders -> Seq(Nat)]
      /\ \A i \in Orders : IsInjective(freelists'[i])
      /\ b \in FreeBlocks /\ FreeBlocks' = FreeBlocks \ {b}
    BY <1>1, PopHead
<1>4. freeSpace' \in 0 .. (AccountMod - 1) /\ allocated' \in 0 .. (AccountMod - 1)
    BY <1>1, <1>2, SizeNat, AccountType
<1> HIDE DEF b
<1>5. TypeOK'
  <2>1. held' \subseteq Blocks /\ entries' \in Int
      BY <1>1, <1>2, <1>3 DEF TypeOK
  <2>2. bitmap' \in [0 .. (buddy_bmp_size_bits - 1) -> {0, 1}]
      BY <1>1, <1>2, BitmapType
  <2> QED
      BY <1>1, <1>2, <1>3, <1>4, <2>1, <2>2 DEF TypeOK
<1>6. Parts(FreeBlocks', held', InHand')
  <2>1. InHand' = {}
      BY <1>1 DEF InHand
  <2>2. FreeBlocks' \cup held' \cup {} = FreeBlocks \cup held \cup {}
      BY <1>1, <1>3
  <2>3. FreeBlocks' \cap held' = {}
      BY <1>1, <1>2, <1>3 DEF Parts
  <2> QED
      BY <1>2, <2>1, <2>2, <2>3, Moved
<1> QED
    BY <1>1, <1>3, <1>5, <1>6 DEF IndInv, Exclusive, Parts, Apart, Progress

LEMMA AllocFindInv ==
    ASSUME IndInv, NEW k \in Orders, NEW j \in Orders, AllocFind(k, j)
    PROVE  IndInv'
<1> DEFINE b == Block(Head(freelists[j]), j)
<1>1. /\ pc = "idle" /\ pc' = "split" /\ freelists[j] # <<>> /\ j > k
      /\ cur' = b /\ arg' = k
      /\ bitmap' = bmp_toggle_bit(buddy_bmp_index_of(Head(freelists[j]), j))
      /\ freelists' = [freelists EXCEPT ![j] = Tail(@)]
      /\ UNCHANGED <<freeSpace, allocated, entries, held, order, bmpIndex, scan, regions>>
    BY DEF AllocFind
<1>2. /\ TypeOK /\ Parts(FreeBlocks, held, {}) /\ FreeBlocks \subseteq Blocks
      /\ Blocks \subseteq AnyBlocks
    BY <1>1, Idle
<1>3. /\ freelists' \in [Orders -> Seq(Nat)]
      /\ \A i \in Orders : IsInjective(freelists'[i])
      /\ b \in FreeBlocks /\ FreeBlocks' = FreeBlocks \ {b}
    BY <1>1, PopHead
<1>4. b.order = j /\ b \in AnyBlocks
    BY <1>2, <1>3 DEF Block
<1> HIDE DEF b
<1>5. TypeOK'
  <2>1. bitmap' \in [0 .. (buddy_bmp_size_bits - 1) -> {0, 1}]
      BY <1>1, <1>2, BitmapType
  <2>2. arg' \in Nat
      BY <1>1 DEF Orders
  <2> QED
      BY <1>1, <1>2, <1>3, <1>4, <2>1, <2>2 DEF TypeOK, AnyBlocks
<1>6. Parts(FreeBlocks', held', InHand')
  <2>1. InHand' = {b} /\ held' = held
      BY <1>1 DEF InHand
  <2>2. FreeBlocks' \cup held' \cup {b} = FreeBlocks \cup held \cup {}
      BY <1>1, <1>3
  <2>3. FreeBlocks' \cap held' = {} /\ {b} \cap (FreeBlocks' \cup held') = {}
      BY <1>1, <1>2, <1>3 DEF Parts
  <2> QED
      BY <1>2, <2>1, <2>2, <2>3, Moved
<1>7. Progress'
    BY <1>1, <1>4 DEF Progress
<1> QED
    BY <1>1, <1>3, <1>5, <1>6, <1>7 DEF IndInv, Exclusive, Parts, Apart

LEMMA SplitHalfInv == IndInv /\ SplitHalf => IndInv'
<1> SUFFICES ASSUME IndInv, SplitHalf PROVE IndInv'
    OBVIOUS
<1> DEFINE k == cur.order - 1
           lo == Block(cur.offset, k)
           hi == Block(cur.offset + Size(k), k)
<1>1. /\ pc = "split" /\ pc' = "split" /\ k > arg
      /\ Link(k, cur.offset + Size(k)) /\ entries' = entries + 1
      /\ bitmap' = bmp_toggle_bit(buddy_bmp_index_of(cur.offset, k))
      /\ cur' = lo
      /\ UNCHANGED <<freeSpace, allocated, held, arg, order, bmpIndex, scan, regions>>
    BY DEF SplitHalf, allocate_freelist_entry
<1>2. /\ TypeOK /\ cur \in AnyBlocks /\ Parts(FreeBlocks, held, {cur})
      /\ FreeBlocks \in SUBSET AnyBlocks /\ held \in SUBSET AnyBlocks /\ Blocks \subseteq AnyBlocks
    BY <1>1, Busy
<1>3. cur.order >= 1 /\ arg \in Nat /\ cur.order \in Int
    BY <1>1, <1>2, SizeFacts DEF Progress, IndInv, TypeOK, Orders
<1>4. /\ k \in Orders /\ lo \in Blocks /\ hi \in Blocks /\ lo # hi
      /\ Pages(hi) \cap Pages(lo) = {} /\ Pages(hi) \cup Pages(lo) = Pages(cur)
    BY <1>2, <1>3, Halves
<1>5. hi.offset = cur.offset + Size(k) /\ hi.offset \in Nat /\ lo.order = k
    BY <1>4 DEF Block, Blocks
<1> HIDE DEF lo, hi
<1>6. hi \notin FreeBlocks \cup held /\ Parts(FreeBlocks \cup {hi}, held, {lo})
    BY <1>2, <1>4, Cut
<1>7. /\ freelists' \in [Orders -> Seq(Nat)]
      /\ \A i \in Orders : IsInjective(freelists'[i])
      /\ FreeBlocks' = FreeBlocks \cup {hi}
  <2>1. hi = Block(cur.offset + Size(k), k) /\ cur.offset + Size(k) \in Nat
      BY <1>5 DEF hi
  <2> QED
      BY <1>1, <1>4, <1>6, <2>1, PushEntry
<1>8. TypeOK'
  <2>1. bitmap' \in [0 .. (buddy_bmp_size_bits - 1) -> {0, 1}]
      BY <1>1, <1>2, BitmapType
  <2>2. entries' \in Int /\ cur' \in AnyBlocks
      BY <1>1, <1>2, <1>4 DEF TypeOK
  <2> QED
      BY <1>1, <1>2, <1>7, <2>1, <2>2 DEF TypeOK, AnyBlocks
<1>9. InHand' = {lo}
    BY <1>1 DEF InHand
<1>10. Progress'
    BY <1>1, <1>3, <1>4, <1>5 DEF Progress
<1> QED
    BY <1>1, <1>6, <1>7, <1>8, <1>9, <1>10 DEF IndInv, Exclusive, Parts, Apart

LEMMA SplitLastInv == IndInv /\ SplitLast => IndInv'
<1> SUFFICES ASSUME IndInv, SplitLast PROVE IndInv'
    OBVIOUS
<1> DEFINE lo == Block(cur.offset, arg)
           hi == Block(cur.offset + Size(arg), arg)
<1>1. /\ pc = "split" /\ cur.order - 1 <= arg /\ Return
      /\ Link(arg, cur.offset)
      /\ bitmap' = bmp_toggle_bit(buddy_bmp_index_of(cur.offset, arg))
      /\ held' = held \cup {hi}
      /\ Account(-Size(arg))
      /\ UNCHANGED <<entries, scan, regions>>
    BY DEF SplitLast
<1>2. /\ TypeOK /\ cur \in AnyBlocks /\ Parts(FreeBlocks, held, {cur})
      /\ FreeBlocks \in SUBSET AnyBlocks /\ held \in SUBSET AnyBlocks /\ Blocks \subseteq AnyBlocks
    BY <1>1, Busy
<1>3. cur.order >= 1 /\ arg = cur.order - 1
  <2>1. arg \in Nat /\ cur.order \in Orders /\ arg < cur.order
      BY <1>1, <1>2 DEF Progress, IndInv, TypeOK
  <2>2. cur.order \in Int
      BY <2>1, SizeFacts DEF Orders
  <2> QED
      BY <1>1, <2>1, <2>2
<1>4. /\ arg \in Orders /\ lo \in Blocks /\ hi \in Blocks /\ lo # hi
      /\ Pages(lo) \cap Pages(hi) = {} /\ Pages(lo) \cup Pages(hi) = Pages(cur)
    BY <1>2, <1>3, Halves
<1>5. cur.offset \in Nat
    BY <1>2 DEF AnyBlocks
<1> HIDE DEF hi
<1>6. lo \notin FreeBlocks \cup held /\ Parts(FreeBlocks \cup {lo}, held \cup {hi}, {})
  <2> HIDE DEF lo
  <2> QED
      BY <1>2, <1>4, Cut
<1>7. /\ freelists' \in [Orders -> Seq(Nat)]
      /\ \A i \in Orders : IsInjective(freelists'[i])
      /\ FreeBlocks' = FreeBlocks \cup {lo}
    BY <1>1, <1>4, <1>5, <1>6, PushEntry
<1>8. freeSpace' \in 0 .. (AccountMod - 1) /\ allocated' \in 0 .. (AccountMod - 1)
    BY <1>1, <1>2, <1>4, SizeNat, AccountType
<1>9. /\ pc' = "idle" /\ InHand' = {} /\ arg' \in Nat /\ order' \in Orders /\ bmpIndex' \in Int
      /\ cur' \in [offset : Nat, order : 0 .. (MAX_ORDER + 1)]
    BY <1>1, ReturnType
<1>10. TypeOK'
  <2>1. bitmap' \in [0 .. (buddy_bmp_size_bits - 1) -> {0, 1}]
      BY <1>1, <1>2, BitmapType
  <2>2. held' \subseteq Blocks
      BY <1>1, <1>2, <1>4 DEF TypeOK
  <2> QED
      BY <1>1, <1>2, <1>7, <1>8, <1>9, <2>1, <2>2 DEF TypeOK
<1>11. Progress'
    BY <1>9 DEF Progress
<1> QED
    BY <1>1, <1>6, <1>7, <1>9, <1>10, <1>11 DEF IndInv, Exclusive, Parts, Apart

LEMMA AllocNothingLeftInv ==
    ASSUME IndInv, NEW k \in Orders, AllocNothingLeft(k)
    PROVE  IndInv'
<1>1. /\ pc = "idle" /\ pc' = "out_of_bounds_address"
      /\ Account(-Size(k))
      /\ UNCHANGED <<freelists, bitmap, entries, held, cur, arg, order, bmpIndex, scan, regions>>
    BY DEF AllocNothingLeft
<1>2. freeSpace' \in 0 .. (AccountMod - 1) /\ allocated' \in 0 .. (AccountMod - 1)
    BY <1>1, Idle, SizeNat, AccountType
<1>3. TypeOK'
    BY <1>1, <1>2 DEF IndInv, TypeOK, Stopped
<1>4. FreeBlocks' = FreeBlocks /\ InHand = {} /\ InHand' = {}
    BY <1>1 DEF FreeBlocks, InHand
<1> QED
    BY <1>1, <1>3, <1>4 DEF IndInv, Exclusive, Progress

LEMMA FreeAloneInv ==
    ASSUME IndInv, NEW b \in held, FreeAlone(b)
    PROVE  IndInv'
<1>1. /\ pc = "idle" /\ pc' = "idle" /\ held' = held \ {b}
      /\ Link(b.order, b.offset) /\ entries' = entries + 1
      /\ bitmap' = bmp_set_bit(buddy_bmp_index_of(b.offset, b.order), 1)
      /\ Account(Size(b.order))
      /\ UNCHANGED <<cur, arg, order, bmpIndex, scan, regions>>
    BY DEF FreeAlone, allocate_freelist_entry
<1>2. TypeOK /\ Parts(FreeBlocks, held, {}) /\ b \in Blocks
    BY <1>1, Idle
<1>3. b.order \in Orders /\ b.offset \in Nat /\ b = Block(b.offset, b.order) /\ b \notin FreeBlocks
    BY <1>2 DEF Blocks, Block, Parts
<1>4. /\ freelists' \in [Orders -> Seq(Nat)]
      /\ \A i \in Orders : IsInjective(freelists'[i])
      /\ FreeBlocks' = FreeBlocks \cup {b}
    BY <1>1, <1>3, PushEntry
<1>5. freeSpace' \in 0 .. (AccountMod - 1) /\ allocated' \in 0 .. (AccountMod - 1)
  <2>1. Size(b.order) \in Int
      BY <1>3, SizeNat
  <2> QED
      BY <1>1, <1>2, <2>1, AccountType
<1>6. TypeOK'
  <2>1. bitmap' \in [0 .. (buddy_bmp_size_bits - 1) -> {0, 1}]
      BY <1>1, <1>2, BitmapType
  <2>2. held' \subseteq Blocks /\ entries' \in Int
      BY <1>1, <1>2 DEF TypeOK
  <2> QED
      BY <1>1, <1>2, <1>4, <1>5, <2>1, <2>2 DEF TypeOK
<1>7. Parts(FreeBlocks', held', InHand')
  <2>1. InHand' = {}
      BY <1>1 DEF InHand
  <2>2. FreeBlocks' \cup held' \cup {} = FreeBlocks \cup held \cup {}
      BY <1>1, <1>4
  <2>3. FreeBlocks' \cap held' = {}
      BY <1>1, <1>2, <1>4 DEF Parts
  <2> QED
      BY <1>2, <2>1, <2>2, <2>3, Moved
<1> QED
    BY <1>1, <1>4, <1>6, <1>7 DEF IndInv, Exclusive, Parts, Apart, Progress

LEMMA FreeMergeInv ==
    ASSUME IndInv, NEW b \in held, FreeMerge(b)
    PROVE  IndInv'
<1> DEFINE o == buddy_page_offset(b.offset, b.order)
           x == buddy_bmp_index_of(b.offset, b.order)
           m == [offset |-> MinOf(b.offset, o), order |-> b.order + 1]
           c == Block(o, b.order)
<1>1. /\ pc = "idle" /\ pc' = "merge" /\ held' = held \ {b}
      /\ Unlink(b.order, o)
      /\ bitmap' = bmp_set_bit(x, 0)
      /\ cur' = m /\ order' = b.order /\ bmpIndex' = x
      /\ UNCHANGED <<freeSpace, allocated, entries, arg, scan, regions>>
    BY DEF FreeMerge
<1>2. /\ TypeOK /\ Parts(FreeBlocks, held, {}) /\ b \in Blocks
      /\ FreeBlocks \in SUBSET AnyBlocks /\ held \in SUBSET AnyBlocks
    BY <1>1, Idle
<1>3. b.order \in Orders /\ b.offset \in Nat
    BY <1>2 DEF Blocks
<1>4. /\ freelists' \in [Orders -> Seq(Nat)]
      /\ \A i \in Orders : IsInjective(freelists'[i])
      /\ c \in FreeBlocks /\ FreeBlocks' = FreeBlocks \ {c} /\ o \in Nat
    BY <1>1, <1>3, PopEntry
<1>5. m \in AnyBlocks /\ Pages(m) = Pages(b) \cup Pages(c)
    BY <1>2, <1>4, Whole
<1>6. x \in Int
    BY <1>3, IndexInt
<1> HIDE DEF o, x, m, c
<1>7. TypeOK'
  <2>1. bitmap' \in [0 .. (buddy_bmp_size_bits - 1) -> {0, 1}]
      BY <1>1, <1>2, BitmapType
  <2>2. held' \subseteq Blocks
      BY <1>1, <1>2 DEF TypeOK
  <2> QED
      BY <1>1, <1>2, <1>3, <1>4, <1>5, <1>6, <2>1, <2>2 DEF TypeOK, AnyBlocks
<1>8. InHand' = {m}
    BY <1>1 DEF InHand
<1>9. Parts(FreeBlocks \ {c}, held \ {b}, {m})
    BY <1>2, <1>4, <1>5, Joined
<1> QED
    BY <1>1, <1>4, <1>7, <1>8, <1>9 DEF IndInv, Exclusive, Parts, Apart, Progress

LEMMA FreeNullEntryInv ==
    ASSUME IndInv, NEW b \in held, FreeNullEntry(b)
    PROVE  IndInv'
<1>1. /\ pc = "idle" /\ pc' = "null_entry" /\ held' = held \ {b} /\ cur' = b
      /\ UNCHANGED <<freelists, bitmap, freeSpace, allocated, entries, arg, order, bmpIndex,
                     scan, regions>>
    BY DEF FreeNullEntry
<1>2. /\ TypeOK /\ Parts(FreeBlocks, held, {}) /\ b \in AnyBlocks
      /\ \A k \in Orders : IsInjective(freelists[k])
    BY <1>1, Idle
<1>3. FreeBlocks' = FreeBlocks /\ InHand' = {b}
    BY <1>1 DEF FreeBlocks, InHand
<1>4. TypeOK'
    BY <1>1, <1>2 DEF TypeOK, Stopped, AnyBlocks
<1>5. Parts(FreeBlocks', held', InHand')
  <2>1. FreeBlocks' \cup held' \cup {b} = FreeBlocks \cup held \cup {}
      BY <1>1, <1>3
  <2>2. FreeBlocks' \cap held' = {} /\ {b} \cap (FreeBlocks' \cup held') = {}
      BY <1>1, <1>2, <1>3 DEF Parts
  <2> QED
      BY <1>2, <1>3, <2>1, <2>2, Moved
<1> QED
    BY <1>1, <1>2, <1>4, <1>5 DEF IndInv, Exclusive, Parts, Apart, Progress

LEMMA CoalesceInv == IndInv /\ Coalesce => IndInv'
<1> SUFFICES ASSUME IndInv, Coalesce PROVE IndInv'
    OBVIOUS
<1> DEFINE o == buddy_page_offset(cur.offset, cur.order)
           x == buddy_bmp_index_of(cur.offset, cur.order)
           m == [offset |-> MinOf(cur.offset, o), order |-> cur.order + 1]
           c == Block(o, cur.order)
<1>1. /\ pc = "merge" /\ pc' = "merge" /\ cur.order < MAX_ORDER
      /\ Unlink(cur.order, o) /\ entries' = entries - 1
      /\ bitmap' = bmp_set_bit(x, 0) /\ bmpIndex' = x /\ cur' = m
      /\ UNCHANGED <<freeSpace, allocated, held, arg, order, scan, regions>>
    BY DEF Coalesce, Coalescing, release_freelist_entry
<1>2. /\ TypeOK /\ Parts(FreeBlocks, held, {cur}) /\ cur \in AnyBlocks
      /\ FreeBlocks \in SUBSET AnyBlocks /\ held \in SUBSET AnyBlocks
    BY <1>1, Busy
<1>3. cur.order \in Orders /\ cur.offset \in Nat /\ cur \in Blocks
    BY <1>1, <1>2, SizeFacts DEF Blocks, AnyBlocks, Orders
<1>4. /\ freelists' \in [Orders -> Seq(Nat)]
      /\ \A i \in Orders : IsInjective(freelists'[i])
      /\ c \in FreeBlocks /\ FreeBlocks' = FreeBlocks \ {c} /\ o \in Nat
    BY <1>1, <1>3, PopEntry
<1>5. m \in AnyBlocks /\ Pages(m) = Pages(cur) \cup Pages(c)
    BY <1>3, <1>4, Whole
<1>6. x \in Int
    BY <1>3, IndexInt
<1> HIDE DEF o, x, m, c
<1>7. TypeOK'
  <2>1. bitmap' \in [0 .. (buddy_bmp_size_bits - 1) -> {0, 1}]
      BY <1>1, <1>2, BitmapType
  <2>2. entries' \in Int
      BY <1>1, <1>2 DEF TypeOK
  <2> QED
      BY <1>1, <1>2, <1>4, <1>5, <1>6, <2>1, <2>2 DEF TypeOK, AnyBlocks
<1>8. InHand' = {m}
    BY <1>1 DEF InHand
<1>9. Parts(FreeBlocks \ {c}, held, {m})
  <2>1. {cur} \in SUBSET AnyBlocks
      BY <1>2
  <2> QED
      BY <1>2, <1>4, <1>5, <2>1, Joined
<1> QED
    BY <1>1, <1>4, <1>7, <1>8, <1>9 DEF IndInv, Exclusive, Parts, Apart, Progress

LEMMA CoalesceNullEntryInv == IndInv /\ CoalesceNullEntry => IndInv'
<1> SUFFICES ASSUME IndInv, CoalesceNullEntry PROVE IndInv'
    OBVIOUS
<1>1. /\ pc = "merge" /\ pc' = "null_entry"
      /\ UNCHANGED <<freelists, bitmap, freeSpace, allocated, entries, held,
                     cur, arg, order, bmpIndex, scan, regions>>
    BY DEF CoalesceNullEntry
<1>2. FreeBlocks' = FreeBlocks /\ InHand' = InHand
    BY <1>1 DEF FreeBlocks, InHand
<1>3. TypeOK'
    BY <1>1 DEF IndInv, TypeOK, Stopped
<1> QED
    BY <1>1, <1>2, <1>3 DEF IndInv, Exclusive, Progress

LEMMA FreeLinkInv == IndInv /\ FreeLink => IndInv'
<1> SUFFICES ASSUME IndInv, FreeLink PROVE IndInv'
    OBVIOUS
<1> DEFINE x == IF cur.order < MAX_ORDER
                THEN buddy_bmp_index_of(cur.offset, cur.order) ELSE bmpIndex
<1>1. /\ pc = "merge" /\ cur.order <= MAX_ORDER /\ Return
      /\ Link(cur.order, cur.offset)
      /\ bitmap' = bmp_toggle_bit(x)
      /\ Account(Size(order))
      /\ UNCHANGED <<entries, held, scan, regions>>
    BY DEF FreeLink
<1> HIDE DEF x
<1>2. /\ TypeOK /\ Parts(FreeBlocks, held, {cur}) /\ cur \in AnyBlocks
    BY <1>1, Busy
<1>3. /\ cur.order \in Orders /\ cur.offset \in Nat /\ cur = Block(cur.offset, cur.order)
      /\ cur \notin FreeBlocks
    BY <1>1, <1>2, SizeFacts DEF AnyBlocks, Orders, Block, Parts
<1>4. /\ freelists' \in [Orders -> Seq(Nat)]
      /\ \A i \in Orders : IsInjective(freelists'[i])
      /\ FreeBlocks' = FreeBlocks \cup {cur}
    BY <1>1, <1>3, PushEntry
<1>5. freeSpace' \in 0 .. (AccountMod - 1) /\ allocated' \in 0 .. (AccountMod - 1)
  <2>1. order \in Orders
      BY <1>2 DEF TypeOK
  <2>2. Size(order) \in Int
      BY <2>1, SizeNat
  <2> QED
      BY <1>1, <1>2, <2>2, AccountType
<1>6. /\ pc' = "idle" /\ InHand' = {} /\ arg' \in Nat /\ order' \in Orders /\ bmpIndex' \in Int
      /\ cur' \in [offset : Nat, order : 0 .. (MAX_ORDER + 1)]
    BY <1>1, ReturnType
<1>7. TypeOK'
  <2>1. bitmap' \in [0 .. (buddy_bmp_size_bits - 1) -> {0, 1}]
      BY <1>1, <1>2, BitmapType
  <2> QED
      BY <1>1, <1>2, <1>4, <1>5, <1>6, <2>1 DEF TypeOK
<1>8. Parts(FreeBlocks', held', InHand')
  <2>1. FreeBlocks' \cup held' \cup {} = FreeBlocks \cup held \cup {cur}
      BY <1>1, <1>4
  <2>2. FreeBlocks' \cap held' = {}
      BY <1>1, <1>2, <1>4 DEF Parts
  <2> QED
      BY <1>2, <1>6, <2>1, <2>2, Moved
<1> QED
    BY <1>1, <1>4, <1>6, <1>7, <1>8 DEF IndInv, Exclusive, Parts, Apart, Progress

LEMMA FreeLinkPastEndInv == IndInv /\ FreeLinkPastEnd => IndInv'
<1> SUFFICES ASSUME IndInv, FreeLinkPastEnd PROVE IndInv'
    OBVIOUS
<1>1. /\ pc = "merge" /\ pc' = "base_addr_overwritten"
      /\ bitmap' = bmp_toggle_bit(bmpIndex)
      /\ Account(Size(order))
      /\ UNCHANGED <<freelists, entries, held, cur, arg, order, bmpIndex, scan, regions>>
    BY DEF FreeLinkPastEnd
<1>2. TypeOK
    BY DEF IndInv
<1>3. freeSpace' \in 0 .. (AccountMod - 1) /\ allocated' \in 0 .. (AccountMod - 1)
  <2>1. order \in Orders
      BY <1>2 DEF TypeOK
  <2>2. Size(order) \in Int
      BY <2>1, SizeNat
  <2> QED
      BY <1>1, <1>2, <2>2, AccountType
<1>4. bitmap' \in [0 .. (buddy_bmp_size_bits - 1) -> {0, 1}]
    BY <1>1, <1>2, BitmapType
<1>5. TypeOK'
    BY <1>1, <1>2, <1>3, <1>4 DEF TypeOK, Stopped
<1>6. FreeBlocks' = FreeBlocks /\ InHand' = InHand
    BY <1>1 DEF FreeBlocks, InHand
<1> QED
    BY <1>1, <1>5, <1>6 DEF IndInv, Exclusive, Progress

LEMMA ShrinkInv ==
    ASSUME IndInv, NEW b \in held, NEW n \in 1 .. Size(b.order), Shrink(b, n)
    PROVE  IndInv'
<1>1. /\ pc = "idle" /\ pc' = "shrink" /\ held' = held \ {b} /\ cur' = b
      /\ arg' = n /\ order' = b.order
      /\ UNCHANGED <<freelists, bitmap, freeSpace, allocated, entries, bmpIndex, scan, regions>>
    BY DEF Shrink
<1>2. /\ TypeOK /\ Parts(FreeBlocks, held, {}) /\ b \in AnyBlocks /\ b \in Blocks
      /\ \A k \in Orders : IsInjective(freelists[k])
    BY <1>1, Idle
<1>3. FreeBlocks' = FreeBlocks /\ InHand' = {b}
    BY <1>1 DEF FreeBlocks, InHand
<1>4. b.order \in Orders /\ n \in Nat
  <2>1. b.order \in Orders
      BY <1>2 DEF Blocks
  <2>2. Size(b.order) \in Nat
      BY <2>1, SizeNat
  <2> QED
      BY <2>1, <2>2
<1>5. TypeOK'
    BY <1>1, <1>2, <1>4 DEF TypeOK, AnyBlocks
<1>6. Parts(FreeBlocks', held', InHand')
  <2>1. FreeBlocks' \cup held' \cup {b} = FreeBlocks \cup held \cup {}
      BY <1>1, <1>3
  <2>2. FreeBlocks' \cap held' = {} /\ {b} \cap (FreeBlocks' \cup held') = {}
      BY <1>1, <1>2, <1>3 DEF Parts
  <2> QED
      BY <1>2, <1>3, <2>1, <2>2, Moved
<1>7. Progress'
    BY <1>1, <1>4 DEF Progress
<1> QED
    BY <1>1, <1>2, <1>5, <1>6, <1>7 DEF IndInv, Exclusive, Parts, Apart

(* A shrink that goes on has a block with two halves in hand. *)
LEMMA ShrinkGoesOn ==
    ASSUME IndInv, pc = "shrink", arg # Size(cur.order)
    PROVE  /\ cur.order \in Orders /\ cur.order - 1 \in Orders /\ cur.order >= 1
           /\ Size(cur.order) = Size(cur.order - 1) + Size(cur.order - 1)
           /\ Size(cur.order - 1) \in Nat \ {0}
           /\ arg \in Nat \ {0} /\ arg <= Size(cur.order)
<1>1. cur.order \in Orders /\ arg \in 1 .. Size(cur.order)
    BY DEF IndInv, Progress
<1>2. Size(cur.order) \in Nat
    BY <1>1, SizeNat
<1>3. cur.order # 0
    BY <1>1, SizeFacts
<1>4. cur.order - 1 \in Orders /\ cur.order >= 1 /\ (cur.order - 1) + 1 = cur.order
    BY <1>1, <1>3, SizeFacts DEF Orders
<1>5. Size(cur.order) = 2 * Size(cur.order - 1)
    BY <1>4, SizeFacts DEF Orders
<1>6. Size(cur.order - 1) \in Nat \ {0}
    BY <1>4, SizeNat
<1> QED
    BY <1>1, <1>2, <1>4, <1>5, <1>6

LEMMA ShrinkRightInv == IndInv /\ ShrinkRight => IndInv'
<1> SUFFICES ASSUME IndInv, ShrinkRight PROVE IndInv'
    OBVIOUS
<1> DEFINE k == cur.order - 1
           lo == Block(cur.offset, k)
           hi == Block(cur.offset + Size(k), k)
<1>1. /\ pc = "shrink" /\ pc' = "shrink" /\ arg # Size(cur.order) /\ arg > Size(k)
      /\ bitmap' = bmp_set_bit(buddy_bmp_index_of(cur.offset, k), 0)
      /\ held' = held \cup {lo} /\ cur' = hi /\ arg' = arg - Size(k)
      /\ UNCHANGED <<freelists, freeSpace, allocated, entries, order, bmpIndex, scan, regions>>
    BY DEF ShrinkRight
<1>2. /\ TypeOK /\ cur \in AnyBlocks /\ Parts(FreeBlocks, held, {cur})
      /\ FreeBlocks \in SUBSET AnyBlocks /\ held \in SUBSET AnyBlocks /\ Blocks \subseteq AnyBlocks
      /\ \A i \in Orders : IsInjective(freelists[i])
    BY <1>1, Busy
<1>3. /\ k \in Orders /\ cur.order >= 1 /\ arg' \in Nat /\ arg' \in 1 .. Size(k)
    BY <1>1, ShrinkGoesOn
<1>4. /\ lo \in Blocks /\ hi \in Blocks /\ lo # hi
      /\ Pages(lo) \cap Pages(hi) = {} /\ Pages(lo) \cup Pages(hi) = Pages(cur)
    BY <1>2, <1>3, Halves
<1>5. hi.order = k
    BY DEF Block
<1> HIDE DEF lo, hi
<1>6. Parts(FreeBlocks, held \cup {lo}, {hi})
    BY <1>2, <1>4, Cut
<1>7. FreeBlocks' = FreeBlocks /\ InHand' = {hi}
    BY <1>1 DEF FreeBlocks, InHand
<1>8. TypeOK'
  <2>1. bitmap' \in [0 .. (buddy_bmp_size_bits - 1) -> {0, 1}]
      BY <1>1, <1>2, BitmapType
  <2>2. held' \subseteq Blocks /\ cur' \in AnyBlocks
      BY <1>1, <1>2, <1>4 DEF TypeOK
  <2> QED
      BY <1>1, <1>2, <1>3, <2>1, <2>2 DEF TypeOK, AnyBlocks
<1>9. Progress'
    BY <1>1, <1>3, <1>5 DEF Progress
<1> QED
    BY <1>1, <1>2, <1>6, <1>7, <1>8, <1>9 DEF IndInv, Exclusive, Parts, Apart

LEMMA ShrinkLeftInv == IndInv /\ ShrinkLeft => IndInv'
<1> SUFFICES ASSUME IndInv, ShrinkLeft PROVE IndInv'
    OBVIOUS
<1> DEFINE k == cur.order - 1
           lo == Block(cur.offset, k)
           hi == Block(cur.offset + Size(k), k)
<1>1. /\ pc = "shrink" /\ pc' = "shrink" /\ arg # Size(cur.order) /\ arg <= Size(k)
      /\ Link(k, cur.offset + Size(k)) /\ entries' = entries + 1
      /\ bitmap' = bmp_set_bit(buddy_bmp_index_of(cur.offset, k), 1)
      /\ cur' = lo
      /\ UNCHANGED <<freeSpace, allocated, held, arg, order, bmpIndex, scan, regions>>
    BY DEF ShrinkLeft, allocate_freelist_entry
<1>2. /\ TypeOK /\ cur \in AnyBlocks /\ Parts(FreeBlocks, held, {cur})
      /\ FreeBlocks \in SUBSET AnyBlocks /\ held \in SUBSET AnyBlocks /\ Blocks \subseteq AnyBlocks
    BY <1>1, Busy
<1>3. k \in Orders /\ cur.order >= 1 /\ arg \in 1 .. Size(k) /\ cur.offset + Size(k) \in Nat
  <2>1. cur.offset \in Nat
      BY <1>2 DEF AnyBlocks
  <2> QED
      BY <1>1, <2>1, ShrinkGoesOn
<1>4. /\ lo \in Blocks /\ hi \in Blocks /\ lo # hi
      /\ Pages(hi) \cap Pages(lo) = {} /\ Pages(hi) \cup Pages(lo) = Pages(cur)
    BY <1>2, <1>3, Halves
<1>5. lo.order = k
    BY DEF Block
<1> HIDE DEF lo, hi
<1>6. hi \notin FreeBlocks \cup held /\ Parts(FreeBlocks \cup {hi}, held, {lo})
    BY <1>2, <1>4, Cut
<1>7. /\ freelists' \in [Orders -> Seq(Nat)]
      /\ \A i \in Orders : IsInjective(freelists'[i])
      /\ FreeBlocks' = FreeBlocks \cup {hi}
  <2>1. hi = Block(cur.offset + Size(k), k)
      BY DEF hi
  <2> QED
      BY <1>1, <1>3, <1>6, <2>1, PushEntry
<1>8. TypeOK'
  <2>1. bitmap' \in [0 .. (buddy_bmp_size_bits - 1) -> {0, 1}]
      BY <1>1, <1>2, BitmapType
  <2>2. entries' \in Int /\ cur' \in AnyBlocks
      BY <1>1, <1>2, <1>4 DEF TypeOK
  <2> QED
      BY <1>1, <1>2, <1>7, <2>1, <2>2 DEF TypeOK, AnyBlocks
<1>9. InHand' = {lo}
    BY <1>1 DEF InHand
<1>10. Progress'
    BY <1>1, <1>3, <1>5 DEF Progress
<1> QED
    BY <1>1, <1>6, <1>7, <1>8, <1>9, <1>10 DEF IndInv, Exclusive, Parts, Apart

LEMMA ShrinkDoneInv == IndInv /\ ShrinkDone => IndInv'
<1> SUFFICES ASSUME IndInv, ShrinkDone PROVE IndInv'
    OBVIOUS
<1>1. /\ pc = "shrink" /\ held' = held \cup {cur} /\ Return
      /\ Account(Size(order) - arg)
      /\ UNCHANGED <<freelists, bitmap, entries, scan, regions>>
    BY DEF ShrinkDone
<1>2. /\ TypeOK /\ Parts(FreeBlocks, held, {cur}) /\ cur \in AnyBlocks
      /\ \A i \in Orders : IsInjective(freelists[i])
    BY <1>1, Busy
<1>3. cur \in Blocks
    BY <1>1, <1>2 DEF IndInv, Progress, AnyBlocks, Blocks
<1>4. freeSpace' \in 0 .. (AccountMod - 1) /\ allocated' \in 0 .. (AccountMod - 1)
  <2>1. order \in Orders /\ arg \in Nat
      BY <1>2 DEF TypeOK
  <2>2. Size(order) \in Nat
      BY <2>1, SizeNat
  <2>3. Size(order) - arg \in Int
      BY <2>1, <2>2
  <2> QED
      BY <1>1, <1>2, <2>3, AccountType
<1>5. /\ pc' = "idle" /\ InHand' = {} /\ arg' \in Nat /\ order' \in Orders /\ bmpIndex' \in Int
      /\ cur' \in [offset : Nat, order : 0 .. (MAX_ORDER + 1)]
    BY <1>1, ReturnType
<1>6. TypeOK'
    BY <1>1, <1>2, <1>3, <1>4, <1>5 DEF TypeOK
<1>7. FreeBlocks' = FreeBlocks
    BY <1>1 DEF FreeBlocks
<1>8. Parts(FreeBlocks', held', InHand')
  <2>1. FreeBlocks' \cup held' \cup {} = FreeBlocks \cup held \cup {cur}
      BY <1>1, <1>7
  <2>2. FreeBlocks' \cap held' = {}
      BY <1>1, <1>2, <1>7 DEF Parts
  <2> QED
      BY <1>2, <1>5, <2>1, <2>2, Moved
<1> QED
    BY <1>1, <1>2, <1>5, <1>6, <1>8 DEF IndInv, Exclusive, Parts, Apart, Progress

LEMMA StutterInv == IndInv /\ UNCHANGED vars => IndInv'
<1> SUFFICES ASSUME IndInv, UNCHANGED vars PROVE IndInv'
    OBVIOUS
<1>1. FreeBlocks' = FreeBlocks /\ InHand' = InHand
    BY DEF vars, FreeBlocks, InHand
<1> QED
    BY <1>1 DEF vars, IndInv, TypeOK, Exclusive, Progress

LEMMA NextInv == IndInv /\ [Next]_vars => IndInv'
<1> SUFFICES ASSUME IndInv, [Next]_vars PROVE IndInv'
    OBVIOUS
<1>1. CASE Alloc
    BY <1>1, AllocHeadInv, AllocFindInv, AllocNothingLeftInv DEF Alloc
<1>2. CASE Free
    BY <1>2, FreeAloneInv, FreeMergeInv, FreeNullEntryInv DEF Free
<1>3. CASE \E b \in held : \E n \in 1 .. Size(b.order) : Shrink(b, n)
    BY <1>3, ShrinkInv
<1>4. CASE Running
    BY <1>4, PopulateInv, PopulateNextInv, PopulateDoneInv, SplitHalfInv, SplitLastInv,
       CoalesceInv, CoalesceNullEntryInv, FreeLinkInv, FreeLinkPastEndInv,
       ShrinkRightInv, ShrinkLeftInv, ShrinkDoneInv DEF Running
<1>5. CASE UNCHANGED vars
    BY <1>5, StutterInv
<1> QED
    BY <1>1, <1>2, <1>3, <1>4, <1>5 DEF Next

-----------------------------------------------------------------------------
(***************************************************************************)
(* The inductive invariant holds of every behaviour of the allocator.      *)
(***************************************************************************)
THEOREM Invariance == Spec => []IndInv
<1>1. Init => IndInv
    BY InitInv
<1>2. IndInv /\ [Next]_vars => IndInv'
    BY NextInv
<1> QED
    BY <1>1, <1>2, PTL DEF Spec

(***************************************************************************)
(* Every variable of the allocator keeps its type, for every memory map    *)
(* and every sequence of allocations, frees and shrinks: list indices stay *)
(* within freelists[] and the counters within their width.                 *)
(***************************************************************************)
THEOREM TypeCorrect == Spec => []TypeOK
<1>1. IndInv => TypeOK
    BY DEF IndInv
<1> QED
    BY <1>1, Invariance, PTL

(***************************************************************************)
(* No page is ever in two places: the free lists, the callers and the      *)
(* running call own disjoint sets of pages, in every state, in the middle  *)
(* of a split, a coalescing or a shrink too.                               *)
(***************************************************************************)
THEOREM ExclusiveOwnership == Spec => []Exclusive
<1>1. IndInv => Exclusive
    BY DEF IndInv
<1> QED
    BY <1>1, Invariance, PTL

=============================================================================
