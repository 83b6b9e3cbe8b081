----------------------------- MODULE PhysProofs ------------------------------
(***************************************************************************)
(* Proofs about PhysAlloc, for every MAX_ORDER, amount of memory and set   *)
(* of request sizes, and however deep the expansions of the entry pool     *)
(* nest: between calls the pages are partitioned, every slab of the zone   *)
(* is in the pool once, the state keeps its type, and only a shrink can    *)
(* run out of freelist entries.                                            *)
(*                                                                         *)
(* CountInv follows the slabs through the stack of waiting calls.  PageInv *)
(* follows the pages: the free blocks tile the free pages, and in the      *)
(* middle of phys_block_shrink the pages it has still to come to belong to *)
(* nobody else.  The three operations of the buddy allocator are shown to  *)
(* turn one tiling into another (TakeTiles, FreeTiles, CutTiles), which is *)
(* arithmetic on the binary digits of a page count: the pieces of a cut    *)
(* are the steps of the function that maps i to cut % 2^i (Stairs).        *)
(* ReserveInv counts the free entries together with the orders that have a *)
(* free block.                                                             *)
(***************************************************************************)
EXTENDS PhysAlloc, ListLemmas

-----------------------------------------------------------------------------
(***************************************************************************)
(* The slabs of the entry pool.  A slab that a nested vm_alloc_block has   *)
(* been given but that is not in the pool yet is a frame waiting for data; *)
(* a frame waiting for a table has the block at the cursor, unless a call  *)
(* nested in it has already mapped a table for that block.                 *)
(***************************************************************************)

Frames == [wait : {"table", "data"}, block : Nat]

DataFrames(st) == {i \in 1 .. Len(st) : st[i].wait = "data"}

Waiting(st, cur, ts) ==
    \A i \in 1 .. Len(st) : st[i].wait = "table" => TableOf(st[i].block) \in ts \/ st[i].block = cur

Balanced(st, sup, cur) == sup + PerSlab * Cardinality(DataFrames(st)) = EarlyEntries + PerSlab * cur

CountInv ==
    /\ supply \in Nat
    /\ cursor \in Nat
    /\ stack \in Seq(Frames)
    /\ pc \in {"idle", "shrink"} => stack = <<>>
    /\ Waiting(stack, cursor, tables)
    /\ Balanced(stack, supply, cursor)

LEMMA Constants == PerSlab \in Nat /\ EarlyEntries \in Nat /\ PerTable \in Nat \ {0}
    BY PhysAllocAssumption

LEMMA OneMore ==
    ASSUME NEW a \in Nat, NEW b \in Nat
    PROVE  a * (b + 1) = a * b + a
    OBVIOUS

LEMMA DataFramesType ==
    ASSUME NEW st \in Seq(Frames)
    PROVE  IsFiniteSet(DataFrames(st)) /\ Cardinality(DataFrames(st)) \in Nat
<1>1. Len(st) \in Nat
    OBVIOUS
<1>2. IsFiniteSet(1 .. Len(st))
    BY <1>1, FS_Interval
<1>3. DataFrames(st) \subseteq 1 .. Len(st)
    BY DEF DataFrames
<1> QED
    BY <1>2, <1>3, FS_Subset, FS_CardinalityType

Pushed(st, f, st2) ==
    /\ st2 \in Seq(Frames) /\ Len(st2) = Len(st) + 1 /\ st2[Len(st) + 1] = f
    /\ \A i \in 1 .. Len(st) : st2[i] = st[i]
    /\ f.wait = "data" => Cardinality(DataFrames(st2)) = Cardinality(DataFrames(st)) + 1
    /\ f.wait # "data" => DataFrames(st2) = DataFrames(st)

LEMMA PushFrame ==
    ASSUME NEW st \in Seq(Frames), NEW f \in Frames
    PROVE  Pushed(st, f, Append(st, f))
<1>0. PICK st2 : st2 = Append(st, f)
    OBVIOUS
<1>1. /\ st2 \in Seq(Frames) /\ Len(st2) = Len(st) + 1 /\ st2[Len(st) + 1] = f /\ Len(st) \in Nat
      /\ \A i \in 1 .. Len(st) : st2[i] = st[i]
    BY <1>0
<1>2. 1 .. Len(st2) = (1 .. Len(st)) \cup {Len(st) + 1}
    BY <1>1
<1>3. DataFrames(st2) = DataFrames(st) \cup (IF f.wait = "data" THEN {Len(st) + 1} ELSE {})
    BY <1>1, <1>2 DEF DataFrames
<1>4. Len(st) + 1 \notin DataFrames(st)
    BY <1>1 DEF DataFrames
<1>5. ASSUME f.wait = "data" PROVE Cardinality(DataFrames(st2)) = Cardinality(DataFrames(st)) + 1
  <2>1. DataFrames(st2) = DataFrames(st) \cup {Len(st) + 1}
      BY <1>3, <1>5
  <2>2. IsFiniteSet(DataFrames(st))
      BY DataFramesType
  <2> QED
      BY <1>4, <2>1, <2>2, FS_AddElement
<1> QED
    BY <1>0, <1>1, <1>3, <1>5 DEF Pushed

LEMMA PopFrame ==
    ASSUME NEW st \in Seq(Frames), st # <<>>, NEW st2, st2 = Front(st)
    PROVE  /\ st2 \in Seq(Frames) /\ Last(st) \in Frames /\ Last(st) = st[Len(st)] /\ Len(st) \in 1 .. Len(st)
           /\ Len(st2) = Len(st) - 1 /\ \A i \in 1 .. Len(st2) : i \in 1 .. Len(st) /\ st2[i] = st[i]
           /\ Last(st).wait = "data" => Cardinality(DataFrames(st)) = Cardinality(DataFrames(st2)) + 1
           /\ Last(st).wait # "data" => DataFrames(st2) = DataFrames(st)
<1>1. /\ Len(st) \in Nat /\ Len(st) > 0 /\ Last(st) = st[Len(st)]
    BY EmptySeq DEF Last
<1>2. st2 = SubSeq(st, 1, Len(st) - 1)
    BY DEF Front
<1>3. st2 \in Seq(Frames) /\ Len(st2) = Len(st) - 1 /\ \A i \in 1 .. (Len(st) - 1) : st2[i] = st[i]
  <2>1. PICK n : n = Len(st) - 1
      OBVIOUS
  <2>2. n \in Int /\ n >= 0 /\ 1 \in Int /\ n - 1 + 1 = n /\ \A i \in 1 .. n : i \in 1 .. Len(st) /\ 1 + i - 1 = i
      BY <1>1, <2>1
  <2>3. \A i \in 1 .. n : st[i] \in Frames
      BY <2>2
  <2>4. /\ SubSeq(st, 1, n) \in Seq(Frames) /\ Len(SubSeq(st, 1, n)) = (IF 1 <= n THEN n - 1 + 1 ELSE 0)
        /\ \A i \in 1 .. (n - 1 + 1) : SubSeq(st, 1, n)[i] = st[1 + i - 1]
      BY ONLY <2>2, <2>3, SubSeqProperties
  <2> QED
      BY <1>2, <2>1, <2>2, <2>4
<1>4. Last(st) \in Frames /\ Len(st) \in 1 .. Len(st)
    BY <1>1
<1>5. PICK f, t : f = Last(st) /\ t = Append(st2, f)
    OBVIOUS
<1>6. t = st
  <2>1. t \in Seq(Frames) /\ Len(t) = Len(st)
      BY <1>1, <1>3, <1>4, <1>5
  <2>2. \A i \in 1 .. Len(st) : t[i] = st[i]
      BY <1>1, <1>3, <1>4, <1>5
  <2> QED
      BY <2>1, <2>2, SeqEqual
<1>7. /\ f.wait = "data" => Cardinality(DataFrames(t)) = Cardinality(DataFrames(st2)) + 1
      /\ f.wait # "data" => DataFrames(t) = DataFrames(st2)
  <2>1. st2 \in Seq(Frames) /\ f \in Frames /\ t = Append(st2, f)
      BY <1>3, <1>4, <1>5
  <2>2. Pushed(st2, f, t)
      BY <2>1, PushFrame
  <2> QED
      BY <2>2 DEF Pushed
<1> QED
    BY <1>1, <1>3, <1>4, <1>5, <1>6, <1>7

(* A step that leaves the pool, the zone and the stack alone. *)
LEMMA Untouched ==
    ASSUME CountInv, UNCHANGED <<supply, cursor, tables, stack>>,
           pc' \in {"idle", "shrink"} => stack = <<>>
    PROVE  CountInv'
    BY DEF CountInv, Waiting, Balanced, DataFrames, TableOf

LEMMA TakePc ==
    ASSUME NEW n, NEW frames, NEW frame, TakeForZone(n, frames, frame)
    PROVE  stack' = Append(frames, frame) /\ pc' \notin {"idle", "shrink"}
    BY DEF TakeForZone, TakePages, SetFree

LEMMA ExpandMappedCount ==
    ASSUME CountInv, ExpandMapped
    PROVE  CountInv'
<1> DEFINE f == Frame("data", cursor)
<1>1. /\ supply \in Nat /\ cursor \in Nat /\ stack \in Seq(Frames)
      /\ Waiting(stack, cursor, tables) /\ Balanced(stack, supply, cursor)
    BY DEF CountInv
<1>2. /\ TableOf(cursor) \in tables /\ cursor' = cursor + 1 /\ supply' = supply /\ tables' = tables
      /\ stack' = Append(stack, f) /\ pc' \notin {"idle", "shrink"}
    BY TakePc DEF ExpandMapped
<1>3. f \in Frames /\ f.wait = "data" /\ f.block = cursor
    BY <1>1 DEF Frame, Frames
<1> HIDE DEF f
<1>4. /\ stack' \in Seq(Frames) /\ Len(stack') = Len(stack) + 1 /\ stack'[Len(stack) + 1] = f
      /\ \A i \in 1 .. Len(stack) : stack'[i] = stack[i]
      /\ Cardinality(DataFrames(stack')) = Cardinality(DataFrames(stack)) + 1
    BY <1>1, <1>2, <1>3, PushFrame DEF Pushed
<1>5. Waiting(stack', cursor', tables')
  <2> SUFFICES ASSUME NEW i \in 1 .. Len(stack'), stack'[i].wait = "table"
               PROVE  TableOf(stack'[i].block) \in tables
      BY <1>2 DEF Waiting
  <2>1. i # Len(stack) + 1 /\ i \in 1 .. Len(stack) /\ stack'[i] = stack[i]
      BY <1>1, <1>3, <1>4
  <2> QED
      BY <1>1, <1>2, <2>1 DEF Waiting
<1>6. Balanced(stack', supply', cursor')
  <2>1. Cardinality(DataFrames(stack)) \in Nat
      BY <1>1, DataFramesType
  <2>2. PerSlab * (Cardinality(DataFrames(stack)) + 1) = PerSlab * Cardinality(DataFrames(stack)) + PerSlab
        /\ PerSlab * (cursor + 1) = PerSlab * cursor + PerSlab
      BY <1>1, <2>1, Constants, OneMore
  <2>3. PICK x, y : x = PerSlab * Cardinality(DataFrames(stack)) /\ y = PerSlab * cursor
      OBVIOUS
  <2>4. x \in Nat /\ y \in Nat
      BY <1>1, <2>1, <2>3, Constants
  <2>5. supply + x = EarlyEntries + y
      BY <1>1, <2>3 DEF Balanced
  <2>6. Balanced(stack', supply', cursor') <=>
            supply + PerSlab * (Cardinality(DataFrames(stack)) + 1) = EarlyEntries + PerSlab * (cursor + 1)
      BY <1>2, <1>4 DEF Balanced
  <2> QED
      BY <1>1, <2>2, <2>3, <2>4, <2>5, <2>6, Constants
<1>7. supply' \in Nat /\ cursor' \in Nat
    BY <1>1, <1>2
<1> QED
    BY <1>2, <1>4, <1>5, <1>6, <1>7 DEF CountInv

LEMMA ExpandUnmappedCount ==
    ASSUME CountInv, ExpandUnmapped
    PROVE  CountInv'
<1> DEFINE f == Frame("table", cursor)
<1>1. /\ supply \in Nat /\ cursor \in Nat /\ stack \in Seq(Frames)
      /\ Waiting(stack, cursor, tables) /\ Balanced(stack, supply, cursor)
    BY DEF CountInv
<1>2. /\ cursor' = cursor /\ supply' = supply /\ tables' = tables
      /\ stack' = Append(stack, f) /\ pc' \notin {"idle", "shrink"}
    BY TakePc DEF ExpandUnmapped
<1>3. f \in Frames /\ f.wait = "table" /\ f.block = cursor
    BY <1>1 DEF Frame, Frames
<1> HIDE DEF f
<1>4. /\ stack' \in Seq(Frames) /\ Len(stack') = Len(stack) + 1 /\ stack'[Len(stack) + 1] = f
      /\ \A i \in 1 .. Len(stack) : stack'[i] = stack[i]
      /\ DataFrames(stack') = DataFrames(stack)
    BY <1>1, <1>2, <1>3, PushFrame DEF Pushed
<1>5. Waiting(stack', cursor', tables')
  <2> SUFFICES ASSUME NEW i \in 1 .. Len(stack'), stack'[i].wait = "table"
               PROVE  TableOf(stack'[i].block) \in tables \/ stack'[i].block = cursor
      BY <1>2 DEF Waiting
  <2>1. i = Len(stack) + 1 \/ i \in 1 .. Len(stack)
      BY <1>1, <1>4
  <2> QED
      BY <1>1, <1>3, <1>4, <2>1 DEF Waiting
<1> QED
    BY <1>1, <1>2, <1>4, <1>5 DEF CountInv, Balanced

LEMMA TableMappedCount ==
    ASSUME CountInv, TableMapped
    PROVE  CountInv'
<1>1. /\ supply \in Nat /\ cursor \in Nat /\ stack \in Seq(Frames) /\ stack # <<>>
      /\ Waiting(stack, cursor, tables) /\ Balanced(stack, supply, cursor)
    BY DEF CountInv, TableMapped
<1>2. PICK st, b : st = Front(stack) /\ b = Last(stack).block
    OBVIOUS
<1> DEFINE f == Frame("data", b)
<1>3. /\ Last(stack).wait = "table" /\ TableOf(b) \notin tables
      /\ cursor' = b + 1 /\ supply' = supply /\ tables' = tables \cup {TableOf(b)}
      /\ stack' = Append(st, f) /\ pc' \notin {"idle", "shrink"}
    BY <1>2, TakePc DEF TableMapped, TopFrame
<1>4. /\ st \in Seq(Frames) /\ Last(stack) \in Frames /\ Last(stack) = stack[Len(stack)]
      /\ Len(stack) \in 1 .. Len(stack) /\ Len(st) = Len(stack) - 1
      /\ \A i \in 1 .. Len(st) : i \in 1 .. Len(stack) /\ st[i] = stack[i]
      /\ DataFrames(st) = DataFrames(stack)
    BY <1>1, <1>2, <1>3, PopFrame
<1>5. b \in Nat /\ b = cursor
    BY <1>1, <1>2, <1>3, <1>4 DEF Waiting, Frames
<1>6. f \in Frames /\ f.wait = "data"
    BY <1>5 DEF Frame, Frames
<1> HIDE DEF f
<1>7. /\ stack' \in Seq(Frames) /\ Len(stack') = Len(st) + 1 /\ stack'[Len(st) + 1] = f
      /\ \A i \in 1 .. Len(st) : stack'[i] = st[i]
      /\ Cardinality(DataFrames(stack')) = Cardinality(DataFrames(st)) + 1
    BY <1>3, <1>4, <1>6, PushFrame DEF Pushed
<1>8. Waiting(stack', cursor', tables')
  <2> SUFFICES ASSUME NEW i \in 1 .. Len(stack'), stack'[i].wait = "table"
               PROVE  TableOf(stack'[i].block) \in tables'
      BY DEF Waiting
  <2>1. Len(st) \in Nat
      BY <1>4
  <2>2. i # Len(st) + 1 /\ i \in 1 .. Len(st)
      BY <1>6, <1>7, <2>1
  <2>3. stack'[i] = stack[i] /\ i \in 1 .. Len(stack)
      BY <1>4, <1>7, <2>2
  <2>4. TableOf(stack[i].block) \in tables \/ stack[i].block = b
      BY <1>1, <1>5, <2>3 DEF Waiting
  <2> QED
      BY <1>3, <2>3, <2>4
<1>9. Balanced(stack', supply', cursor')
  <2>1. Cardinality(DataFrames(stack)) \in Nat
      BY <1>1, DataFramesType
  <2>2. PerSlab * (Cardinality(DataFrames(stack)) + 1) = PerSlab * Cardinality(DataFrames(stack)) + PerSlab
        /\ PerSlab * (cursor + 1) = PerSlab * cursor + PerSlab
      BY <1>1, <2>1, Constants, OneMore
  <2>3. PICK x, y : x = PerSlab * Cardinality(DataFrames(stack)) /\ y = PerSlab * cursor
      OBVIOUS
  <2>4. x \in Nat /\ y \in Nat
      BY <1>1, <2>1, <2>3, Constants
  <2>5. supply + x = EarlyEntries + y
      BY <1>1, <2>3 DEF Balanced
  <2>6. Balanced(stack', supply', cursor') <=>
            supply + PerSlab * (Cardinality(DataFrames(stack)) + 1) = EarlyEntries + PerSlab * (cursor + 1)
      BY <1>3, <1>4, <1>5, <1>7 DEF Balanced
  <2> QED
      BY <1>1, <2>2, <2>3, <2>4, <2>5, <2>6, Constants
<1>10. supply' \in Nat /\ cursor' \in Nat
    BY <1>1, <1>3, <1>5
<1> QED
    BY <1>3, <1>7, <1>8, <1>9, <1>10 DEF CountInv

LEMMA SlabAddedCount ==
    ASSUME CountInv, SlabAdded
    PROVE  CountInv'
<1>1. /\ supply \in Nat /\ cursor \in Nat /\ stack \in Seq(Frames) /\ stack # <<>>
      /\ Waiting(stack, cursor, tables) /\ Balanced(stack, supply, cursor)
    BY DEF CountInv, SlabAdded
<1>2. /\ Last(stack).wait = "data" /\ supply' = supply + PerSlab /\ stack' = Front(stack)
      /\ cursor' = cursor /\ tables' = tables /\ pc' = "return"
    BY DEF SlabAdded, TopFrame
<1>3. /\ stack' \in Seq(Frames)
      /\ \A i \in 1 .. Len(stack') : i \in 1 .. Len(stack) /\ stack'[i] = stack[i]
      /\ Cardinality(DataFrames(stack)) = Cardinality(DataFrames(stack')) + 1
    BY <1>1, <1>2, PopFrame
<1>4. Waiting(stack', cursor', tables')
    BY <1>1, <1>2, <1>3 DEF Waiting
<1>5. Balanced(stack', supply', cursor')
  <2>1. PICK n : n = Cardinality(DataFrames(stack'))
      OBVIOUS
  <2>2. n \in Nat
      BY <1>3, <2>1, DataFramesType
  <2>3. PerSlab * (n + 1) = PerSlab * n + PerSlab
      BY <2>2, Constants, OneMore
  <2>4. PICK x, y : x = PerSlab * n /\ y = PerSlab * cursor
      OBVIOUS
  <2>5. x \in Nat /\ y \in Nat
      BY <1>1, <2>2, <2>4, Constants
  <2>6. supply + (x + PerSlab) = EarlyEntries + y
      BY <1>1, <1>3, <2>1, <2>3, <2>4 DEF Balanced
  <2>7. Balanced(stack', supply', cursor') <=> (supply + PerSlab) + x = EarlyEntries + y
      BY <1>2, <2>1, <2>4 DEF Balanced
  <2> QED
      BY <1>1, <2>5, <2>6, <2>7, Constants
<1>6. supply' \in Nat
    BY <1>1, <1>2, Constants
<1> QED
    BY <1>1, <1>2, <1>3, <1>4, <1>5, <1>6 DEF CountInv

LEMMA InitCount == Init => CountInv
<1> SUFFICES ASSUME Init PROVE CountInv
    OBVIOUS
<1>1. supply = EarlyEntries /\ cursor = 0 /\ stack = <<>>
    BY DEF Init
<1>2. stack \in Seq(Frames) /\ Len(stack) = 0
    BY <1>1
<1>3. DataFrames(stack) = {}
    BY <1>2 DEF DataFrames
<1>4. Cardinality(DataFrames(stack)) = 0
    BY <1>3, FS_EmptySet
<1>5. Balanced(stack, supply, cursor)
    BY <1>1, <1>4, Constants DEF Balanced
<1> QED
    BY <1>1, <1>2, <1>5, Constants DEF CountInv, Waiting

LEMMA NextCount == CountInv /\ [Next]_vars => CountInv'
<1> SUFFICES ASSUME CountInv, [Next]_vars PROVE CountInv'
    OBVIOUS
<1>0. pc \in {"idle", "shrink"} => stack = <<>>
    BY DEF CountInv
<1>1. CASE \E n \in Sizes : phys_alloc(n)
    BY <1>0, <1>1, Untouched DEF phys_alloc, NewCall, TakePages, SetFree
<1>2. CASE (\E a \in owned : phys_free(a)) \/ (\E a \in owned : phys_block_shrink(a))
    BY <1>0, <1>2, Untouched DEF phys_free, phys_block_shrink, ShrinkStart, NewCall
<1>3. CASE ShrinkSkip \/ ShrinkKeep
    BY <1>0, <1>3, Untouched DEF ShrinkSkip, ShrinkKeep, InLoop
<1>4. CASE ShrinkFree \/ ShrinkCut
    BY <1>0, <1>4, Untouched DEF ShrinkFree, ShrinkCut, InLoop, buddy_free_block, SetFree
<1>5. CASE ShrinkDone \/ Enough \/ TableReplaced \/ Return \/ OutOfMemory
    BY <1>0, <1>5, Untouched DEF ShrinkDone, Enough, TableReplaced, Return, OutOfMemory
<1>6. CASE UNCHANGED vars
    BY <1>0, <1>6, Untouched DEF vars
<1> QED
    BY <1>1, <1>2, <1>3, <1>4, <1>5, <1>6, ExpandMappedCount, ExpandUnmappedCount,
       TableMappedCount, SlabAddedCount DEF Next, Call, Step

(***************************************************************************)
(* However deep the expansions of the entry pool nest, between calls every *)
(* slab that VMZONE_BUDDY_MEM gave out is in the pool, once.               *)
(***************************************************************************)
THEOREM SlabsAddedOnce == Spec => []SlabsCounted
<1>1. CountInv => SlabsCounted
  <2> SUFFICES ASSUME CountInv, pc = "idle" PROVE supply = EarlyEntries + PerSlab * cursor
      BY DEF SlabsCounted
  <2>1. supply \in Nat /\ cursor \in Nat /\ stack = <<>> /\ Balanced(stack, supply, cursor)
      BY DEF CountInv
  <2>2. DataFrames(stack) = {}
      BY <2>1 DEF DataFrames
  <2>3. Cardinality(DataFrames(stack)) = 0
      BY <2>2, FS_EmptySet
  <2>4. supply + PerSlab * 0 = EarlyEntries + PerSlab * cursor
      BY <2>1, <2>3 DEF Balanced
  <2> QED
      BY <2>1, <2>4, Constants
<1> QED
    BY <1>1, InitCount, NextCount, PTL DEF Spec

-----------------------------------------------------------------------------
(***************************************************************************)
(* Powers of two and their multiples.                                      *)
(***************************************************************************)

LEMMA SizeFacts ==
    /\ MAX_ORDER \in Nat \ {0} /\ Size(0) = 1
    /\ \A k \in 0 .. (MAX_ORDER + 1) : Size(k) \in Nat \ {0}
    /\ \A k \in 0 .. MAX_ORDER : Size(k + 1) = 2 * Size(k)
BY PhysAllocAssumption

Mult(x, s) == \E q \in Int : x = s * q

LEMMA MultSum ==
    ASSUME NEW x \in Int, NEW y \in Int, NEW s \in Nat \ {0}, Mult(x, s), Mult(y, s)
    PROVE  Mult(x + y, s) /\ Mult(x - y, s) /\ Mult(s, s) /\ Mult(0, s)
<1>1. PICK p \in Int, q \in Int : x = s * p /\ y = s * q
    BY DEF Mult
<1>2. x + y = s * (p + q) /\ x - y = s * (p - q) /\ s = s * 1 /\ 0 = s * 0
    BY <1>1
<1>3. p + q \in Int /\ p - q \in Int /\ 1 \in Int /\ 0 \in Int
    OBVIOUS
<1> QED
    BY <1>2, <1>3 DEF Mult

LEMMA MultSelf ==
    ASSUME NEW s \in Nat \ {0}
    PROVE  Mult(s, s) /\ Mult(0, s)
<1>1. s = s * 1 /\ 0 = s * 0
    OBVIOUS
<1> QED
    BY <1>1 DEF Mult

LEMMA MultOf ==
    ASSUME NEW x \in Int, NEW s \in Nat \ {0}, NEW t \in Nat \ {0}, Mult(x, t), Mult(t, s)
    PROVE  Mult(x, s)
<1>1. PICK p \in Int, q \in Int : x = t * p /\ t = s * q
    BY DEF Mult
<1>2. x = (s * q) * p /\ (s * q) * p = s * (q * p) /\ q * p \in Int
    BY <1>1
<1> QED
    BY <1>2 DEF Mult

LEMMA DivMod ==
    ASSUME NEW x \in Nat, NEW s \in Nat \ {0}
    PROVE  /\ x % s \in 0 .. (s - 1) /\ x \div s \in Nat /\ x = s * (x \div s) + (x % s)
           /\ Mult(x - (x % s), s) /\ x - (x % s) \in Nat
<1>1. /\ x % s \in 0 .. (s - 1) /\ x \div s \in Nat /\ x = s * (x \div s) + (x % s)
    OBVIOUS
<1>2. x - (x % s) = s * (x \div s) /\ s * (x \div s) \in Nat /\ x \div s \in Int
    BY <1>1
<1> QED
    BY <1>1, <1>2 DEF Mult

LEMMA ModUnique ==
    ASSUME NEW s \in Nat \ {0}, NEW q \in Int, NEW r \in 0 .. (s - 1), s * q + r \in Nat
    PROVE  (s * q + r) % s = r
<1> DEFINE x == s * q + r
           p == x \div s
           t == x % s
<1>1. x \in Nat /\ p \in Nat /\ t \in 0 .. (s - 1) /\ x = s * p + t /\ x = s * q + r
    BY DivMod
<1> HIDE DEF x, p, t
<1>2. s * (p - q) = r - t /\ r - t < s /\ r - t > -s
    BY <1>1
<1>3. p - q \in Int
    BY <1>1
<1>4. PICK d \in Int : d = p - q
    BY <1>3
<1>5. d < 1 /\ d > -1
  <2>1. ASSUME d >= 1 PROVE FALSE
    <3>1. s * d >= s
        BY <2>1
    <3> QED
        BY <3>1, <1>2, <1>4, <1>1
  <2>2. ASSUME d <= -1 PROVE FALSE
    <3>1. s * d <= -s
        BY <2>2
    <3> QED
        BY <3>1, <1>2, <1>4, <1>1
  <2> QED
      BY <2>1, <2>2
<1>6. r = t
    BY <1>1, <1>2, <1>4, <1>5
<1> QED
    BY <1>6 DEF x, t

LEMMA MultMod ==
    ASSUME NEW x \in Nat, NEW s \in Nat \ {0}, Mult(x, s), NEW r \in 0 .. (s - 1)
    PROVE  (x + r) % s = r
<1>1. PICK q \in Int : x = s * q
    BY DEF Mult
<1>2. s * q + r \in Nat
    BY <1>1
<1>3. (s * q + r) % s = r
    BY <1>2, ModUnique
<1> QED
    BY <1>1, <1>3

(* One bit more of the remainder. *)
LEMMA ModHalf ==
    ASSUME NEW x \in Nat, NEW s \in Nat \ {0}
    PROVE  x % (2 * s) = (x % s) + (IF (x \div s) % 2 = 1 THEN s ELSE 0)
<1> DEFINE q == x \div s
           r == x % s
           h == q \div 2
           b == q % 2
<1>1. q \in Nat /\ r \in 0 .. (s - 1) /\ x = s * q + r
    BY DivMod
<1>2. h \in Nat /\ b \in {0, 1} /\ q = 2 * h + b
    BY <1>1
<1> HIDE DEF q, r, h, b
<1>3. CASE b = 1
  <2>1. x = (2 * s) * h + (s + r) /\ s + r \in 0 .. (2 * s - 1) /\ 2 * s \in Nat \ {0} /\ h \in Int
      BY <1>1, <1>2, <1>3
  <2>2. x % (2 * s) = s + r
      BY <2>1, ModUnique
  <2> QED
      BY <2>2, <1>1, <1>3 DEF q, r, b
<1>4. CASE b = 0
  <2>1. x = (2 * s) * h + r /\ r \in 0 .. (2 * s - 1) /\ 2 * s \in Nat \ {0} /\ h \in Int
      BY <1>1, <1>2, <1>4
  <2>2. x % (2 * s) = r
      BY <2>1, ModUnique
  <2> QED
      BY <2>2, <1>1, <1>4 DEF q, r, b
<1> QED
    BY <1>2, <1>3, <1>4

LEMMA SizeChain ==
    ASSUME NEW i \in 0 .. (MAX_ORDER + 1), NEW j \in 0 .. (MAX_ORDER + 1), i <= j
    PROVE  Size(i) <= Size(j) /\ Mult(Size(j), Size(i))
<1> DEFINE T == {n \in Nat : n >= i /\ n <= MAX_ORDER + 1 /\ ~(Size(i) <= Size(n) /\ Mult(Size(n), Size(i)))}
<1> SUFFICES ASSUME T # {} PROVE FALSE
    BY SizeFacts
<1>1. PICK m \in T : \A n \in T : m <= n
  <2>1. T \in SUBSET Nat
      OBVIOUS
  <2> QED
      BY <2>1, LeastElement
<1>2. Size(i) \in Nat \ {0} /\ m \in Nat /\ m >= i /\ m <= MAX_ORDER + 1
    BY <1>1, SizeFacts
<1>3. m # i
    BY <1>1, <1>2, MultSelf
<1>4. m - 1 \in Nat /\ m - 1 >= i /\ m - 1 \in 0 .. MAX_ORDER /\ m - 1 \notin T
    BY <1>1, <1>2, <1>3, SizeFacts
<1>5. Size(i) <= Size(m - 1) /\ Mult(Size(m - 1), Size(i))
    BY <1>4, SizeFacts
<1>6. Size(m) = Size(m - 1) + Size(m - 1) /\ Size(m - 1) \in Nat \ {0}
  <2>1. (m - 1) + 1 = m
      BY <1>2
  <2> QED
      BY <1>4, <2>1, SizeFacts
<1>7. Mult(Size(m - 1) + Size(m - 1), Size(i))
    BY <1>2, <1>5, <1>6, MultSum
<1> QED
    BY <1>1, <1>2, <1>5, <1>6, <1>7

(* A multiple of a power of two is one of every smaller power. *)
LEMMA AlignedBelow ==
    ASSUME NEW x \in Int, NEW i \in 0 .. (MAX_ORDER + 1), NEW j \in 0 .. (MAX_ORDER + 1), i <= j, Mult(x, Size(j))
    PROVE  Mult(x, Size(i))
<1>1. Size(i) \in Nat \ {0} /\ Size(j) \in Nat \ {0}
    BY SizeFacts
<1>2. Mult(Size(j), Size(i))
    BY SizeChain
<1> QED
    BY <1>1, <1>2, MultOf

LEMMA Bits ==
    ASSUME NEW x \in Nat, NEW i \in Orders
    PROVE  x % Size(i + 1) = (x % Size(i)) + (IF Bit(x, i) THEN Size(i) ELSE 0)
<1>1. i \in 0 .. MAX_ORDER /\ Size(i) \in Nat \ {0} /\ Size(i + 1) = 2 * Size(i)
    BY SizeFacts DEF Orders
<1> QED
    BY <1>1, ModHalf DEF Bit

LEMMA Remainder ==
    ASSUME NEW x \in Nat, NEW i \in 0 .. (MAX_ORDER + 1)
    PROVE  /\ x % Size(i) \in Nat /\ x % Size(i) < Size(i) /\ x % Size(i) <= x /\ Mult(x - (x % Size(i)), Size(i))
           /\ x < Size(i) => x % Size(i) = x
<1>1. Size(i) \in Nat \ {0}
    BY SizeFacts
<1>2. Mult(0, Size(i))
    BY <1>1, MultSelf
<1>3. ASSUME x < Size(i) PROVE x % Size(i) = x
  <2>1. x \in 0 .. (Size(i) - 1) /\ 0 + x = x
      BY <1>1, <1>3
  <2> QED
      BY <1>1, <1>2, <2>1, MultMod
<1>4. x % Size(i) \in 0 .. (Size(i) - 1) /\ Mult(x - (x % Size(i)), Size(i)) /\ x - (x % Size(i)) \in Nat
    BY <1>1, DivMod
<1> QED
    BY <1>1, <1>3, <1>4

(* The steps of a function that does not decrease cover its range without overlaps. *)
Stairs(c, m, n) == \A i \in m .. n : c[i] \in Nat /\ (i + 1 \in m .. n => c[i] <= c[i + 1])

LEMMA StairsUp ==
    ASSUME NEW c, NEW m \in Nat, NEW n \in Nat, Stairs(c, m, n), NEW i \in m .. n, NEW j \in m .. n, i <= j
    PROVE  c[i] <= c[j]
<1> DEFINE T == {l \in Nat : l >= i /\ l <= n /\ ~(c[i] <= c[l])}
<1> SUFFICES ASSUME T # {} PROVE FALSE
    OBVIOUS
<1>1. PICK l \in T : \A k \in T : l <= k
  <2>1. T \in SUBSET Nat
      OBVIOUS
  <2> QED
      BY <2>1, LeastElement
<1>2. l \in Nat /\ l >= i /\ l <= n /\ ~(c[i] <= c[l]) /\ c[i] \in Nat /\ c[l] \in Nat /\ i \in Nat
    BY <1>1 DEF Stairs
<1>3. l # i
    BY <1>2
<1>4. l - 1 \in Nat /\ l - 1 >= i /\ l - 1 <= n /\ l - 1 \notin T /\ l - 1 \in m .. n /\ (l - 1) + 1 = l /\ l \in m .. n
    BY <1>1, <1>2, <1>3
<1>5. c[i] <= c[l - 1] /\ c[l - 1] <= c[l] /\ c[l - 1] \in Nat
    BY <1>4 DEF Stairs
<1> QED
    BY <1>2, <1>5

LEMMA StairsMeet ==
    ASSUME NEW c, NEW m \in Nat, NEW n \in Nat, m <= n, Stairs(c, m, n), NEW x \in Nat, c[m] <= x, x < c[n]
    PROVE  \E i \in m .. (n - 1) : c[i] <= x /\ x < c[i + 1]
<1> DEFINE T == {l \in Nat : l >= m /\ l <= n /\ x < c[l]}
<1>1. PICK l \in T : \A k \in T : l <= k
  <2>1. T \in SUBSET Nat /\ n \in T
      OBVIOUS
  <2> QED
      BY <2>1, LeastElement
<1>2. l \in Nat /\ l >= m /\ l <= n /\ x < c[l] /\ c[m] \in Nat
    BY <1>1 DEF Stairs
<1>3. l # m
    BY <1>2
<1>4. l - 1 \in Nat /\ l - 1 >= m /\ l - 1 \notin T /\ l - 1 \in m .. (n - 1) /\ (l - 1) + 1 = l /\ l - 1 \in m .. n
    BY <1>1, <1>2, <1>3
<1>5. c[l - 1] <= x
    BY <1>4 DEF Stairs
<1> QED
    BY <1>2, <1>4, <1>5

-----------------------------------------------------------------------------
(***************************************************************************)
(* Sets of blocks that tile a set of pages.                                *)
(***************************************************************************)

Good(b) == b \in [offset : Nat, order : Orders] /\ Mult(b.offset, Size(b.order))

Cover(bs) == UNION {Pages(b) : b \in bs}

Tile(bs, P) ==
    /\ \A b \in bs : Good(b)
    /\ Cover(bs) = P
    /\ \A b, c \in bs : b # c => Pages(b) \cap Pages(c) = {}

LEMMA GoodBlock ==
    ASSUME NEW o \in Nat, NEW k \in Orders, Mult(o, Size(k))
    PROVE  Good(Block(o, k)) /\ Pages(Block(o, k)) = o .. (o + Size(k) - 1)
BY DEF Good, Block, Pages

LEMMA TileJoin ==
    ASSUME NEW A, NEW B, NEW P, NEW Q, Tile(A, P), Tile(B, Q), P \cap Q = {}
    PROVE  Tile(A \cup B, P \cup Q)
<1>1. Cover(A \cup B) = P \cup Q
    BY DEF Tile, Cover
<1>2. \A b \in A : Pages(b) \subseteq P
    BY DEF Tile, Cover
<1>3. \A b \in B : Pages(b) \subseteq Q
    BY DEF Tile, Cover
<1>4. ASSUME NEW b \in A \cup B, NEW c \in A \cup B, b # c PROVE Pages(b) \cap Pages(c) = {}
    BY <1>2, <1>3, <1>4 DEF Tile
<1> QED
    BY <1>1, <1>4 DEF Tile

LEMMA TileLess ==
    ASSUME NEW A, NEW P, Tile(A, P), NEW B \in SUBSET A
    PROVE  Tile(A \ B, P \ Cover(B)) /\ Cover(B) \subseteq P
<1>1. Cover(A \ B) = P \ Cover(B) /\ Cover(B) \subseteq P
    BY DEF Tile, Cover
<1> QED
    BY <1>1 DEF Tile

LEMMA TileOne ==
    ASSUME NEW b, Good(b)
    PROVE  Tile({b}, Pages(b)) /\ Cover({b}) = Pages(b)
BY DEF Tile, Cover

(* What buddy_shrink_block frees of a block are the pages after the first n. *)
LEMMA ShrinkTiles ==
    ASSUME NEW o \in Nat, NEW k \in Orders, Mult(o, Size(k)), NEW n \in 1 .. Size(k)
    PROVE  Tile(ShrinkRest(o, k, n), (o + n) .. (o + Size(k) - 1))
<1>0. PICK cut : cut = Size(k) - n
    OBVIOUS
<1> DEFINE J == {j \in 0 .. (k - 1) : Bit(cut, j)}
           P(i) == Block(o + n + (cut % Size(i)), i)
<1>a. PICK c : c = [i \in 0 .. k |-> cut % Size(i)]
    OBVIOUS
<1>1. /\ Size(k) \in Nat \ {0} /\ cut \in Nat /\ cut < Size(k) /\ k \in Nat /\ k <= MAX_ORDER /\ n \in Nat
      /\ MAX_ORDER \in Nat
    BY <1>0, SizeFacts DEF Orders
<1>2. \A i \in 0 .. k : /\ i \in 0 .. (MAX_ORDER + 1) /\ c[i] = cut % Size(i) /\ c[i] \in Nat
                        /\ Mult(cut - c[i], Size(i)) /\ c[i] <= cut
  <2> TAKE i \in 0 .. k
  <2>1. i \in 0 .. (MAX_ORDER + 1)
      BY <1>1
  <2>2. cut % Size(i) \in Nat /\ cut % Size(i) <= cut /\ Mult(cut - (cut % Size(i)), Size(i))
      BY <1>1, <2>1, Remainder
  <2>3. c[i] = cut % Size(i)
      BY <1>a
  <2> QED
      BY <2>1, <2>2, <2>3
<1>3. \A i \in 0 .. (k - 1) : /\ i \in 0 .. k /\ i + 1 \in 0 .. k /\ i \in Orders /\ Size(i) \in Nat \ {0}
                              /\ c[i + 1] = c[i] + (IF Bit(cut, i) THEN Size(i) ELSE 0)
  <2> TAKE i \in 0 .. (k - 1)
  <2>1. i \in 0 .. k /\ i + 1 \in 0 .. k /\ i \in Orders /\ i \in 0 .. (MAX_ORDER + 1)
      BY <1>1 DEF Orders
  <2>2. cut % Size(i + 1) = (cut % Size(i)) + (IF Bit(cut, i) THEN Size(i) ELSE 0)
      BY <1>1, <2>1, Bits
  <2>3. c[i + 1] = cut % Size(i + 1) /\ c[i] = cut % Size(i)
      BY <1>2, <2>1
  <2> QED
      BY <2>1, <2>2, <2>3, SizeFacts
<1>4. c[0] = 0 /\ c[k] = cut
  <2>1. 0 \in 0 .. (MAX_ORDER + 1) /\ k \in 0 .. (MAX_ORDER + 1) /\ 0 \in 0 .. k /\ k \in 0 .. k
      BY <1>1, SizeFacts
  <2>2. cut % Size(0) \in Nat /\ cut % Size(0) < 1
      BY <1>1, <2>1, Remainder, SizeFacts
  <2>3. cut % Size(k) = cut
      BY <1>1, <2>1, Remainder
  <2>4. c[0] = cut % Size(0) /\ c[k] = cut % Size(k)
      BY <1>2, <2>1
  <2> QED
      BY <2>2, <2>3, <2>4
<1>5. Stairs(c, 0, k)
  <2> SUFFICES ASSUME NEW i \in 0 .. k PROVE c[i] \in Nat /\ (i + 1 \in 0 .. k => c[i] <= c[i + 1])
      BY DEF Stairs
  <2>1. ASSUME i + 1 \in 0 .. k PROVE c[i] <= c[i + 1]
    <3>1. i \in 0 .. (k - 1)
        BY <1>1, <2>1
    <3>2. c[i] \in Nat /\ Size(i) \in Nat /\ c[i + 1] = c[i] + (IF Bit(cut, i) THEN Size(i) ELSE 0)
        BY <1>2, <1>3, <3>1
    <3> QED
        BY <3>2
  <2> QED
      BY <1>2, <2>1
<1>6. ShrinkRest(o, k, n) = {P(i) : i \in J}
    BY <1>0 DEF ShrinkRest
<1>7. \A i \in J : i \in 0 .. (k - 1) /\ c[i + 1] = c[i] + Size(i) /\ P(i) = Block(o + n + c[i], i)
    BY <1>2, <1>3
<1>8. \A i \in J : Good(P(i)) /\ Pages(P(i)) = (o + n + c[i]) .. (o + n + c[i + 1] - 1)
  <2> TAKE i \in J
  <2>1. i \in 0 .. (k - 1) /\ c[i + 1] = c[i] + Size(i) /\ P(i) = Block(o + n + c[i], i)
      BY <1>7
  <2>2. i \in Orders /\ i \in 0 .. (MAX_ORDER + 1) /\ k \in 0 .. (MAX_ORDER + 1) /\ i <= k /\ c[i] \in Nat /\ Size(i) \in Nat \ {0}
    <3>1. i \in Orders /\ i \in 0 .. k /\ Size(i) \in Nat \ {0}
        BY <1>3, <2>1
    <3>2. c[i] \in Nat /\ i \in 0 .. (MAX_ORDER + 1)
        BY <1>2, <3>1
    <3> QED
        BY <1>1, <3>1, <3>2
  <2>3. Mult(o, Size(i)) /\ Mult(Size(k), Size(i)) /\ Mult(cut - c[i], Size(i))
      BY <1>2, <1>3, <2>1, <2>2, AlignedBelow, SizeChain
  <2>9. o \in Int /\ Size(k) \in Int /\ o + Size(k) \in Int /\ cut - c[i] \in Int
      BY <1>1, <2>2
  <2>4. Mult(o + Size(k), Size(i)) /\ o + Size(k) \in Int /\ cut - c[i] \in Int
      BY <2>2, <2>3, <2>9, MultSum
  <2>5. Mult((o + Size(k)) - (cut - c[i]), Size(i))
      BY <2>2, <2>3, <2>4, MultSum
  <2>6. (o + Size(k)) - (cut - c[i]) = o + n + c[i] /\ o + n + c[i] \in Nat
      BY <1>0, <1>1, <2>2
  <2>7. Good(Block(o + n + c[i], i)) /\ Pages(Block(o + n + c[i], i)) = (o + n + c[i]) .. (o + n + c[i] + Size(i) - 1)
      BY <2>2, <2>5, <2>6, GoodBlock
  <2>8. o + n + c[i] + Size(i) - 1 = o + n + c[i + 1] - 1
      BY <1>1, <2>1, <2>2
  <2> QED
      BY <2>1, <2>7, <2>8
<1> HIDE DEF J, P
<1>9. \A i, j \in J : i < j => Pages(P(i)) \cap Pages(P(j)) = {}
  <2> TAKE i \in J, j \in J
  <2> HAVE i < j
  <2>1. i + 1 \in 0 .. k /\ j \in 0 .. k /\ i + 1 <= j /\ 0 \in Nat /\ i \in 0 .. k /\ j + 1 \in 0 .. k
      BY <1>1, <1>3, <1>7
  <2>2. c[i + 1] <= c[j] /\ c[i + 1] \in Nat /\ c[j] \in Nat /\ c[i] \in Nat /\ c[j + 1] \in Nat
      BY <1>1, <1>2, <1>5, <2>1, StairsUp
  <2>3. /\ Pages(P(i)) = (o + n + c[i]) .. (o + n + c[i + 1] - 1)
        /\ Pages(P(j)) = (o + n + c[j]) .. (o + n + c[j + 1] - 1)
      BY <1>8
  <2> QED
      BY <1>1, <2>2, <2>3
<1>10. \A i, j \in J : P(i) # P(j) => Pages(P(i)) \cap Pages(P(j)) = {}
  <2> TAKE i \in J, j \in J
  <2> HAVE P(i) # P(j)
  <2>1. i \in Int /\ j \in Int /\ (i < j \/ j < i)
      BY <1>7
  <2> QED
      BY <1>9, <2>1
<1>11. \A i \in J : Pages(P(i)) \subseteq (o + n) .. (o + Size(k) - 1)
  <2> TAKE i \in J
  <2>1. i + 1 \in 0 .. k /\ i \in 0 .. k
      BY <1>3, <1>7
  <2>2. c[i] \in Nat /\ c[i + 1] \in Nat /\ c[i + 1] <= Size(k) - n
      BY <1>0, <1>2, <2>1
  <2>3. Pages(P(i)) = (o + n + c[i]) .. (o + n + c[i + 1] - 1)
      BY <1>8
  <2> QED
      BY <1>1, <2>2, <2>3
<1>12. ASSUME NEW x \in (o + n) .. (o + Size(k) - 1) PROVE \E i \in J : x \in Pages(P(i))
  <2>1. PICK y \in Nat : x = o + n + y /\ y < cut
    <3>1. x - (o + n) \in Nat /\ x = o + n + (x - (o + n)) /\ x - (o + n) < Size(k) - n
        BY <1>1
    <3> QED
        BY <1>0, <3>1
  <2>2. PICK i \in 0 .. (k - 1) : c[i] <= y /\ y < c[i + 1]
    <3>1. 0 \in Nat /\ k \in Nat /\ 0 <= k /\ c[0] <= y /\ y < c[k]
        BY <1>1, <1>4, <2>1
    <3> QED
        BY <1>5, <3>1, StairsMeet
  <2>3. c[i] \in Nat /\ c[i + 1] \in Nat
      BY <1>2, <1>3
  <2>4. Bit(cut, i)
      BY <1>3, <2>2, <2>3
  <2>5. i \in J
      BY <2>4 DEF J
  <2>6. Pages(P(i)) = (o + n + c[i]) .. (o + n + c[i + 1] - 1)
      BY <1>8, <2>5
  <2>7. x \in Pages(P(i))
      BY <1>1, <2>1, <2>2, <2>3, <2>6
  <2> QED
      BY <2>5, <2>7
<1>13. Cover(ShrinkRest(o, k, n)) = (o + n) .. (o + Size(k) - 1)
    BY <1>6, <1>11, <1>12 DEF Cover
<1>14. \A b \in ShrinkRest(o, k, n) : Good(b)
    BY <1>6, <1>8
<1>15. \A b, d \in ShrinkRest(o, k, n) : b # d => Pages(b) \cap Pages(d) = {}
    BY <1>6, <1>10
<1> QED
    BY <1>13, <1>14, <1>15 DEF Tile

(* The parts a split leaves above the two halves of order k. *)
LEMMA UpperTiles ==
    ASSUME NEW o \in Nat, NEW k \in Orders, NEW m \in Orders, k < m, Mult(o, Size(m))
    PROVE  Tile({Block(o + Size(i), i) : i \in (k + 1) .. (m - 1)}, (o + Size(k + 1)) .. (o + Size(m) - 1))
<1> DEFINE P(i) == Block(o + Size(i), i)
           J == (k + 1) .. (m - 1)
           R == (o + Size(k + 1)) .. (o + Size(m) - 1)
<1>1. k \in Nat /\ m \in Nat /\ m <= MAX_ORDER /\ MAX_ORDER \in Nat /\ k + 1 \in Nat /\ k + 1 <= m
    BY SizeFacts DEF Orders
<1>a. PICK c : c = [i \in (k + 1) .. m |-> Size(i)]
    OBVIOUS
<1>2. \A i \in (k + 1) .. m : i \in 0 .. (MAX_ORDER + 1) /\ c[i] = Size(i) /\ c[i] \in Nat
  <2> TAKE i \in (k + 1) .. m
  <2>1. i \in 0 .. (MAX_ORDER + 1)
      BY <1>1
  <2>2. c[i] = Size(i)
      BY <1>a
  <2> QED
      BY <2>1, <2>2, SizeFacts
<1>3. \A i \in J : /\ i \in (k + 1) .. m /\ i + 1 \in (k + 1) .. m /\ i \in Orders
                   /\ c[i + 1] = c[i] + Size(i) /\ Size(i) \in Nat \ {0}
  <2> TAKE i \in J
  <2>1. i \in (k + 1) .. m /\ i + 1 \in (k + 1) .. m /\ i \in Orders /\ i \in 0 .. MAX_ORDER /\ i \in 0 .. (MAX_ORDER + 1)
      BY <1>1 DEF Orders
  <2>2. Size(i + 1) = 2 * Size(i) /\ Size(i) \in Nat \ {0}
      BY <2>1, SizeFacts
  <2>3. c[i] = Size(i) /\ c[i + 1] = Size(i + 1)
      BY <1>2, <2>1
  <2> QED
      BY <2>1, <2>2, <2>3
<1>4. Stairs(c, k + 1, m)
  <2> SUFFICES ASSUME NEW i \in (k + 1) .. m PROVE c[i] \in Nat /\ (i + 1 \in (k + 1) .. m => c[i] <= c[i + 1])
      BY DEF Stairs
  <2>1. ASSUME i + 1 \in (k + 1) .. m PROVE c[i] <= c[i + 1]
    <3>1. i \in J
        BY <1>1, <2>1
    <3>2. c[i] \in Nat /\ Size(i) \in Nat /\ c[i + 1] = c[i] + Size(i)
        BY <1>2, <1>3, <3>1
    <3> QED
        BY <3>2
  <2> QED
      BY <1>2, <2>1
<1>5. \A i \in J : Good(P(i)) /\ Pages(P(i)) = (o + c[i]) .. (o + c[i + 1] - 1)
  <2> TAKE i \in J
  <2>1. i \in Orders /\ i \in (k + 1) .. m /\ c[i + 1] = c[i] + Size(i) /\ Size(i) \in Nat \ {0}
      BY <1>3
  <2>2. c[i] = Size(i) /\ i \in 0 .. (MAX_ORDER + 1) /\ m \in 0 .. (MAX_ORDER + 1) /\ i <= m
      BY <1>1, <1>2, <2>1
  <2>3. Mult(o, Size(i)) /\ Mult(Size(i), Size(i))
      BY <2>1, <2>2, AlignedBelow, MultSelf
  <2>4. Mult(o + Size(i), Size(i))
      BY <2>1, <2>3, MultSum
  <2>5. o + Size(i) \in Nat /\ o + Size(i) + Size(i) - 1 = o + c[i + 1] - 1
      BY <2>1, <2>2
  <2>6. Good(P(i)) /\ Pages(P(i)) = (o + Size(i)) .. (o + Size(i) + Size(i) - 1)
      BY <2>1, <2>4, <2>5, GoodBlock
  <2> QED
      BY <2>2, <2>5, <2>6
<1> HIDE DEF P
<1>6. \A i, j \in J : i < j => Pages(P(i)) \cap Pages(P(j)) = {}
  <2> TAKE i \in J, j \in J
  <2> HAVE i < j
  <2>1. i + 1 \in (k + 1) .. m /\ j \in (k + 1) .. m /\ i + 1 <= j /\ i \in (k + 1) .. m /\ j + 1 \in (k + 1) .. m
      BY <1>1, <1>3
  <2>2. c[i + 1] <= c[j] /\ c[i + 1] \in Nat /\ c[j] \in Nat /\ c[i] \in Nat /\ c[j + 1] \in Nat
      BY <1>1, <1>2, <1>4, <2>1, StairsUp
  <2>3. Pages(P(i)) = (o + c[i]) .. (o + c[i + 1] - 1) /\ Pages(P(j)) = (o + c[j]) .. (o + c[j + 1] - 1)
      BY <1>5
  <2> QED
      BY <2>2, <2>3
<1>7. \A i, j \in J : P(i) # P(j) => Pages(P(i)) \cap Pages(P(j)) = {}
  <2> TAKE i \in J, j \in J
  <2> HAVE P(i) # P(j)
  <2>1. i \in Int /\ j \in Int /\ (i < j \/ j < i)
      OBVIOUS
  <2> QED
      BY <1>6, <2>1
<1>8. c[k + 1] = Size(k + 1) /\ c[m] = Size(m) /\ c[k + 1] \in Nat /\ c[m] \in Nat
    BY <1>1, <1>2
<1>9. \A i \in J : Pages(P(i)) \subseteq R
  <2> TAKE i \in J
  <2>1. i + 1 \in (k + 1) .. m /\ i \in (k + 1) .. m /\ k + 1 \in (k + 1) .. m /\ m \in (k + 1) .. m /\ k + 1 <= i /\ i + 1 <= m
      BY <1>1, <1>3
  <2>2. c[i] \in Nat /\ c[i + 1] \in Nat /\ c[k + 1] <= c[i] /\ c[i + 1] <= c[m]
      BY <1>1, <1>2, <1>4, <2>1, StairsUp
  <2>3. Pages(P(i)) = (o + c[i]) .. (o + c[i + 1] - 1)
      BY <1>5
  <2>4. PICK p, q, u, v : p = c[k + 1] /\ q = c[i] /\ u = c[i + 1] /\ v = c[m]
      OBVIOUS
  <2>5. p \in Nat /\ q \in Nat /\ u \in Nat /\ v \in Nat /\ p <= q /\ u <= v /\ o \in Nat
      BY <1>8, <2>2, <2>4
  <2>6. R = (o + p) .. (o + v - 1) /\ Pages(P(i)) = (o + q) .. (o + u - 1)
      BY <1>8, <2>3, <2>4
  <2>7. (o + q) .. (o + u - 1) \subseteq (o + p) .. (o + v - 1)
      BY ONLY <2>5
  <2> QED
      BY ONLY <2>6, <2>7
<1>10. ASSUME NEW x \in R PROVE \E i \in J : x \in Pages(P(i))
  <2>1. x - o \in Nat /\ c[k + 1] <= x - o /\ x - o < c[m] /\ x \in Int
      BY <1>8
  <2>2. PICK i \in J : c[i] <= x - o /\ x - o < c[i + 1]
      BY <1>1, <1>4, <2>1, StairsMeet
  <2>3. c[i] \in Nat /\ c[i + 1] \in Nat /\ Pages(P(i)) = (o + c[i]) .. (o + c[i + 1] - 1)
      BY <1>2, <1>3, <1>5
  <2> QED
      BY <2>1, <2>2, <2>3
<1>11. Cover({P(i) : i \in J}) = R
    BY <1>9, <1>10 DEF Cover
<1>12. Tile({P(i) : i \in J}, R)
    BY <1>5, <1>7, <1>11 DEF Tile
<1> QED
    BY <1>12 DEF P

(* Splitting b down to order k allocates one block and leaves the other pages free. *)
LEMMA SplitTiles ==
    ASSUME NEW b, Good(b), NEW k \in Orders, k <= b.order, NEW base, base = AllocatedOffset(b, k)
    PROVE  /\ base \in Nat /\ Mult(base, Size(k))
           /\ base .. (base + Size(k) - 1) \subseteq Pages(b)
           /\ Tile(SplitRest(b, k), Pages(b) \ (base .. (base + Size(k) - 1)))
<1>1. PICK o \in Nat, m \in Orders : o = b.offset /\ m = b.order /\ Mult(o, Size(m))
    BY DEF Good
<1>2. /\ k \in Nat /\ m \in Nat /\ m <= MAX_ORDER /\ MAX_ORDER \in Nat /\ k <= m
      /\ k \in 0 .. (MAX_ORDER + 1) /\ m \in 0 .. (MAX_ORDER + 1)
      /\ Size(k) \in Nat \ {0} /\ Size(m) \in Nat \ {0}
    BY <1>1, SizeFacts DEF Orders
<1>3. Pages(b) = o .. (o + Size(m) - 1) /\ Mult(o, Size(k)) /\ Mult(Size(k), Size(k))
    BY <1>1, <1>2, AlignedBelow, MultSelf DEF Pages
<1>4. CASE k = m
  <2>1. base = o
      BY <1>1, <1>2, <1>4 DEF AllocatedOffset
  <2>2. SplitRest(b, k) = {}
      BY <1>1, <1>2, <1>4 DEF SplitRest
  <2>3. Tile({}, {})
      BY DEF Tile, Cover
  <2>4. Pages(b) \ (base .. (base + Size(k) - 1)) = {}
      BY <1>3, <1>4, <2>1
  <2> QED
      BY <1>3, <1>4, <2>1, <2>2, <2>3, <2>4
<1>5. CASE k < m
  <2>1. base = o + Size(k) /\ base \in Nat
      BY <1>1, <1>2, <1>5 DEF AllocatedOffset
  <2> DEFINE U == {Block(o + Size(i), i) : i \in (k + 1) .. (m - 1)}
  <2>2. SplitRest(b, k) = U \cup {Block(o, k)}
      BY <1>1, <1>2, <1>5 DEF SplitRest
  <2>3. Tile(U, (o + Size(k + 1)) .. (o + Size(m) - 1))
      BY <1>1, <1>5, UpperTiles
  <2>4. Good(Block(o, k)) /\ Pages(Block(o, k)) = o .. (o + Size(k) - 1)
      BY <1>1, <1>3, GoodBlock
  <2>5. Tile({Block(o, k)}, o .. (o + Size(k) - 1))
      BY <2>4, TileOne
  <2>6. Size(k + 1) = Size(k) + Size(k) /\ k + 1 \in 0 .. (MAX_ORDER + 1) /\ k + 1 <= m
    <3>1. k \in 0 .. MAX_ORDER
        BY <1>2
    <3> QED
        BY <1>2, <1>5, <3>1, SizeFacts
  <2>7. Size(k) + Size(k) <= Size(m)
      BY <1>2, <2>6, SizeChain
  <2>8. ((o + Size(k + 1)) .. (o + Size(m) - 1)) \cap (o .. (o + Size(k) - 1)) = {}
      BY <1>2, <2>6
  <2> HIDE DEF U
  <2>9. Tile(U \cup {Block(o, k)}, ((o + Size(k + 1)) .. (o + Size(m) - 1)) \cup (o .. (o + Size(k) - 1)))
      BY <2>3, <2>5, <2>8, TileJoin
  <2>10. ((o + Size(k + 1)) .. (o + Size(m) - 1)) \cup (o .. (o + Size(k) - 1))
            = Pages(b) \ (base .. (base + Size(k) - 1))
      BY <1>2, <1>3, <2>1, <2>6, <2>7
  <2>11. base .. (base + Size(k) - 1) \subseteq Pages(b)
      BY <1>2, <1>3, <2>1, <2>7
  <2>12. Mult(o + Size(k), Size(k))
      BY <1>2, <1>3, MultSum
  <2> QED
      BY <2>1, <2>2, <2>9, <2>10, <2>11, <2>12
<1> QED
    BY <1>2, <1>4, <1>5

(* phys_alloc takes n pages out of the free ones, and nothing else. *)
LEMMA TakeTiles ==
    ASSUME NEW F, NEW A, Tile(A, F), NEW b \in A, NEW k \in Orders, k <= b.order, NEW n \in 1 .. Size(k),
           NEW base, base = AllocatedOffset(b, k)
    PROVE  /\ base \in Nat /\ Mult(base, Size(k))
           /\ base .. (base + n - 1) \subseteq F
           /\ Tile((A \ {b}) \cup SplitRest(b, k) \cup ShrinkRest(base, k, n), F \ (base .. (base + n - 1)))
<1>1. Good(b)
    BY DEF Tile
<1> DEFINE W == base .. (base + Size(k) - 1)
<1>2. /\ base \in Nat /\ Mult(base, Size(k)) /\ W \subseteq Pages(b)
      /\ Tile(SplitRest(b, k), Pages(b) \ W)
    BY <1>1, SplitTiles
<1>3. Tile(ShrinkRest(base, k, n), (base + n) .. (base + Size(k) - 1))
    BY <1>2, ShrinkTiles
<1>4. Tile(A \ {b}, F \ Pages(b)) /\ Pages(b) \subseteq F
  <2>1. {b} \in SUBSET A /\ Cover({b}) = Pages(b)
      BY <1>1, TileOne
  <2>2. Tile(A \ {b}, F \ Cover({b})) /\ Cover({b}) \subseteq F
      BY <2>1, TileLess
  <2> QED
      BY <2>1, <2>2
<1>5. Size(k) \in Nat \ {0} /\ n \in Nat /\ n >= 1 /\ n <= Size(k)
    BY SizeFacts DEF Orders
<1>6. /\ (base + n) .. (base + Size(k) - 1) \subseteq W
      /\ W \ ((base + n) .. (base + Size(k) - 1)) = base .. (base + n - 1)
      /\ base .. (base + n - 1) \subseteq W
    BY <1>2, <1>5
<1>7. PICK V, S, R : /\ V = (base + n) .. (base + Size(k) - 1) /\ S = SplitRest(b, k)
                     /\ R = ShrinkRest(base, k, n)
    OBVIOUS
<1> HIDE DEF W
<1>8. Tile((A \ {b}) \cup S, (F \ Pages(b)) \cup (Pages(b) \ W))
  <2>1. (F \ Pages(b)) \cap (Pages(b) \ W) = {} /\ Tile(S, Pages(b) \ W)
      BY <1>2, <1>7
  <2> QED
      BY <1>4, <2>1, TileJoin
<1>9. Tile(((A \ {b}) \cup S) \cup R, ((F \ Pages(b)) \cup (Pages(b) \ W)) \cup V)
  <2>1. ((F \ Pages(b)) \cup (Pages(b) \ W)) \cap V = {} /\ Tile(R, V)
      BY <1>2, <1>3, <1>6, <1>7
  <2> QED
      BY <1>8, <2>1, TileJoin
<1>10. ((F \ Pages(b)) \cup (Pages(b) \ W)) \cup V = F \ (base .. (base + n - 1))
    BY <1>2, <1>4, <1>6, <1>7
<1> QED
    BY <1>2, <1>4, <1>6, <1>7, <1>9, <1>10

(* An ancestor is the one below it and its buddy. *)
LEMMA AncestorStep ==
    ASSUME NEW b, Good(b), NEW i \in 0 .. (MAX_ORDER - 1)
    PROVE  /\ Good(Ancestor(b, i + 1))
           /\ Pages(Ancestor(b, i + 1)) = Pages(Ancestor(b, i)) \cup Pages(Sibling(b, i))
<1>0. PICK x \in Nat : x = b.offset
    BY DEF Good
<1>1. PICK s, r, r2 : s = Size(i) /\ r = x % Size(i) /\ r2 = x % Size(i + 1)
    OBVIOUS
<1>2. /\ i \in Orders /\ i + 1 \in Orders /\ i \in 0 .. MAX_ORDER
      /\ i \in 0 .. (MAX_ORDER + 1) /\ i + 1 \in 0 .. (MAX_ORDER + 1)
    BY SizeFacts DEF Orders
<1>3. s \in Nat \ {0} /\ Size(i + 1) = 2 * s /\ 2 * s \in Nat \ {0}
    BY <1>1, <1>2, SizeFacts
<1>4. r \in Nat /\ r2 \in Nat /\ r < s /\ r2 <= x /\ r <= x /\ Mult(x - r2, 2 * s)
  <2>1. x % Size(i) \in Nat /\ x % Size(i) < Size(i) /\ x % Size(i) <= x
      BY <1>2, Remainder
  <2>2. x % Size(i + 1) \in Nat /\ x % Size(i + 1) <= x /\ Mult(x - (x % Size(i + 1)), Size(i + 1))
      BY <1>2, Remainder
  <2> QED
      BY <1>1, <1>3, <2>1, <2>2
<1>5. r2 = r \/ r2 = r + s
  <2>1. x % Size(i + 1) = (x % Size(i)) + (IF Bit(x, i) THEN Size(i) ELSE 0)
      BY <1>2, Bits
  <2>2. r2 = r + (IF Bit(x, i) THEN s ELSE 0)
      BY <1>1, <2>1
  <2> QED
      BY <1>4, <2>2
<1>6. PICK a \in Nat : a = x - r2
    BY <1>4
<1>7. Ancestor(b, i + 1) = Block(a, i + 1) /\ Ancestor(b, i) = Block(x - r, i)
    BY <1>0, <1>1, <1>6 DEF Ancestor
<1>8. Mult(a, Size(i + 1)) /\ a + Size(i + 1) - 1 = a + s + s - 1
    BY <1>3, <1>4, <1>6
<1>9. Good(Ancestor(b, i + 1)) /\ Pages(Ancestor(b, i + 1)) = a .. (a + s + s - 1)
    BY <1>2, <1>7, <1>8, GoodBlock
<1>10. Ancestor(b, i).offset = x - r
    BY <1>7 DEF Block
<1>11. Sibling(b, i) = Block(IF (x - r) % (2 * s) = 0 THEN (x - r) + s ELSE (x - r) - s, i)
    BY <1>1, <1>3, <1>10 DEF Sibling
<1>12. \A o : Pages(Block(o, i)) = o .. (o + s - 1)
    BY <1>1 DEF Pages, Block
<1>13. CASE r2 = r
  <2>1. x - r = a /\ 0 \in 0 .. (2 * s - 1) /\ a + 0 = a
      BY <1>3, <1>6, <1>13
  <2>2. a % (2 * s) = 0
      BY <1>3, <1>8, <2>1, MultMod
  <2>3. Sibling(b, i) = Block(a + s, i) /\ Ancestor(b, i) = Block(a, i)
      BY <1>7, <1>11, <2>1, <2>2
  <2>4. Pages(Ancestor(b, i)) = a .. (a + s - 1) /\ Pages(Sibling(b, i)) = (a + s) .. (a + s + s - 1)
      BY <1>12, <2>3
  <2> QED
      BY <1>3, <1>9, <2>4
<1>14. CASE r2 = r + s
  <2>1. x - r = a + s /\ s \in 0 .. (2 * s - 1) /\ (a + s) - s = a /\ s # 0
      BY <1>3, <1>4, <1>6, <1>14
  <2>2. (a + s) % (2 * s) = s
      BY <1>3, <1>8, <2>1, MultMod
  <2>3. Sibling(b, i) = Block(a, i) /\ Ancestor(b, i) = Block(a + s, i)
      BY <1>7, <1>11, <2>1, <2>2
  <2>4. Pages(Sibling(b, i)) = a .. (a + s - 1) /\ Pages(Ancestor(b, i)) = (a + s) .. (a + s + s - 1)
      BY <1>12, <2>3
  <2> QED
      BY <1>3, <1>9, <2>4
<1> QED
    BY <1>5, <1>13, <1>14

Merges(b, k) == Good(Ancestor(b, k)) /\ Pages(Ancestor(b, k)) = Cover(Siblings(b, k)) \cup Pages(b)

(* A merge up to order k takes up the buddies on the way and b. *)
LEMMA MergeCover ==
    ASSUME NEW b, Good(b), NEW k \in b.order .. MAX_ORDER
    PROVE  Merges(b, k)
<1>1. b.order \in Nat /\ b.order <= MAX_ORDER /\ MAX_ORDER \in Nat /\ b.order \in Orders /\ b.offset \in Nat
    BY SizeFacts DEF Good, Orders
<1> DEFINE T == {n \in Nat : n >= b.order /\ n <= MAX_ORDER /\ ~Merges(b, n)}
<1> SUFFICES ASSUME T # {} PROVE FALSE
    BY <1>1
<1>2. PICK m \in T : \A n \in T : m <= n
  <2>1. T \in SUBSET Nat
      OBVIOUS
  <2> QED
      BY <2>1, LeastElement
<1>3. m \in Nat /\ m >= b.order /\ m <= MAX_ORDER /\ ~Merges(b, m)
    BY <1>2
<1>4. Merges(b, b.order)
  <2>1. Size(b.order) \in Nat \ {0} /\ Mult(b.offset, Size(b.order)) /\ 0 \in 0 .. (Size(b.order) - 1)
    <3>1. b.order \in 0 .. (MAX_ORDER + 1)
        BY <1>1
    <3>2. Size(b.order) \in Nat \ {0}
        BY <3>1, SizeFacts
    <3> QED
        BY <3>2 DEF Good
  <2>2. (b.offset + 0) % Size(b.order) = 0
      BY <1>1, <2>1, MultMod
  <2>3. b.offset - (b.offset % Size(b.order)) = b.offset
      BY <1>1, <2>2
  <2>4. Ancestor(b, b.order) = b
      BY <2>3 DEF Ancestor, Block, Good
  <2>5. Siblings(b, b.order) = {}
      BY <1>1 DEF Siblings
  <2> QED
      BY <2>4, <2>5 DEF Merges, Cover
<1>5. m # b.order
    BY <1>3, <1>4
<1>6. m - 1 \in Nat /\ m - 1 >= b.order /\ m - 1 <= MAX_ORDER /\ m - 1 \in 0 .. (MAX_ORDER - 1) /\ (m - 1) + 1 = m
    BY <1>1, <1>3, <1>5
<1>7. Merges(b, m - 1)
    BY <1>2, <1>6
<1>8. Good(Ancestor(b, m)) /\ Pages(Ancestor(b, m)) = Pages(Ancestor(b, m - 1)) \cup Pages(Sibling(b, m - 1))
    BY <1>6, AncestorStep
<1>9. b.order .. (m - 1) = (b.order .. ((m - 1) - 1)) \cup {m - 1}
    BY <1>1, <1>6
<1>10. Siblings(b, m) = Siblings(b, m - 1) \cup {Sibling(b, m - 1)}
    BY <1>9 DEF Siblings
<1>11. Cover(Siblings(b, m)) = Cover(Siblings(b, m - 1)) \cup Pages(Sibling(b, m - 1))
    BY <1>10 DEF Cover
<1>12. Merges(b, m)
    BY <1>7, <1>8, <1>11 DEF Merges
<1> QED
    BY <1>3, <1>12

(* buddy_free_block adds the pages of the block to the free ones. *)
LEMMA FreeTiles ==
    ASSUME NEW F, NEW A, Tile(A, F), NEW b, Good(b), Pages(b) \cap F = {},
           NEW k \in b.order .. MAX_ORDER, Siblings(b, k) \subseteq A
    PROVE  Tile((A \ Siblings(b, k)) \cup {Ancestor(b, k)}, F \cup Pages(b))
<1>1. PICK S, a : S = Siblings(b, k) /\ a = Ancestor(b, k)
    OBVIOUS
<1>2. Good(a) /\ Pages(a) = Cover(S) \cup Pages(b)
    BY <1>1, MergeCover DEF Merges
<1>3. Tile(A \ S, F \ Cover(S)) /\ Cover(S) \subseteq F
    BY <1>1, TileLess
<1>4. Tile({a}, Pages(a))
    BY <1>2, TileOne
<1>5. (F \ Cover(S)) \cap Pages(a) = {} /\ (F \ Cover(S)) \cup Pages(a) = F \cup Pages(b)
    BY <1>2, <1>3
<1>6. Tile((A \ S) \cup {a}, (F \ Cover(S)) \cup Pages(a))
    BY <1>3, <1>4, <1>5, TileJoin
<1> QED
    BY <1>1, <1>5, <1>6

(* buddy_shrink_block frees the pages of the block after the first n. *)
LEMMA CutTiles ==
    ASSUME NEW F, NEW A, Tile(A, F), NEW o \in Nat, NEW k \in Orders, Mult(o, Size(k)), NEW n \in 1 .. Size(k),
           ((o + n) .. (o + Size(k) - 1)) \cap F = {}
    PROVE  Tile(A \cup ShrinkRest(o, k, n), F \cup ((o + n) .. (o + Size(k) - 1)))
<1>1. PICK R, V : R = ShrinkRest(o, k, n) /\ V = (o + n) .. (o + Size(k) - 1)
    OBVIOUS
<1>2. Tile(R, V) /\ F \cap V = {}
    BY <1>1, ShrinkTiles
<1>3. Tile(A \cup R, F \cup V)
    BY <1>2, TileJoin
<1> QED
    BY <1>1, <1>3

LEMMA BitOrder ==
    ASSUME NEW n \in 1 .. Size(MAX_ORDER)
    PROVE  /\ bit_order(n) \in Orders /\ n <= Size(bit_order(n))
           /\ \A i \in 0 .. (bit_order(n) - 1) : Size(i) < n
<1> DEFINE T == {k \in Nat : k <= MAX_ORDER /\ n <= Size(k)}
<1>1. MAX_ORDER \in T /\ T \in SUBSET Nat /\ MAX_ORDER \in Nat
    BY SizeFacts
<1>2. PICK m \in T : \A k \in T : m <= k
    BY <1>1, LeastElement
<1>3. m \in Orders /\ n <= Size(m)
    BY <1>1, <1>2 DEF Orders
<1>4. ASSUME NEW i \in 0 .. (m - 1) PROVE Size(i) < n
  <2>1. i \in Nat /\ i < m /\ i <= MAX_ORDER /\ i \in 0 .. (MAX_ORDER + 1)
      BY <1>1, <1>2
  <2>2. i \notin T /\ Size(i) \in Nat
      BY <1>2, <2>1, SizeFacts
  <2> QED
      BY <2>1, <2>2
<1> QED
    BY <1>3, <1>4 DEF bit_order

(* A smaller allocation needs no larger a block. *)
LEMMA BitOrderUp ==
    ASSUME NEW n \in 1 .. Size(MAX_ORDER), NEW m \in 1 .. n
    PROVE  m \in 1 .. Size(MAX_ORDER) /\ bit_order(m) <= bit_order(n)
<1>1. MAX_ORDER \in 0 .. (MAX_ORDER + 1) /\ Size(MAX_ORDER) \in Nat
    BY SizeFacts
<1>2. m \in 1 .. Size(MAX_ORDER)
    BY <1>1
<1>3. /\ bit_order(m) \in Orders /\ \A i \in 0 .. (bit_order(m) - 1) : Size(i) < m
      /\ bit_order(n) \in Orders /\ n <= Size(bit_order(n))
    BY <1>2, BitOrder
<1>4. PICK p \in Orders, q \in Orders : p = bit_order(m) /\ q = bit_order(n)
    BY <1>3
<1>5. p \in Nat /\ q \in Nat /\ Size(q) \in Nat /\ MAX_ORDER \in Nat
    BY <1>1, SizeFacts DEF Orders
<1>6. ASSUME q < p PROVE FALSE
  <2>1. q \in 0 .. (p - 1)
      BY <1>5, <1>6
  <2>2. Size(q) < m /\ n <= Size(q)
      BY <1>3, <1>4, <2>1
  <2> QED
      BY <1>1, <1>5, <2>2
<1> QED
    BY <1>2, <1>4, <1>5, <1>6

LEMMA SourceFits ==
    ASSUME (\A b \in free : Good(b)), NEW k \in Orders, \E b \in free : b.order >= k
    PROVE  SourceOrder(k) >= k
<1> DEFINE T == {b.order : b \in {c \in free : c.order >= k}}
<1>1. T \in SUBSET Nat /\ T # {}
    BY DEF Good, Orders
<1>2. \E m \in T : \A y \in T : m <= y
    BY <1>1, LeastElement
<1>3. Min(T) \in T
    BY <1>2 DEF Min
<1>4. SourceOrder(k) = Min(T)
    BY DEF SourceOrder
<1> QED
    BY <1>3, <1>4

-----------------------------------------------------------------------------
(***************************************************************************)
(* The owners of the pages.  While phys_block_shrink runs, the pages it    *)
(* has not come to yet belong to nobody else: they are in transit.         *)
(***************************************************************************)

Held(os) == UNION {Extent(a) : a \in os}

Placed(a) == a \in [base : Nat, size : 1 .. Size(MAX_ORDER)] /\ Mult(a.base, Size(bit_order(a.size)))

Works == [addr : Nat, size : Nat, target : Nat, order : -1 .. MAX_ORDER, op : {"none", "alloc", "free", "shrink"}]

Working(w) ==
    /\ w.target \in 0 .. (w.size % Size(w.order + 1))
    /\ w.order >= 0 => Mult(w.addr, Size(w.order))

Transit(w) == (w.addr + w.target) .. (w.addr + (w.size % Size(w.order + 1)) - 1)

Moving == IF pc = "shrink" THEN Transit(work) ELSE {}

Owners(F, K, O, T) ==
    /\ \A a, b \in O : a # b => Extent(a) \cap Extent(b) = {}
    /\ F \cap K = {} /\ F \cap Held(O) = {} /\ F \cap T = {}
    /\ K \cap Held(O) = {} /\ K \cap T = {} /\ Held(O) \cap T = {}
    /\ F \cup K \cup Held(O) \cup T = AllPages

Inside(F, K, O) == F \subseteq AllPages /\ K \subseteq AllPages /\ Held(O) \subseteq AllPages

PageInv ==
    /\ Tile(free, FreePages)
    /\ Inside(FreePages, kept, owned)
    /\ \A a \in owned : Placed(a)
    /\ tables \subseteq Nat
    /\ work \in Works
    /\ pc \in {"idle", "check", "shrink", "return"} \cup Stopped
    /\ pc = "shrink" => Working(work)
    /\ pc \notin Stopped => Owners(FreePages, kept, owned, Moving)

LEMMA OwnersInside ==
    ASSUME NEW F, NEW K, NEW O, NEW T, Owners(F, K, O, T)
    PROVE  Inside(F, K, O)
BY DEF Owners, Inside

LEMMA HeldWith ==
    ASSUME NEW O, NEW a
    PROVE  Held(O \cup {a}) = Held(O) \cup Extent(a) /\ Held({}) = {}
BY DEF Held

LEMMA OwnersAlloc ==
    ASSUME NEW F, NEW K, NEW O, NEW T, Owners(F, K, O, T), NEW a, Extent(a) \subseteq F
    PROVE  Owners(F \ Extent(a), K, O \cup {a}, T)
<1>1. Held(O \cup {a}) = Held(O) \cup Extent(a)
    BY HeldWith
<1>2. \A b \in O : Extent(b) \subseteq Held(O)
    BY DEF Held
<1>3. \A b, c \in O \cup {a} : b # c => Extent(b) \cap Extent(c) = {}
    BY <1>2 DEF Owners
<1> QED
    BY <1>1, <1>3 DEF Owners

LEMMA OwnersKeep ==
    ASSUME NEW F, NEW K, NEW O, NEW T, Owners(F, K, O, T), NEW X \in SUBSET F
    PROVE  Owners(F \ X, K \cup X, O, T)
BY DEF Owners

LEMMA OwnersFree ==
    ASSUME NEW F, NEW K, NEW O, NEW T, Owners(F, K, O, T), NEW X \in SUBSET T
    PROVE  Owners(F \cup X, K, O, T \ X)
BY DEF Owners

(* A caller gives an allocation up. *)
LEMMA OwnersRelease ==
    ASSUME NEW F, NEW K, NEW O, Owners(F, K, O, {}), NEW a \in O
    PROVE  Owners(F, K, O \ {a}, Extent(a))
<1>1. Held(O) = Held(O \ {a}) \cup Extent(a)
    BY DEF Held
<1>2. Held(O \ {a}) \cap Extent(a) = {}
    BY DEF Held, Owners
<1> QED
    BY <1>1, <1>2 DEF Owners

(* Part of what was given up stays with the caller. *)
LEMMA OwnersRetain ==
    ASSUME NEW F, NEW K, NEW O, NEW T, Owners(F, K, O, T), NEW a, Extent(a) \subseteq T
    PROVE  Owners(F, K, O \cup {a}, T \ Extent(a))
<1>1. Held(O \cup {a}) = Held(O) \cup Extent(a)
    BY HeldWith
<1>2. \A b \in O : Extent(b) \subseteq Held(O)
    BY DEF Held
<1>3. \A b, c \in O \cup {a} : b # c => Extent(b) \cap Extent(c) = {}
    BY <1>2 DEF Owners
<1> QED
    BY <1>1, <1>3 DEF Owners

(* phys_alloc up to its __freespace_check: n free pages at base are taken. *)
Taken(base, n) ==
    /\ base \in Nat /\ Mult(base, Size(bit_order(n)))
    /\ base .. (base + n - 1) \subseteq FreePages
    /\ \/ pc' = "check" /\ Tile(free', FreePages \ (base .. (base + n - 1)))
       \/ pc' = "exhausted" /\ free' = free

LEMMA TakeEffect ==
    ASSUME PageInv, NEW n \in 1 .. Size(MAX_ORDER), CanTake(n), NEW b \in free, b.order = SourceOrder(bit_order(n)),
           SetFree((free \ {b}) \cup SplitRest(b, bit_order(n))
                      \cup ShrinkRest(AllocatedOffset(b, bit_order(n)), bit_order(n), n), "check")
    PROVE  Taken(AllocatedOffset(b, bit_order(n)), n)
<1>1. PICK k, base : k = bit_order(n) /\ base = AllocatedOffset(b, k)
    OBVIOUS
<1>2. Tile(free, FreePages) /\ \A c \in free : Good(c)
    BY DEF PageInv, Tile
<1>3. k \in Orders /\ n <= Size(k) /\ n \in Nat /\ n >= 1 /\ Size(k) \in Nat
    BY <1>1, BitOrder, SizeFacts DEF Orders
<1>4. \E c \in free : c.order >= k
    BY <1>1 DEF CanTake
<1>5. k <= b.order
  <2>1. SourceOrder(k) >= k
      BY <1>2, <1>3, <1>4, SourceFits
  <2>2. b.order \in Nat /\ k \in Nat
      BY <1>2, <1>3 DEF Good, Orders
  <2> QED
      BY <1>1, <2>1, <2>2
<1>6. n \in 1 .. Size(k)
    BY <1>3
<1>7. /\ base \in Nat /\ Mult(base, Size(k))
      /\ base .. (base + n - 1) \subseteq FreePages
      /\ Tile((free \ {b}) \cup SplitRest(b, k) \cup ShrinkRest(base, k, n), FreePages \ (base .. (base + n - 1)))
    BY <1>1, <1>2, <1>3, <1>5, <1>6, TakeTiles
<1>8. SetFree((free \ {b}) \cup SplitRest(b, k) \cup ShrinkRest(base, k, n), "check")
    BY <1>1
<1> QED
    BY <1>1, <1>7, <1>8 DEF Taken, SetFree

(* A step to a state in which the allocator runs on. *)
LEMMA Runs ==
    ASSUME NEW F, Tile(free', F), Owners(F, kept', owned', Moving'),
           (\A a \in owned' : Placed(a)), tables' \subseteq Nat, work' \in Works,
           pc' \in {"idle", "check", "shrink", "return"}, pc' = "shrink" => Working(work')
    PROVE  PageInv'
<1>1. FreePages' = F
    BY DEF FreePages, Tile, Cover
<1>2. Inside(F, kept', owned')
    BY OwnersInside
<1>3. Inside(FreePages, kept, owned)'
    BY <1>1, <1>2 DEF Inside, Held, Extent
<1>4. Owners(FreePages, kept, owned, Moving)'
    BY <1>1 DEF Owners, Held, Extent
<1>5. Tile(free, FreePages)'
    BY <1>1 DEF Tile, Cover, Good, Pages, Mult
<1>6. \A a \in owned' : Placed(a)
    OBVIOUS
<1> QED
    BY <1>3, <1>4, <1>5, <1>6 DEF PageInv

(* A step after which nothing is claimed of the code's further steps. *)
LEMMA Ends ==
    ASSUME Tile(free, FreePages), free' = free, Inside(FreePages, kept', owned'),
           (\A a \in owned' : Placed(a)), tables' \subseteq Nat, work' \in Works,
           pc' \in Stopped
    PROVE  PageInv'
<1>1. FreePages' = FreePages
    BY DEF FreePages
<1>2. Inside(FreePages, kept, owned)'
    BY <1>1 DEF Inside, Held, Extent
<1>3. Tile(free, FreePages)'
    BY <1>1 DEF Tile, Cover, Good, Pages, Mult
<1>4. pc' # "shrink"
    BY DEF Stopped
<1> QED
    BY <1>2, <1>3, <1>4 DEF PageInv, Stopped

LEMMA Quiet ==
    ASSUME PageInv, pc \notin Stopped, pc # "shrink"
    PROVE  /\ Owners(FreePages, kept, owned, {}) /\ Tile(free, FreePages) /\ Inside(FreePages, kept, owned)
           /\ \A a \in owned : Placed(a)
BY DEF PageInv, Moving

LEMMA AllocOwners ==
    ASSUME PageInv, NEW n \in Sizes, phys_alloc(n)
    PROVE  PageInv'
<1>1. n \in 1 .. Size(MAX_ORDER) /\ CanTake(n) /\ pc = "idle" /\ kept' = kept /\ tables' = tables
    BY PhysAllocAssumption DEF phys_alloc, NewCall
<1>2. work' = [NoWork EXCEPT !.op = "alloc"]
    BY DEF phys_alloc
<1>3. work' \in Works /\ tables' \subseteq Nat
    BY <1>1, <1>2, SizeFacts DEF NoWork, PageInv, Works
<1>4. PICK b \in free :
        /\ b.order = SourceOrder(bit_order(n))
        /\ SetFree((free \ {b}) \cup SplitRest(b, bit_order(n))
                      \cup ShrinkRest(AllocatedOffset(b, bit_order(n)), bit_order(n), n), "check")
        /\ owned' = owned \cup {[base |-> AllocatedOffset(b, bit_order(n)), size |-> n]}
    BY DEF phys_alloc, TakePages
<1>5. PICK base : base = AllocatedOffset(b, bit_order(n))
    OBVIOUS
<1>6. Taken(base, n)
    BY <1>1, <1>4, <1>5, TakeEffect
<1>7. PICK a : a = [base |-> base, size |-> n]
    OBVIOUS
<1>8. owned' = owned \cup {a} /\ Extent(a) = base .. (base + n - 1)
    BY <1>4, <1>5, <1>7 DEF Extent
<1>9. Placed(a) /\ Extent(a) \subseteq FreePages
    BY <1>1, <1>6, <1>7, <1>8 DEF Taken, Placed
<1>10. /\ Owners(FreePages, kept, owned, {}) /\ Tile(free, FreePages) /\ Inside(FreePages, kept, owned)
       /\ \A c \in owned : Placed(c)
    BY <1>1, Quiet DEF Stopped
<1>11. \A c \in owned' : Placed(c)
    BY <1>8, <1>9, <1>10
<1>12. CASE pc' = "check" /\ Tile(free', FreePages \ Extent(a))
  <2>1. Owners(FreePages \ Extent(a), kept, owned \cup {a}, {})
      BY <1>9, <1>10, OwnersAlloc
  <2>2. Owners(FreePages \ Extent(a), kept', owned', Moving')
      BY <1>1, <1>8, <1>12, <2>1 DEF Moving
  <2> QED
      BY <1>3, <1>11, <1>12, <2>2, Runs
<1>13. CASE pc' = "exhausted" /\ free' = free
  <2>1. Held(owned \cup {a}) = Held(owned) \cup Extent(a)
      BY HeldWith
  <2>2. Inside(FreePages, kept', owned')
      BY <1>1, <1>8, <1>9, <1>10, <2>1 DEF Inside
  <2> QED
      BY <1>3, <1>10, <1>11, <1>13, <2>2, Ends DEF Stopped
<1> QED
    BY <1>6, <1>8, <1>12, <1>13 DEF Taken

(* The zone's own phys_alloc: the pages are never given back. *)
LEMMA KeepOwners ==
    ASSUME PageInv, pc \in {"check", "return"}, NEW n \in 1 .. Size(MAX_ORDER), CanTake(n),
           NEW frames, NEW frame, TakeForZone(n, frames, frame),
           owned' = owned, work' = work, tables' \subseteq Nat
    PROVE  PageInv'
<1>1. PICK b \in free :
        /\ b.order = SourceOrder(bit_order(n))
        /\ SetFree((free \ {b}) \cup SplitRest(b, bit_order(n))
                      \cup ShrinkRest(AllocatedOffset(b, bit_order(n)), bit_order(n), n), "check")
        /\ kept' = kept \cup (AllocatedOffset(b, bit_order(n)) .. (AllocatedOffset(b, bit_order(n)) + n - 1))
    BY DEF TakeForZone, TakePages
<1>2. PICK base, X : base = AllocatedOffset(b, bit_order(n)) /\ X = base .. (base + n - 1)
    OBVIOUS
<1>3. Taken(base, n)
    BY <1>1, <1>2, TakeEffect
<1>4. kept' = kept \cup X /\ X \in SUBSET FreePages
    BY <1>1, <1>2, <1>3 DEF Taken
<1>5. /\ Owners(FreePages, kept, owned, {}) /\ Tile(free, FreePages) /\ Inside(FreePages, kept, owned)
      /\ \A c \in owned : Placed(c)
    BY Quiet DEF Stopped
<1>6. work' \in Works
    BY DEF PageInv
<1>7. CASE pc' = "check" /\ Tile(free', FreePages \ X)
  <2>1. Owners(FreePages \ X, kept \cup X, owned, {})
      BY <1>4, <1>5, OwnersKeep
  <2>2. Owners(FreePages \ X, kept', owned', Moving')
      BY <1>4, <1>7, <2>1 DEF Moving
  <2> QED
      BY <1>5, <1>6, <1>7, <2>2, Runs
<1>8. CASE pc' = "exhausted" /\ free' = free
  <2>1. Inside(FreePages, kept', owned')
      BY <1>4, <1>5 DEF Inside
  <2> QED
      BY <1>5, <1>6, <1>8, <2>1, Ends DEF Stopped
<1> QED
    BY <1>2, <1>3, <1>7, <1>8 DEF Taken

LEMMA ShrinkStartOwners ==
    ASSUME PageInv, NEW a \in owned, NEW target \in 0 .. (a.size - 1), ShrinkStart(a, target)
    PROVE  PageInv'
<1>1. /\ Owners(FreePages, kept, owned, {}) /\ Tile(free, FreePages) /\ Inside(FreePages, kept, owned)
      /\ \A c \in owned : Placed(c)
    BY Quiet DEF Stopped, ShrinkStart, NewCall
<1>2. PICK x, n : x = a.base /\ n = a.size
    OBVIOUS
<1>3. x \in Nat /\ n \in 1 .. Size(MAX_ORDER) /\ Mult(x, Size(bit_order(n)))
    BY <1>1, <1>2 DEF Placed
<1>4. PICK k \in Orders : k = bit_order(n) /\ n <= Size(k)
    BY <1>3, BitOrder
<1>5. /\ MAX_ORDER \in Nat /\ k \in 0 .. MAX_ORDER /\ k + 1 \in 0 .. (MAX_ORDER + 1)
      /\ Size(k) \in Nat \ {0} /\ Size(k + 1) = 2 * Size(k) /\ n \in Nat /\ n >= 1
      /\ Size(MAX_ORDER) \in Nat
    BY <1>3, SizeFacts DEF Orders
<1>6. n < Size(k + 1)
    BY <1>4, <1>5
<1>7. n % Size(k + 1) = n
    BY <1>5, <1>6, Remainder
<1>8. /\ work'.addr = x /\ work'.size = n /\ work'.target = target /\ work'.order = k
      /\ pc' = "shrink" /\ free' = free /\ kept' = kept /\ tables' = tables
      /\ owned' = (owned \ {a}) \cup {[base |-> x, size |-> m] : m \in {target} \ {0}}
    BY <1>2, <1>4 DEF ShrinkStart
<1>9. Moving' = (x + target) .. (x + n - 1)
    BY <1>7, <1>8 DEF Moving, Transit
<1>10. Working(work')
  <2>1. target \in 0 .. n
      BY <1>2, <1>5
  <2> QED
      BY <1>3, <1>4, <1>5, <1>7, <1>8, <2>1 DEF Working
<1>11. Extent(a) = x .. (x + n - 1)
    BY <1>2 DEF Extent
<1>12. Owners(FreePages, kept, owned \ {a}, Extent(a))
    BY <1>1, OwnersRelease
<1>13. target \in Nat /\ target < n
    BY <1>2, <1>5
<1>14. Owners(FreePages, kept, owned', Moving') /\ \A c \in owned' : Placed(c)
  <2>1. CASE target = 0
    <3>1. owned' = owned \ {a}
        BY <1>8, <2>1
    <3>2. Moving' = Extent(a)
        BY <1>3, <1>9, <1>11, <2>1
    <3> QED
        BY <1>1, <1>12, <3>1, <3>2
  <2>2. CASE target # 0
    <3>1. PICK c : c = [base |-> x, size |-> target]
        OBVIOUS
    <3>2. owned' = (owned \ {a}) \cup {c} /\ Extent(c) = x .. (x + target - 1)
        BY <1>8, <2>2, <3>1 DEF Extent
    <3>3. Extent(c) \subseteq Extent(a) /\ Extent(a) \ Extent(c) = Moving'
        BY <1>3, <1>5, <1>9, <1>11, <1>13, <3>2
    <3>4. Owners(FreePages, kept, (owned \ {a}) \cup {c}, Extent(a) \ Extent(c))
        BY <1>12, <3>3, OwnersRetain
    <3>5. target \in 1 .. n
        BY <1>5, <1>13, <2>2
    <3>6. target \in 1 .. Size(MAX_ORDER) /\ bit_order(target) <= k
        BY <1>3, <1>4, <3>5, BitOrderUp
    <3>7. bit_order(target) \in 0 .. (MAX_ORDER + 1) /\ k \in 0 .. (MAX_ORDER + 1)
        BY <1>5, <3>6, BitOrder DEF Orders
    <3>8. Mult(x, Size(bit_order(target)))
        BY <1>3, <1>4, <3>6, <3>7, AlignedBelow
    <3>9. Placed(c)
        BY <1>3, <3>1, <3>6, <3>8 DEF Placed
    <3> QED
        BY <1>1, <3>2, <3>3, <3>4, <3>9
  <2> QED
      BY <2>1, <2>2
<1>15. tables' \subseteq Nat /\ work' \in Works /\ pc' \in {"idle", "check", "shrink", "return"}
  <2>1. work' = [addr |-> x, size |-> n, target |-> target, order |-> k, op |-> IF target = 0 THEN "free" ELSE "shrink"]
      BY <1>2, <1>4 DEF ShrinkStart
  <2>2. k \in -1 .. MAX_ORDER
      BY <1>5
  <2> QED
      BY <1>3, <1>5, <1>8, <1>13, <2>1, <2>2 DEF PageInv, Works
<1>16. Tile(free', FreePages)
    BY <1>1, <1>8
<1>17. pc' = "shrink" => Working(work')
    BY <1>10
<1>18. Owners(FreePages, kept', owned', Moving') /\ \A c \in owned' : Placed(c)
    BY <1>8, <1>14
<1> QED
    BY ONLY <1>15, <1>16, <1>17, <1>18, Runs

(* What an iteration of phys_block_shrink finds: block k of the allocation is at x. *)
LoopAt(x, n, t, k) ==
    /\ x \in Nat /\ n \in Nat /\ t \in Nat /\ k \in Orders
    /\ work.addr = x /\ work.size = n /\ work.target = t /\ work.order = k
    /\ Mult(x, Size(k)) /\ Size(k) \in Nat \ {0} /\ n % Size(k) \in Nat
    /\ t <= n % Size(k + 1)
    /\ n % Size(k + 1) = (n % Size(k)) + (IF Bit(n, k) THEN Size(k) ELSE 0)
    /\ Owners(FreePages, kept, owned, (x + t) .. (x + (n % Size(k + 1)) - 1))

LEMMA LoopFacts ==
    ASSUME PageInv, InLoop
    PROVE  \E x, n, t, k : LoopAt(x, n, t, k)
<1>1. pc = "shrink" /\ work.order >= 0 /\ work \in Works /\ Working(work) /\ pc \notin Stopped
    BY DEF PageInv, InLoop, Stopped
<1>2. PICK x, n, t, k : x = work.addr /\ n = work.size /\ t = work.target /\ k = work.order
    OBVIOUS
<1>3. /\ x \in Nat /\ n \in Nat /\ t \in Nat /\ k \in Orders /\ Mult(x, Size(k)) /\ t \in 0 .. (n % Size(k + 1))
    BY <1>1, <1>2, SizeFacts DEF Works, Working, Orders
<1>4. k \in 0 .. (MAX_ORDER + 1) /\ k + 1 \in 0 .. (MAX_ORDER + 1)
    BY <1>3, SizeFacts DEF Orders
<1>5. Size(k) \in Nat \ {0} /\ n % Size(k) \in Nat /\ n % Size(k + 1) \in Nat
    BY <1>3, <1>4, SizeFacts, Remainder
<1>6. n % Size(k + 1) = (n % Size(k)) + (IF Bit(n, k) THEN Size(k) ELSE 0)
    BY <1>3, Bits
<1>7. Owners(FreePages, kept, owned, Moving) /\ Moving = (x + t) .. (x + (n % Size(k + 1)) - 1)
    BY <1>1, <1>2 DEF PageInv, Moving, Transit
<1>8. t <= n % Size(k + 1)
    BY <1>3, <1>5
<1> QED
    BY <1>2, <1>3, <1>5, <1>6, <1>7, <1>8 DEF LoopAt

(* The iteration goes on to the next lower order, at y and with target u left. *)
Goes(y, n, u, k) ==
    /\ work'.addr = y /\ work'.size = n /\ work'.target = u /\ work'.order = k - 1
    /\ work' \in Works /\ kept' = kept /\ owned' = owned /\ tables' = tables

LEMMA GoesOn ==
    ASSUME PageInv, NEW y \in Nat, NEW n \in Nat, NEW u \in Nat, NEW k \in Orders, Goes(y, n, u, k),
           Mult(y, Size(k)), u <= n % Size(k), pc' = "shrink",
           NEW F, Tile(free', F), Owners(F, kept, owned, (y + u) .. (y + (n % Size(k)) - 1))
    PROVE  PageInv'
<1>1. MAX_ORDER \in Nat /\ k \in Nat /\ k <= MAX_ORDER /\ (k - 1) + 1 = k
    BY SizeFacts DEF Orders
<1>2. Moving' = (y + u) .. (y + (n % Size(k)) - 1)
    BY <1>1 DEF Goes, Moving, Transit
<1>3. n % Size(k) \in Nat
  <2>1. k \in 0 .. (MAX_ORDER + 1)
      BY <1>1
  <2> QED
      BY <2>1, Remainder
<1>4. Working(work')
  <2>1. ASSUME k - 1 >= 0 PROVE Mult(y, Size(k - 1))
    <3>1. k - 1 \in 0 .. (MAX_ORDER + 1) /\ k \in 0 .. (MAX_ORDER + 1) /\ k - 1 <= k
        BY <1>1, <2>1
    <3> QED
        BY <3>1, AlignedBelow
  <2>2. u \in 0 .. (n % Size(k))
      BY <1>3
  <2> QED
      BY <1>1, <2>1, <2>2 DEF Goes, Working
<1>5. Owners(F, kept', owned', Moving') /\ \A a \in owned' : Placed(a)
    BY <1>2 DEF Goes, PageInv
<1>6. tables' \subseteq Nat /\ work' \in Works /\ pc' \in {"idle", "check", "shrink", "return"}
    BY DEF Goes, PageInv
<1>7. pc' = "shrink" => Working(work')
    BY <1>4
<1> QED
    BY ONLY Tile(free', F), <1>5, <1>6, <1>7, Runs

(* There is no entry left for the blocks the iteration frees. *)
LEMMA GoesNowhere ==
    ASSUME PageInv, NEW y, NEW n, NEW u, NEW k, Goes(y, n, u, k), pc' = "exhausted", free' = free
    PROVE  PageInv'
<1>1. /\ Tile(free, FreePages) /\ Inside(FreePages, kept', owned') /\ tables' \subseteq Nat /\ work' \in Works
      /\ pc' \in Stopped /\ free' = free /\ \A a \in owned' : Placed(a)
    BY DEF PageInv, Goes, Stopped
<1> QED
    BY ONLY <1>1, Ends

LEMMA AdvanceGoes ==
    ASSUME PageInv, InLoop, NEW x, NEW n, NEW t, NEW k, LoopAt(x, n, t, k), NEW u \in Nat, Advance(u)
    PROVE  Goes(x + Size(k), n, u, k) /\ Mult(x + Size(k), Size(k)) /\ x + Size(k) \in Nat
<1>1. work \in Works
    BY DEF PageInv
<1>2. work' = [work EXCEPT !.addr = @ + Size(work.order), !.order = @ - 1, !.target = u]
    BY DEF Advance
<1>3. /\ x \in Nat /\ k \in Orders /\ work.addr = x /\ work.size = n /\ work.order = k
      /\ Mult(x, Size(k)) /\ Size(k) \in Nat \ {0}
    BY DEF LoopAt
<1>4. x + Size(k) \in Nat /\ k - 1 \in -1 .. MAX_ORDER
    BY <1>3, SizeFacts DEF Orders
<1>5. work'.addr = x + Size(k) /\ work'.size = n /\ work'.target = u /\ work'.order = k - 1 /\ work' \in Works
    BY <1>1, <1>2, <1>3, <1>4 DEF Works
<1>6. Mult(Size(k), Size(k))
    BY <1>3, MultSelf
<1>7. Mult(x + Size(k), Size(k))
    BY <1>3, <1>6, MultSum
<1> QED
    BY <1>4, <1>5, <1>7 DEF Goes, InLoop

LEMMA SkipOwners ==
    ASSUME PageInv, ShrinkSkip
    PROVE  PageInv'
<1>1. PICK x, n, t, k : LoopAt(x, n, t, k)
    BY LoopFacts DEF ShrinkSkip
<1>2. /\ x \in Nat /\ n \in Nat /\ t \in Nat /\ k \in Orders /\ Mult(x, Size(k)) /\ ~Bit(n, k) /\ n % Size(k) \in Nat
      /\ n % Size(k + 1) = n % Size(k) /\ t <= n % Size(k)
      /\ Owners(FreePages, kept, owned, (x + t) .. (x + (n % Size(k)) - 1))
    BY <1>1 DEF LoopAt, ShrinkSkip
<1>3. work \in Works /\ work' = [work EXCEPT !.order = @ - 1]
    BY DEF PageInv, ShrinkSkip
<1>4. k - 1 \in -1 .. MAX_ORDER
    BY <1>2, SizeFacts DEF Orders
<1>5. Goes(x, n, t, k)
    BY <1>1, <1>2, <1>3, <1>4 DEF Goes, LoopAt, Works, ShrinkSkip, InLoop
<1>6. pc' = "shrink" /\ Tile(free', FreePages)
    BY DEF ShrinkSkip, InLoop, PageInv
<1> QED
    BY <1>2, <1>5, <1>6, GoesOn

LEMMA KeepBlockOwners ==
    ASSUME PageInv, ShrinkKeep
    PROVE  PageInv'
<1>1. PICK x, n, t, k : LoopAt(x, n, t, k)
    BY LoopFacts DEF ShrinkKeep
<1>2. PICK s, r : s = Size(k) /\ r = n % Size(k)
    OBVIOUS
<1>3. /\ x \in Nat /\ n \in Nat /\ t \in Nat /\ k \in Orders /\ s \in Nat \ {0} /\ r \in Nat
      /\ t <= r + s /\ t > s /\ Owners(FreePages, kept, owned, (x + t) .. (x + (r + s) - 1))
      /\ Advance(t - s) /\ InLoop
    BY <1>1, <1>2 DEF LoopAt, ShrinkKeep
<1>4. t - s \in Nat /\ t - s <= r /\ (x + s) + (t - s) = x + t /\ (x + s) + r - 1 = x + (r + s) - 1
    BY <1>3
<1>5. Goes(x + s, n, t - s, k) /\ Mult(x + s, s) /\ x + s \in Nat
    BY <1>1, <1>2, <1>3, <1>4, AdvanceGoes
<1>6. pc' = "shrink" /\ Tile(free', FreePages)
    BY DEF ShrinkKeep, InLoop, PageInv
<1>7. Owners(FreePages, kept, owned, ((x + s) + (t - s)) .. ((x + s) + r - 1))
    BY <1>3, <1>4
<1> QED
    BY <1>2, <1>3, <1>4, <1>5, <1>6, <1>7, GoesOn

LEMMA FreeBlockOwners ==
    ASSUME PageInv, ShrinkFree
    PROVE  PageInv'
<1>1. PICK x, n, t, k : LoopAt(x, n, t, k)
    BY LoopFacts DEF ShrinkFree
<1>2. PICK s, r, b : s = Size(k) /\ r = n % Size(k) /\ b = Block(x, k)
    OBVIOUS
<1>3. /\ x \in Nat /\ n \in Nat /\ k \in Orders /\ s \in Nat \ {0} /\ r \in Nat /\ t = 0 /\ Mult(x, s)
      /\ Owners(FreePages, kept, owned, (x + 0) .. (x + (r + s) - 1))
      /\ Advance(0) /\ InLoop /\ buddy_free_block(b, "shrink")
    BY <1>1, <1>2 DEF LoopAt, ShrinkFree
<1>4. Goes(x + s, n, 0, k) /\ Mult(x + s, s) /\ x + s \in Nat
    BY <1>1, <1>2, <1>3, AdvanceGoes
<1>5. Good(b) /\ Pages(b) = x .. (x + s - 1) /\ b.order = k
    BY <1>2, <1>3, GoodBlock DEF Block
<1>6. PICK T : T = (x + 0) .. (x + (r + s) - 1)
    OBVIOUS
<1>7. Pages(b) \in SUBSET T /\ T \ Pages(b) = ((x + s) + 0) .. ((x + s) + r - 1)
    BY <1>3, <1>5, <1>6
<1>8. Owners(FreePages \cup Pages(b), kept, owned, T \ Pages(b))
    BY <1>3, <1>6, <1>7, OwnersFree
<1>9. Pages(b) \cap FreePages = {}
    BY <1>3, <1>6, <1>7 DEF Owners
<1>10. PICK m \in MergeOrders(b) : SetFree((free \ Siblings(b, m)) \cup {Ancestor(b, m)}, "shrink")
    BY <1>3 DEF buddy_free_block
<1>11. Tile((free \ Siblings(b, m)) \cup {Ancestor(b, m)}, FreePages \cup Pages(b))
  <2>1. Tile(free, FreePages) /\ m \in b.order .. MAX_ORDER /\ Siblings(b, m) \subseteq free
      BY DEF PageInv, MergeOrders
  <2> QED
      BY <1>5, <1>9, <2>1, FreeTiles
<1>12. CASE pc' = "shrink" /\ free' = (free \ Siblings(b, m)) \cup {Ancestor(b, m)}
  <2>1. Tile(free', FreePages \cup Pages(b))
      BY <1>11, <1>12
  <2>2. Owners(FreePages \cup Pages(b), kept, owned, ((x + s) + 0) .. ((x + s) + r - 1))
      BY <1>7, <1>8
  <2>3. 0 \in Nat /\ 0 <= r
      BY <1>3
  <2> QED
      BY <1>2, <1>3, <1>4, <1>12, <2>1, <2>2, <2>3, GoesOn
<1>13. CASE pc' = "exhausted" /\ free' = free
    BY <1>4, <1>13, GoesNowhere
<1> QED
    BY <1>10, <1>12, <1>13 DEF SetFree

LEMMA CutOwners ==
    ASSUME PageInv, ShrinkCut
    PROVE  PageInv'
<1>1. PICK x, n, t, k : LoopAt(x, n, t, k)
    BY LoopFacts DEF ShrinkCut
<1>2. PICK s, r, X, T : /\ s = Size(k) /\ r = n % Size(k)
                        /\ X = (x + t) .. (x + s - 1) /\ T = (x + t) .. (x + (r + s) - 1)
    OBVIOUS
<1>3. /\ x \in Nat /\ n \in Nat /\ k \in Orders /\ s \in Nat \ {0} /\ r \in Nat /\ t \in 1 .. s /\ Mult(x, s)
      /\ Owners(FreePages, kept, owned, T) /\ Advance(0) /\ InLoop
      /\ SetFree(free \cup ShrinkRest(x, k, t), "shrink")
    BY <1>1, <1>2 DEF LoopAt, ShrinkCut
<1>4. Goes(x + s, n, 0, k) /\ Mult(x + s, s) /\ x + s \in Nat
    BY <1>1, <1>2, <1>3, AdvanceGoes
<1>5. X \in SUBSET T /\ T \ X = ((x + s) + 0) .. ((x + s) + r - 1)
  <2>1. t \in Nat /\ t <= s /\ (x + s) + 0 = x + s /\ (x + s) + r - 1 = x + (r + s) - 1
      BY <1>3
  <2>2. (x + t) .. (x + s - 1) \subseteq (x + t) .. (x + (r + s) - 1)
      BY <1>3, <2>1
  <2>3. ((x + t) .. (x + (r + s) - 1)) \ ((x + t) .. (x + s - 1)) = (x + s) .. (x + (r + s) - 1)
      BY <1>3, <2>1
  <2> QED
      BY <1>2, <2>1, <2>2, <2>3
<1>6. Owners(FreePages \cup X, kept, owned, T \ X)
    BY <1>3, <1>5, OwnersFree
<1>7. X \cap FreePages = {} /\ Tile(free, FreePages)
    BY <1>3, <1>5 DEF Owners, PageInv
<1>8. Tile(free \cup ShrinkRest(x, k, t), FreePages \cup X)
    BY <1>2, <1>3, <1>7, CutTiles
<1>9. CASE pc' = "shrink" /\ free' = free \cup ShrinkRest(x, k, t)
  <2>1. Tile(free', FreePages \cup X)
      BY <1>8, <1>9
  <2>2. Owners(FreePages \cup X, kept, owned, ((x + s) + 0) .. ((x + s) + r - 1))
      BY <1>5, <1>6
  <2>3. 0 \in Nat /\ 0 <= r
      BY <1>3
  <2> QED
      BY <1>2, <1>3, <1>4, <1>9, <2>1, <2>2, <2>3, GoesOn
<1>10. CASE pc' = "exhausted" /\ free' = free
    BY <1>4, <1>10, GoesNowhere
<1> QED
    BY <1>3, <1>9, <1>10 DEF SetFree

LEMMA DoneOwners ==
    ASSUME PageInv, ShrinkDone
    PROVE  PageInv'
<1>1. pc = "shrink" /\ work.order < 0 /\ pc' = "check" /\ UNCHANGED <<free, owned, kept, tables, work>>
    BY DEF ShrinkDone
<1>2. work \in Works /\ Working(work) /\ Owners(FreePages, kept, owned, Moving)
    BY <1>1 DEF PageInv, Stopped
<1>3. PICK x \in Nat, n \in Nat, t \in Nat : x = work.addr /\ n = work.size /\ t = work.target
    BY <1>2 DEF Works
<1>4. work.order + 1 = 0 /\ 0 \in 0 .. (MAX_ORDER + 1)
    BY <1>1, <1>2, SizeFacts DEF Works
<1>5. n % Size(0) = 0
  <2>1. n % Size(0) \in Nat /\ n % Size(0) < Size(0)
      BY <1>4, Remainder
  <2> QED
      BY <2>1, SizeFacts
<1>6. Moving = (x + t) .. (x + 0 - 1)
    BY <1>1, <1>3, <1>4, <1>5 DEF Moving, Transit
<1>7. Moving = {} /\ Moving' = {}
  <2>1. (x + t) .. (x + 0 - 1) = {}
      BY <1>3
  <2> QED
      BY <1>1, <1>6, <2>1 DEF Moving
<1>8. /\ Tile(free', FreePages) /\ Owners(FreePages, kept', owned', Moving') /\ tables' \subseteq Nat /\ work' \in Works
      /\ pc' \in {"idle", "check", "shrink", "return"}
      /\ pc' = "shrink" => Working(work')
    BY <1>1, <1>2, <1>7 DEF PageInv
<1>9. \A a \in owned' : Placed(a)
    BY <1>1 DEF PageInv
<1> QED
    BY ONLY <1>8, <1>9, Runs

(* At the start the free blocks of MAX_ORDER cover the memory. *)
LEMMA InitPages == Init => PageInv
<1> SUFFICES ASSUME Init PROVE PageInv
    OBVIOUS
<1>1. PICK s, m, M : s = Size(MAX_ORDER) /\ m = MAX_ORDER /\ M = MaxBlocks
    OBVIOUS
<1>2. s \in Nat \ {0} /\ m \in Nat /\ m \in Orders /\ M \in Nat \ {0}
    BY <1>1, SizeFacts, PhysAllocAssumption DEF Orders
<1> DEFINE P(i) == Block(i * s, m)
           J == 0 .. (M - 1)
<1>3. free = {P(i) : i \in J}
    BY <1>1 DEF Init
<1>4. \A i \in J : Good(P(i)) /\ Pages(P(i)) = (i * s) .. (i * s + s - 1) /\ i * s \in Nat
  <2> TAKE i \in J
  <2>1. i \in Nat /\ i \in Int /\ i * s = s * i /\ i * s \in Nat
      BY <1>2
  <2>2. Mult(i * s, s)
      BY <2>1 DEF Mult
  <2> QED
      BY <1>1, <1>2, <2>1, <2>2, GoodBlock
<1> HIDE DEF P
<1>5. \A i, j \in J : i < j => Pages(P(i)) \cap Pages(P(j)) = {}
  <2> TAKE i \in J, j \in J
  <2> HAVE i < j
  <2>1. i * s + s <= j * s /\ i * s \in Nat /\ j * s \in Nat
    <3>1. PICK d \in Nat : j = i + 1 + d
      <4>1. j - (i + 1) \in Nat /\ j = i + 1 + (j - (i + 1))
          BY <1>2
      <4> QED
          BY <4>1
    <3>2. i \in Nat /\ j * s = i * s + s + d * s /\ d * s \in Nat /\ i * s \in Nat
        BY <1>2, <3>1
    <3> QED
        BY <1>2, <3>2
  <2>2. Pages(P(i)) = (i * s) .. (i * s + s - 1) /\ Pages(P(j)) = (j * s) .. (j * s + s - 1)
      BY <1>4
  <2>3. PICK u \in Nat, v \in Nat : u = i * s /\ v = j * s
      BY <2>1
  <2> QED
      BY <1>2, <2>1, <2>2, <2>3
<1>6. \A i, j \in J : P(i) # P(j) => Pages(P(i)) \cap Pages(P(j)) = {}
  <2> TAKE i \in J, j \in J
  <2> HAVE P(i) # P(j)
  <2>1. i \in Int /\ j \in Int /\ (i < j \/ j < i)
      OBVIOUS
  <2> QED
      BY <1>5, <2>1
<1>7. AllPages = 0 .. (M * s - 1) /\ M * s \in Nat
    BY <1>1, <1>2 DEF AllPages
<1>8. \A i \in J : Pages(P(i)) \subseteq AllPages
  <2> TAKE i \in J
  <2>1. PICK d \in Nat : M = i + 1 + d
    <3>1. M - (i + 1) \in Nat /\ M = i + 1 + (M - (i + 1))
        BY <1>2
    <3> QED
        BY <3>1
  <2>2. i \in Nat /\ M * s = i * s + s + d * s /\ d * s \in Nat /\ i * s \in Nat
      BY <1>2, <2>1
  <2>3. PICK u \in Nat, v \in Nat, w \in Nat : u = i * s /\ v = M * s /\ w = d * s
      BY <1>7, <2>2
  <2>4. v = u + s + w /\ Pages(P(i)) = u .. (u + s - 1) /\ AllPages = 0 .. (v - 1)
      BY <1>4, <1>7, <2>2, <2>3
  <2> QED
      BY <1>2, <2>3, <2>4
<1>9. ASSUME NEW p \in AllPages PROVE \E i \in J : p \in Pages(P(i))
  <2>1. PICK q, r : q = p \div s /\ r = p % s
      OBVIOUS
  <2>2. p \in Nat /\ p < M * s /\ q \in Nat /\ r \in 0 .. (s - 1) /\ p = s * q + r
    <3>1. PICK v \in Nat : v = M * s /\ AllPages = 0 .. (v - 1)
        BY <1>7
    <3>2. p \in Nat /\ p < v
        BY <3>1
    <3>3. p % s \in 0 .. (s - 1) /\ p \div s \in Nat /\ p = s * (p \div s) + (p % s)
        BY <1>2, <3>2, DivMod
    <3> QED
        BY <2>1, <3>1, <3>2, <3>3
  <2>3. q < M
    <3>1. ASSUME q >= M PROVE FALSE
      <4>1. PICK d \in Nat : q = M + d
        <5>1. q - M \in Nat /\ q = M + (q - M)
            BY <1>2, <2>2, <3>1
        <5> QED
            BY <5>1
      <4>2. s * q = M * s + s * d /\ s * d \in Nat
          BY <1>2, <4>1
      <4> QED
          BY <1>2, <1>7, <2>2, <4>2
    <3> QED
        BY <1>2, <2>2, <3>1
  <2>4. q \in J
      BY <1>2, <2>2, <2>3
  <2>5. Pages(P(q)) = (q * s) .. (q * s + s - 1) /\ q * s \in Nat /\ q * s = s * q
      BY <1>2, <1>4, <2>2, <2>4
  <2>6. p \in Pages(P(q))
      BY <1>2, <2>2, <2>5
  <2> QED
      BY <2>4, <2>6
<1>10. Cover(free) = AllPages
    BY <1>3, <1>8, <1>9 DEF Cover
<1>11. Tile(free, AllPages)
    BY <1>3, <1>4, <1>6, <1>10 DEF Tile
<1>12. FreePages = AllPages
    BY <1>10 DEF FreePages, Cover
<1>13. owned = {} /\ kept = {} /\ pc = "idle" /\ tables = {0} /\ work = NoWork
    BY DEF Init
<1>14. Held(owned) = {} /\ Moving = {}
    BY <1>13 DEF Held, Moving
<1>15. Owners(FreePages, kept, owned, Moving)
    BY <1>12, <1>13, <1>14 DEF Owners
<1>16. Inside(FreePages, kept, owned)
    BY <1>15, OwnersInside
<1>17. work \in Works
    BY <1>13, SizeFacts DEF NoWork, Works
<1> QED
    BY <1>11, <1>12, <1>13, <1>15, <1>16, <1>17 DEF PageInv, Stopped

(* A step that leaves the pages where they are. *)
LEMMA StaysOwned ==
    ASSUME PageInv, UNCHANGED <<free, owned, kept, tables>>, work' \in Works, pc # "shrink", pc \notin Stopped,
           pc' \in {"idle", "check", "return"} \cup Stopped
    PROVE  PageInv'
<1>1. /\ Owners(FreePages, kept, owned, {}) /\ Tile(free, FreePages) /\ Inside(FreePages, kept, owned)
      /\ \A a \in owned : Placed(a)
    BY Quiet
<1>2. CASE pc' \in {"idle", "check", "return"}
  <2>1. Moving' = {}
      BY <1>2 DEF Moving
  <2>2. /\ Tile(free', FreePages) /\ Owners(FreePages, kept', owned', Moving') /\ tables' \subseteq Nat
        /\ work' \in Works /\ pc' \in {"idle", "check", "shrink", "return"}
        /\ pc' = "shrink" => Working(work')
        /\ \A a \in owned' : Placed(a)
      BY <1>1, <1>2, <2>1 DEF PageInv
  <2> QED
      BY ONLY <2>2, Runs
<1>3. CASE pc' \in Stopped
  <2>1. /\ Tile(free, FreePages) /\ free' = free /\ Inside(FreePages, kept', owned') /\ tables' \subseteq Nat
        /\ work' \in Works /\ pc' \in Stopped /\ \A a \in owned' : Placed(a)
      BY <1>1, <1>3 DEF PageInv
  <2> QED
      BY ONLY <2>1, Ends
<1> QED
    BY <1>2, <1>3

LEMMA ExpandOwners ==
    ASSUME PageInv, CountInv, ExpandMapped \/ ExpandUnmapped \/ TableMapped
    PROVE  PageInv'
<1>0. 1 \in 1 .. Size(MAX_ORDER) /\ 2 \in 1 .. Size(MAX_ORDER)
  <2>1. MAX_ORDER \in Nat \ {0} /\ 1 \in 0 .. (MAX_ORDER + 1) /\ MAX_ORDER \in 0 .. (MAX_ORDER + 1) /\ 1 <= MAX_ORDER
            /\ 0 \in 0 .. MAX_ORDER /\ 0 + 1 = 1
      BY SizeFacts
  <2>2. Size(1) = 2 /\ Size(MAX_ORDER) \in Nat
      BY <2>1, SizeFacts
  <2>3. Size(1) <= Size(MAX_ORDER)
      BY <2>1, SizeChain
  <2> QED
      BY <2>2, <2>3
<1>a. tables \subseteq Nat
    BY DEF PageInv
<1>1. CASE ExpandMapped
  <2>1. /\ pc \in {"check", "return"} /\ CanTake(2) /\ TakeForZone(2, stack, Frame("data", cursor))
        /\ owned' = owned /\ work' = work /\ tables' \subseteq Nat
      BY <1>1, <1>a DEF ExpandMapped
  <2> QED
      BY <1>0, <2>1, KeepOwners
<1>2. CASE ExpandUnmapped
  <2>1. /\ pc \in {"check", "return"} /\ CanTake(1) /\ TakeForZone(1, stack, Frame("table", cursor))
        /\ owned' = owned /\ work' = work /\ tables' \subseteq Nat
      BY <1>2, <1>a DEF ExpandUnmapped
  <2> QED
      BY <1>0, <2>1, KeepOwners
<1>3. CASE TableMapped
  <2>1. PICK b : b = TopFrame.block
      OBVIOUS
  <2>2. /\ pc \in {"check", "return"} /\ CanTake(2) /\ TakeForZone(2, Front(stack), Frame("data", b))
        /\ owned' = owned /\ work' = work /\ tables' = tables \cup {TableOf(b)} /\ stack # <<>>
      BY <1>3, <2>1 DEF TableMapped
  <2>3. b \in Nat
    <3>1. stack \in Seq(Frames)
        BY DEF CountInv
    <3>2. PICK st2 : st2 = Front(stack)
        OBVIOUS
    <3>3. Last(stack) \in Frames
        BY <2>2, <3>1, <3>2, PopFrame
    <3> QED
        BY <2>1, <3>3 DEF Frames, TopFrame
  <2>4. TableOf(b) \in Nat
      BY <2>3, Constants, DivMod DEF TableOf
  <2>5. tables' \subseteq Nat
      BY <1>a, <2>2, <2>4
  <2> QED
      BY <1>0, <2>2, <2>5, KeepOwners
<1> QED
    BY <1>1, <1>2, <1>3

LEMMA NextPages == PageInv /\ CountInv /\ [Next]_vars => PageInv'
<1> SUFFICES ASSUME PageInv, CountInv, [Next]_vars PROVE PageInv'
    OBVIOUS
<1>0. work \in Works
    BY DEF PageInv
<1>1. CASE \E n \in Sizes : phys_alloc(n)
    BY <1>1, AllocOwners
<1>2. CASE \E a \in owned : phys_free(a)
  <2>1. PICK a \in owned : ShrinkStart(a, 0)
      BY <1>2 DEF phys_free
  <2>2. a.size \in Nat /\ a.size >= 1
    <3>1. MAX_ORDER \in 0 .. (MAX_ORDER + 1)
        BY SizeFacts
    <3> QED
        BY <3>1, SizeFacts DEF PageInv, Placed
  <2>3. 0 \in 0 .. (a.size - 1)
      BY <2>2
  <2> QED
      BY <2>1, <2>3, ShrinkStartOwners
<1>3. CASE \E a \in owned : phys_block_shrink(a)
  <2>0. PICK a \in owned : phys_block_shrink(a)
      BY <1>3
  <2>1. PICK target \in 1 .. (a.size - 1) : ShrinkStart(a, target)
      BY <2>0 DEF phys_block_shrink
  <2>2. target \in 0 .. (a.size - 1)
      OBVIOUS
  <2> QED
      BY <2>1, <2>2, ShrinkStartOwners
<1>4. CASE Enough \/ TableReplaced \/ SlabAdded \/ OutOfMemory
    BY <1>0, <1>4, StaysOwned DEF Enough, TableReplaced, SlabAdded, OutOfMemory, Stopped
<1>5. CASE Return
  <2>1. NoWork \in Works
      BY SizeFacts DEF NoWork, Works
  <2> QED
      BY <1>5, <2>1, StaysOwned DEF Return, Stopped
<1>6. CASE UNCHANGED vars
  <2>1. UNCHANGED <<free, owned, kept, tables, work, pc>>
      BY <1>6 DEF vars
  <2>2. FreePages' = FreePages /\ Moving' = Moving
      BY <2>1 DEF FreePages, Moving
  <2> QED
      BY <2>1, <2>2 DEF PageInv
<1> QED
    BY <1>1, <1>2, <1>3, <1>4, <1>5, <1>6, SkipOwners, KeepBlockOwners, FreeBlockOwners, CutOwners, DoneOwners,
       ExpandOwners DEF Next, Call, Step

(***************************************************************************)
(* Whatever sizes are asked for, cut down and freed piece by piece, and    *)
(* however the entry pool grows meanwhile: between calls every page is     *)
(* free, the zone's or in one allocation.                                  *)
(***************************************************************************)
THEOREM PagesPartitioned == Spec => []Partition
<1>1. PageInv => Partition
  <2> SUFFICES ASSUME PageInv, pc = "idle" PROVE Disjoint /\ FreePages \cup kept \cup Held(owned) = AllPages
      BY DEF Partition, Held
  <2>1. Owners(FreePages, kept, owned, {}) /\ Tile(free, FreePages)
      BY Quiet DEF Stopped
  <2>2. \A a \in owned : Extent(a) \subseteq Held(owned)
      BY DEF Held
  <2>3. Disjoint
      BY <2>1, <2>2 DEF Disjoint, Owners, Tile
  <2> QED
      BY <2>1, <2>3 DEF Owners
<1> QED
    BY <1>1, InitCount, NextCount, InitPages, NextPages, PTL DEF Spec

(* The state of the physical allocator keeps its type. *)
THEOREM TypeCorrect == Spec => []TypeOK
<1>1. PageInv /\ CountInv => TypeOK
  <2> SUFFICES ASSUME PageInv, CountInv PROVE TypeOK
      OBVIOUS
  <2>1. ASSUME NEW b \in free PROVE b \in [offset : AllPages, order : Orders]
    <3>1. Good(b) /\ Pages(b) \subseteq AllPages
        BY DEF PageInv, Tile, Cover, Inside
    <3>2. b.order \in 0 .. (MAX_ORDER + 1) /\ b.offset \in Nat
        BY <3>1, SizeFacts DEF Good, Orders
    <3>3. b.offset \in Pages(b)
        BY <3>2, SizeFacts DEF Pages
    <3> QED
        BY <3>1, <3>3 DEF Good
  <2>2. ASSUME NEW a \in owned PROVE a \in Allocations
    <3>1. Placed(a) /\ Extent(a) \subseteq AllPages
        BY DEF PageInv, Inside, Held
    <3>2. MAX_ORDER \in 0 .. (MAX_ORDER + 1)
        BY SizeFacts
    <3>3. a.base \in Nat /\ a.size \in Nat /\ a.size >= 1
        BY <3>1, <3>2, SizeFacts DEF Placed
    <3>4. a.base \in Extent(a)
        BY <3>3 DEF Extent
    <3> QED
        BY <3>1, <3>4 DEF Placed, Allocations
  <2>3. work.order \in -1 .. MAX_ORDER /\ kept \subseteq AllPages /\ tables \subseteq Nat
        /\ pc \in {"idle", "check", "shrink", "return"} \cup Stopped
      BY DEF PageInv, Inside, Works
  <2> QED
      BY <2>1, <2>2, <2>3 DEF TypeOK, CountInv, Frames
<1> QED
    BY <1>1, InitCount, NextCount, InitPages, NextPages, PTL DEF Spec

-----------------------------------------------------------------------------
(***************************************************************************)
(* The entries of the freelist cache.  A call may use up more entries than *)
(* are free at one time only by leaving blocks of many different orders    *)
(* behind, and those blocks save the splits of the allocations nested in   *)
(* its __freespace_check: what does not sink below the threshold is the    *)
(* number of free entries plus the number of orders that have a free block.*)
(***************************************************************************)

OrdersOf(bs) == {b.order : b \in bs}

(* No two of the blocks have the same order. *)
Ladder(bs) == OrdersOf(bs) \subseteq Orders /\ \A x, y \in bs : x.order = y.order => x = y

LEMMA FewOrders ==
    ASSUME NEW D \in SUBSET Orders
    PROVE  IsFiniteSet(D) /\ Cardinality(D) \in Nat /\ Cardinality(D) <= MAX_ORDER + 1
<1>1. MAX_ORDER \in Nat /\ 0 \in Int /\ MAX_ORDER \in Int /\ ~(0 > MAX_ORDER)
    BY SizeFacts
<1>2. IsFiniteSet(0 .. MAX_ORDER) /\ Cardinality(0 .. MAX_ORDER) = MAX_ORDER - 0 + 1
    BY <1>1, FS_Interval
<1>3. D \in SUBSET (0 .. MAX_ORDER)
    BY DEF Orders
<1>4. IsFiniteSet(D) /\ Cardinality(D) <= Cardinality(0 .. MAX_ORDER)
    BY <1>2, <1>3, FS_Subset
<1>5. Cardinality(D) \in Nat
    BY <1>4, FS_CardinalityType
<1> QED
    BY <1>1, <1>2, <1>4, <1>5

(* Blocks of different orders are as many as their orders. *)
LEMMA LadderCount ==
    ASSUME NEW bs, Ladder(bs)
    PROVE  IsFiniteSet(bs) /\ Cardinality(bs) \in Nat /\ Cardinality(bs) <= Cardinality(OrdersOf(bs))
<1>1. PICK D, f : D = OrdersOf(bs) /\ f = [x \in bs |-> x.order]
    OBVIOUS
<1>2. f \in [bs -> D] /\ \A x, y \in bs : f[x] = f[y] => x = y
    BY <1>1 DEF Ladder, OrdersOf
<1>3. f \in Injection(bs, D)
    BY <1>2 DEF Injection, IsInjective
<1>4. IsFiniteSet(D)
    BY <1>1, FewOrders DEF Ladder
<1>5. IsFiniteSet(bs) /\ Cardinality(bs) <= Cardinality(D)
    BY <1>3, <1>4, FS_Injection
<1> QED
    BY <1>1, <1>5, FS_CardinalityType

(* Blocks are at least as many as their orders. *)
LEMMA OrdersCount ==
    ASSUME NEW bs, IsFiniteSet(bs)
    PROVE  IsFiniteSet(OrdersOf(bs)) /\ Cardinality(OrdersOf(bs)) <= Cardinality(bs)
<1>1. PICK D, f : D = OrdersOf(bs) /\ f = [x \in bs |-> x.order]
    OBVIOUS
<1>2. f \in [bs -> D] /\ \A d \in D : \E x \in bs : f[x] = d
    BY <1>1 DEF OrdersOf
<1>3. f \in Surjection(bs, D)
    BY <1>2 DEF Surjection
<1> QED
    BY <1>1, <1>3, FS_Surjection

LEMMA OrdersIn ==
    ASSUME NEW A, NEW B
    PROVE  OrdersOf(A \cup B) = OrdersOf(A) \cup OrdersOf(B)
BY DEF OrdersOf

LEMMA UnionCount ==
    ASSUME NEW A, IsFiniteSet(A), NEW B, IsFiniteSet(B)
    PROVE  /\ IsFiniteSet(A \cup B) /\ Cardinality(A \cup B) \in Nat /\ Cardinality(A) \in Nat /\ Cardinality(B) \in Nat
           /\ Cardinality(A \cup B) <= Cardinality(A) + Cardinality(B)
           /\ A \cap B = {} => Cardinality(A \cup B) = Cardinality(A) + Cardinality(B)
<1>1. IsFiniteSet(A \cup B) /\ Cardinality(A \cup B) = Cardinality(A) + Cardinality(B) - Cardinality(A \cap B)
    BY FS_Union
<1>2. IsFiniteSet(A \cap B)
    BY FS_Intersection
<1>3. /\ Cardinality(A \cup B) \in Nat /\ Cardinality(A) \in Nat /\ Cardinality(B) \in Nat
      /\ Cardinality(A \cap B) \in Nat
    BY <1>1, <1>2, FS_CardinalityType
<1>4. A \cap B = {} => Cardinality(A \cap B) = 0
    BY FS_EmptySet
<1> QED
    BY <1>1, <1>3, <1>4

(* One of the blocks is replaced by blocks of different orders. *)
LEMMA ReplaceCount ==
    ASSUME NEW A, IsFiniteSet(A), NEW b \in A, NEW P, Ladder(P)
    PROVE  /\ IsFiniteSet((A \ {b}) \cup P) /\ Cardinality((A \ {b}) \cup P) \in Nat /\ Cardinality(A) \in Nat
           /\ Cardinality((A \ {b}) \cup P) <= Cardinality(A) - 1 + Cardinality(OrdersOf(P))
<1>1. IsFiniteSet(P) /\ Cardinality(P) \in Nat /\ Cardinality(P) <= Cardinality(OrdersOf(P))
    BY LadderCount
<1>2. IsFiniteSet(A \ {b}) /\ Cardinality(A \ {b}) = Cardinality(A) - 1
    BY FS_RemoveElement
<1>3. /\ IsFiniteSet((A \ {b}) \cup P) /\ Cardinality((A \ {b}) \cup P) \in Nat
      /\ Cardinality((A \ {b}) \cup P) <= Cardinality(A \ {b}) + Cardinality(P)
    BY <1>1, <1>2, UnionCount
<1>4. Cardinality(A) \in Nat /\ Cardinality(OrdersOf(P)) \in Nat
  <2>1. OrdersOf(P) \in SUBSET Orders
      BY DEF Ladder
  <2> QED
      BY <2>1, FewOrders, FS_CardinalityType
<1> QED
    BY <1>1, <1>2, <1>3, <1>4

(* The block taken has the least order of the free ones that are large enough. *)
LEMMA SourceLeast ==
    ASSUME (\A b \in free : Good(b)), NEW k \in Orders, NEW b \in free, b.order >= k
    PROVE  SourceOrder(k) <= b.order
<1> DEFINE T == {x.order : x \in {c \in free : c.order >= k}}
<1>1. T \in SUBSET Nat /\ T # {} /\ b.order \in T
    BY DEF Good, Orders
<1>2. \E m \in T : \A y \in T : m <= y
    BY <1>1, LeastElement
<1>3. \A y \in T : Min(T) <= y
    BY <1>2 DEF Min
<1>4. SourceOrder(k) = Min(T)
    BY DEF SourceOrder
<1> QED
    BY <1>1, <1>3, <1>4

(* The pieces an allocation leaves of its block have different orders, all below the block's. *)
LEMMA PiecesLadder ==
    ASSUME NEW b, Good(b), NEW k \in Orders, k <= b.order, NEW o, NEW n \in Nat,
           NEW P, P = SplitRest(b, k) \cup ShrinkRest(o, k, n)
    PROVE  Ladder(P) /\ OrdersOf(P) \subseteq 0 .. (b.order - 1)
<1>1. PICK j \in Orders : j = b.order
    BY DEF Good
<1>2. j \in Nat /\ k \in Nat /\ j <= MAX_ORDER /\ MAX_ORDER \in Nat
    BY SizeFacts DEF Orders
<1>3. \A x \in SplitRest(b, k) :
        \/ \E i \in (k + 1) .. (j - 1) : x = Block(b.offset + Size(i), i) /\ x.order = i
        \/ j > k /\ x = Block(b.offset, k) /\ x.order = k
    BY <1>1 DEF SplitRest, Block
<1>4. PICK cut : cut = Size(k) - n
    OBVIOUS
<1>5. \A x \in ShrinkRest(o, k, n) : \E i \in 0 .. (k - 1) : x = Block(o + n + (cut % Size(i)), i) /\ x.order = i
    BY <1>4 DEF ShrinkRest, Block
<1>6. \A x \in SplitRest(b, k) : x.order \in k .. (j - 1)
    BY <1>1, <1>2, <1>3
<1>7. \A x \in ShrinkRest(o, k, n) : x.order \in 0 .. (k - 1)
    BY <1>5
<1>8. OrdersOf(P) \subseteq 0 .. (j - 1)
    BY <1>1, <1>2, <1>6, <1>7 DEF OrdersOf
<1>9. 0 .. (j - 1) \subseteq Orders
    BY <1>2 DEF Orders
<1>10. \A x, y \in SplitRest(b, k) : x.order = y.order => x = y
    BY <1>2, <1>3
<1>11. \A x, y \in ShrinkRest(o, k, n) : x.order = y.order => x = y
    BY <1>5
<1>12. \A x \in SplitRest(b, k), y \in ShrinkRest(o, k, n) : x.order # y.order
    BY <1>2, <1>6, <1>7
<1> QED
    BY <1>1, <1>8, <1>9, <1>10, <1>11, <1>12 DEF Ladder

(* A whole block is taken for one page and for two: nothing is cut off it. *)
LEMMA WholeBlocks ==
    ASSUME NEW n \in {1, 2}
    PROVE  /\ n \in 1 .. Size(MAX_ORDER) /\ \A o : ShrinkRest(o, bit_order(n), n) = {}
<1>1. MAX_ORDER \in Nat \ {0} /\ 1 \in 0 .. (MAX_ORDER + 1) /\ MAX_ORDER \in 0 .. (MAX_ORDER + 1) /\ 1 <= MAX_ORDER
          /\ 0 \in 0 .. MAX_ORDER /\ 0 + 1 = 1
    BY SizeFacts
<1>2. Size(0) = 1 /\ Size(1) = 2 /\ Size(MAX_ORDER) \in Nat
    BY <1>1, SizeFacts
<1>3. Size(1) <= Size(MAX_ORDER)
    BY <1>1, SizeChain
<1>4. n \in 1 .. Size(MAX_ORDER) /\ n \in Nat
    BY <1>2, <1>3
<1>5. PICK k \in Orders : k = bit_order(n)
    BY <1>4, BitOrder
<1>6. n <= Size(k) /\ \A i \in 0 .. (k - 1) : Size(i) < n
    BY <1>4, <1>5, BitOrder
<1>7. k \in Nat /\ k <= MAX_ORDER
    BY SizeFacts DEF Orders
<1>8. k <= 1
  <2>1. ASSUME k > 1 PROVE FALSE
    <3>1. 1 \in 0 .. (k - 1)
        BY <1>7, <2>1
    <3> QED
        BY <1>2, <1>6, <3>1
  <2> QED
      BY <1>7, <2>1
<1>9. Size(k) = n
  <2>1. k = 0 \/ k = 1
      BY <1>7, <1>8
  <2>2. CASE k = 0
      BY <1>2, <1>6, <2>2
  <2>3. CASE k = 1
    <3>1. 0 \in 0 .. (k - 1)
        BY <2>3
    <3> QED
        BY <1>2, <1>6, <2>3, <3>1
  <2> QED
      BY <2>1, <2>2, <2>3
<1>10. \A i \in 0 .. (k - 1) : ~Bit(Size(k) - n, i)
  <2> TAKE i \in 0 .. (k - 1)
  <2>1. i \in 0 .. (MAX_ORDER + 1)
      BY <1>1, <1>7
  <2>2. PICK s \in Nat \ {0} : s = Size(i)
      BY <2>1, SizeFacts
  <2>3. Size(k) - n = 0 /\ 0 \div s = 0 /\ 0 % 2 = 0
      BY <1>4, <1>9, <2>2
  <2> QED
      BY <2>2, <2>3 DEF Bit
<1> QED
    BY <1>4, <1>5, <1>10 DEF ShrinkRest

(***************************************************************************)
(* What an allocation does to the entries: it never leaves more blocks     *)
(* than it took orders, and for one or two pages it leaves a block of each *)
(* order it splits and that had none.                                      *)
(***************************************************************************)
Thrifty(bs, n) ==
    /\ IsFiniteSet(bs) /\ Cardinality(bs) \in Nat /\ OrdersOf(bs) \subseteq Orders
    /\ Cardinality(bs) <= Cardinality(free) - 1 + Cardinality(OrdersOf(bs))
    /\ n \in {1, 2} => Cardinality(bs) + Cardinality(OrdersOf(free)) <= Cardinality(free) + Cardinality(OrdersOf(bs))

LEMMA TakeCount ==
    ASSUME (\A c \in free : Good(c)), IsFiniteSet(free), NEW n \in 1 .. Size(MAX_ORDER), CanTake(n),
           NEW b \in free, b.order = SourceOrder(bit_order(n))
    PROVE  Thrifty((free \ {b}) \cup SplitRest(b, bit_order(n))
                      \cup ShrinkRest(AllocatedOffset(b, bit_order(n)), bit_order(n), n), n)
<1>1. PICK k \in Orders : k = bit_order(n)
    BY BitOrder
<1>2. PICK o, P, bs : /\ o = AllocatedOffset(b, k) /\ P = SplitRest(b, k) \cup ShrinkRest(o, k, n)
                      /\ bs = (free \ {b}) \cup P
    OBVIOUS
<1>3. bs = (free \ {b}) \cup SplitRest(b, bit_order(n))
             \cup ShrinkRest(AllocatedOffset(b, bit_order(n)), bit_order(n), n)
    BY <1>1, <1>2
<1>4. PICK j \in Orders : j = b.order
    BY DEF Good
<1>5. j \in Nat /\ k \in Nat /\ j <= MAX_ORDER /\ MAX_ORDER \in Nat
    BY SizeFacts DEF Orders
<1>6. k <= j
  <2>1. \E c \in free : c.order >= k
      BY <1>1 DEF CanTake
  <2>2. SourceOrder(k) >= k
      BY <2>1, SourceFits
  <2> QED
      BY <1>1, <1>4, <1>5, <2>2
<1>7. n \in Nat
  <2>1. MAX_ORDER \in 0 .. (MAX_ORDER + 1)
      BY <1>5
  <2> QED
      BY <2>1, SizeFacts
<1>8. Ladder(P) /\ OrdersOf(P) \subseteq 0 .. (j - 1)
  <2>1. Good(b) /\ k <= b.order
      BY <1>4, <1>6
  <2> QED
      BY <1>2, <1>4, <1>7, <2>1, PiecesLadder
<1>9. /\ IsFiniteSet(bs) /\ Cardinality(bs) \in Nat /\ Cardinality(free) \in Nat
      /\ Cardinality(bs) <= Cardinality(free) - 1 + Cardinality(OrdersOf(P))
    BY <1>2, <1>8, ReplaceCount
<1>10. PICK D, E, Q, F : D = OrdersOf(free) /\ E = OrdersOf(bs) /\ Q = OrdersOf(P) /\ F = OrdersOf(free \ {b})
    OBVIOUS
<1>11. E = F \cup Q /\ D = F \cup {j} /\ D \subseteq Orders /\ Q \subseteq Orders /\ Q \subseteq 0 .. (j - 1)
  <2>1. E = F \cup Q
      BY <1>2, <1>10, OrdersIn
  <2>2. D = F \cup {j}
      BY <1>4, <1>10 DEF OrdersOf
  <2>3. D \subseteq Orders
      BY <1>10 DEF OrdersOf, Good
  <2> QED
      BY <1>8, <1>10, <2>1, <2>2, <2>3 DEF Ladder
<1>12. E \in SUBSET Orders /\ D \in SUBSET Orders /\ Q \in SUBSET Orders /\ F \in SUBSET Orders
    BY <1>11
<1>13. /\ IsFiniteSet(D) /\ IsFiniteSet(E) /\ IsFiniteSet(Q) /\ IsFiniteSet(F)
       /\ Cardinality(D) \in Nat /\ Cardinality(E) \in Nat /\ Cardinality(Q) \in Nat /\ Cardinality(F) \in Nat
    BY <1>12, FewOrders
<1>14. Cardinality(Q) <= Cardinality(E)
  <2>1. Q \in SUBSET E
      BY <1>11
  <2> QED
      BY <1>13, <2>1, FS_Subset
<1>15. ASSUME n \in {1, 2} PROVE Cardinality(bs) + Cardinality(D) <= Cardinality(free) + Cardinality(E)
  <2>1. P = SplitRest(b, k)
      BY <1>1, <1>2, <1>15, WholeBlocks
  <2>2. Q \subseteq k .. (j - 1)
    <3>1. \A x \in SplitRest(b, k) : \/ \E i \in (k + 1) .. (j - 1) : x.order = i
                                     \/ j > k /\ x.order = k
        BY <1>4 DEF SplitRest, Block
    <3> QED
        BY <1>5, <1>10, <2>1, <3>1 DEF OrdersOf
  <2>3. \A c \in free : c.order >= k => j <= c.order
      BY <1>1, <1>4, SourceLeast
  <2>4. \A d \in D : d >= k => d >= j
      BY <1>5, <1>10, <1>11, <2>3 DEF OrdersOf
  <2>5. F \cap Q = {}
    <3>1. ASSUME NEW d \in F, d \in Q PROVE FALSE
      <4>1. d \in D /\ d \in Nat /\ d >= k /\ d <= j - 1
          BY <1>5, <1>11, <2>2, <3>1
      <4> QED
          BY <1>5, <2>4, <4>1
    <3> QED
        BY <3>1
  <2>6. Cardinality(E) = Cardinality(F) + Cardinality(Q)
      BY <1>11, <1>13, <2>5, UnionCount
  <2>7. Cardinality(D) <= Cardinality(F) + 1
    <3>1. Cardinality(F \cup {j}) = IF j \in F THEN Cardinality(F) ELSE Cardinality(F) + 1
        BY <1>13, FS_AddElement
    <3> QED
        BY <1>11, <1>13, <3>1
  <2> QED
      BY <1>9, <1>10, <1>13, <2>6, <2>7
<1>16. Thrifty(bs, n)
    BY <1>9, <1>10, <1>12, <1>13, <1>14, <1>15 DEF Thrifty
<1> QED
    BY <1>3, <1>16

(***************************************************************************)
(* Freeing a piece of order o: it merges with one block of each order on   *)
(* the way up, so an order that loses its last block gives back an entry.  *)
(***************************************************************************)
Above(bs, o) == OrdersOf(bs) \cap (o .. MAX_ORDER)

LEMMA FreeCount ==
    ASSUME (\A c \in free : Good(c)), IsFiniteSet(free), NEW b, Good(b), NEW k \in MergeOrders(b),
           NEW bs, bs = (free \ Siblings(b, k)) \cup {Ancestor(b, k)}
    PROVE  /\ IsFiniteSet(bs) /\ Cardinality(bs) \in Nat
           /\ Cardinality(bs) + Cardinality(Above(free, b.order + 1)) <= Cardinality(free) + Cardinality(Above(bs, b.order))
<1>0. b.order \in Orders
    BY DEF Good
<1>1. PICK o, S, a : o = b.order /\ S = Siblings(b, k) /\ a = Ancestor(b, k) /\ o \in Orders
    BY <1>0
<1>2. o \in Nat /\ k \in Nat /\ k >= o /\ k <= MAX_ORDER /\ MAX_ORDER \in Nat /\ S \subseteq free /\ a.order = k
    BY <1>1, SizeFacts DEF Orders, MergeOrders, Ancestor, Block
<1>3. /\ \A x \in S : x.order \in o .. (k - 1)
      /\ \A i \in o .. (k - 1) : \E x \in S : x.order = i
  <2>1. \A i : Sibling(b, i).order = i
      BY DEF Sibling, Block
  <2>2. S = {Sibling(b, i) : i \in o .. (k - 1)}
      BY <1>1 DEF Siblings
  <2> QED
      BY ONLY <2>1, <2>2
<1>4. OrdersOf(S) = o .. (k - 1)
    BY <1>3 DEF OrdersOf
<1>5. IsFiniteSet(S) /\ Cardinality(S) \in Nat /\ Cardinality(free) \in Nat
  <2>1. S \in SUBSET free
      BY <1>2
  <2> QED
      BY <2>1, FS_Subset, FS_CardinalityType
<1>6. Cardinality(o .. (k - 1)) = k - o /\ k - o <= Cardinality(S)
  <2>1. Cardinality(o .. (k - 1)) <= Cardinality(S)
      BY <1>4, <1>5, OrdersCount
  <2>2. o \in Int /\ k - 1 \in Int
      BY <1>2
  <2>3. Cardinality(o .. (k - 1)) = IF o > k - 1 THEN 0 ELSE (k - 1) - o + 1
      BY <2>2, FS_Interval
  <2>4. Cardinality(o .. (k - 1)) = k - o
      BY <1>2, <2>3
  <2> QED
      BY <2>1, <2>4
<1>7. /\ IsFiniteSet(free \ S) /\ Cardinality(free \ S) = Cardinality(free) - Cardinality(S)
      /\ Cardinality(free \ S) \in Nat
  <2>1. free \cap S = S
      BY <1>2
  <2> QED
      BY <2>1, FS_Difference, FS_CardinalityType
<1>8. /\ IsFiniteSet(bs) /\ Cardinality(bs) \in Nat /\ Cardinality(bs) <= Cardinality(free) - (k - o) + 1
  <2>1. bs = (free \ S) \cup {a}
      BY <1>1
  <2>2. /\ IsFiniteSet((free \ S) \cup {a})
        /\ Cardinality((free \ S) \cup {a}) = IF a \in free \ S THEN Cardinality(free \ S) ELSE Cardinality(free \ S) + 1
      BY <1>7, FS_AddElement
  <2>3. IsFiniteSet(bs) /\ Cardinality(bs) = IF a \in free \ S THEN Cardinality(free \ S) ELSE Cardinality(free \ S) + 1
      BY <2>1, <2>2, Zenon
  <2>4. PICK c, d : c = Cardinality(free \ S) /\ d = Cardinality(bs) /\ c \in Nat
      BY <1>7
  <2>5. d = c \/ d = c + 1
      BY <2>3, <2>4
  <2>6. IsFiniteSet(bs) /\ Cardinality(bs) \in Nat /\ Cardinality(bs) <= Cardinality(free \ S) + 1
      BY <2>3, <2>4, <2>5
  <2> QED
      BY <1>2, <1>5, <1>6, <1>7, <2>6
<1>9. PICK A, B, R : A = Above(free, o + 1) /\ B = Above(bs, o) /\ R = (o + 1) .. (k - 1)
    OBVIOUS
<1>10. /\ A \in SUBSET Orders /\ B \in SUBSET Orders /\ A \ R \in SUBSET Orders /\ A \cap R \in SUBSET Orders
       /\ \A d \in A : d \in Nat /\ d >= o + 1 /\ d <= MAX_ORDER
    BY <1>2, <1>9 DEF Above, Orders
<1>11. /\ IsFiniteSet(A) /\ IsFiniteSet(B) /\ IsFiniteSet(A \ R) /\ Cardinality(A) \in Nat /\ Cardinality(B) \in Nat
       /\ Cardinality(A \ R) \in Nat /\ Cardinality(A \cap R) \in Nat
    BY <1>10, FewOrders
<1>12. k \in B
    BY <1>1, <1>2, <1>9 DEF Above, OrdersOf
<1>13. A \ R \subseteq B
  <2> SUFFICES ASSUME NEW d \in A, d \notin R PROVE d \in B
      OBVIOUS
  <2>1. PICK c \in free : d = c.order
      BY <1>9 DEF Above, OrdersOf
  <2>2. d \in Nat /\ d >= o + 1 /\ d <= MAX_ORDER /\ ~(d <= k - 1)
      BY <1>2, <1>9, <1>10
  <2>3. c \notin S
      BY <1>2, <1>3, <2>1, <2>2
  <2>4. c \in bs
      BY <1>1, <2>3
  <2>5. d \in OrdersOf(bs) /\ d \in o .. MAX_ORDER
      BY <1>2, <2>1, <2>2, <2>4 DEF OrdersOf
  <2> QED
      BY <1>9, <2>5 DEF Above
<1>14. Cardinality(A \ R) <= Cardinality(B)
    BY <1>11, <1>13, FS_Subset
<1>15. Cardinality(A \ R) = Cardinality(A) - Cardinality(A \cap R)
    BY <1>11, FS_Difference
<1>16. CASE k = o
  <2>1. R = {} /\ A \cap R = {} /\ A \ R = A
      BY <1>2, <1>9, <1>16
  <2>2. o \notin A
      BY <1>2, <1>10
  <2>3. A \cup {o} \in SUBSET B
      BY <1>12, <1>13, <1>16, <2>1
  <2>4. Cardinality(A \cup {o}) = Cardinality(A) + 1 /\ Cardinality(A \cup {o}) <= Cardinality(B)
      BY <1>11, <2>2, <2>3, FS_AddElement, FS_Subset
  <2>5. Cardinality(bs) <= Cardinality(free) + 1
      BY <1>2, <1>5, <1>8, <1>16
  <2> QED
      BY <1>1, <1>5, <1>8, <1>9, <1>11, <2>4, <2>5
<1>17. CASE k > o
  <2>1. Cardinality(A \cap R) <= k - 1 - o
    <3>1. o + 1 \in Int /\ k - 1 \in Int
        BY <1>2
    <3>2. IsFiniteSet(R) /\ Cardinality(R) = IF o + 1 > k - 1 THEN 0 ELSE (k - 1) - (o + 1) + 1
        BY <1>9, <3>1, FS_Interval
    <3>3. Cardinality(R) = k - 1 - o
        BY <1>2, <1>17, <3>2
    <3>4. A \cap R \in SUBSET R
        OBVIOUS
    <3>5. Cardinality(A \cap R) <= Cardinality(R)
        BY <3>2, <3>4, FS_Subset
    <3> QED
        BY <3>3, <3>5
  <2> QED
      BY <1>1, <1>2, <1>5, <1>8, <1>9, <1>11, <1>14, <1>15, <2>1
<1> QED
    BY <1>2, <1>8, <1>16, <1>17

(***************************************************************************)
(* The reserve.  A caller's shrink is left out: it is the call that the    *)
(* reserve does not cover.                                                 *)
(***************************************************************************)
ReserveInv ==
    /\ IsFiniteSet(free)
    /\ pc \in {"idle", "return"} => total_free_objects >= FREELIST_EXPANSION_THRESHOLD
    /\ pc = "check" /\ work.op # "shrink" =>
          total_free_objects + Cardinality(OrdersOf(free)) >= FREELIST_EXPANSION_THRESHOLD
    /\ pc = "shrink" /\ work.op # "shrink" =>
          /\ work.target = 0
          /\ total_free_objects + Cardinality(Above(free, work.order + 1)) >= FREELIST_EXPANSION_THRESHOLD
    /\ pc = "exhausted" => work.op = "shrink"

LEMMA ReserveTypes ==
    ASSUME PageInv, CountInv, ReserveInv
    PROVE  /\ supply \in Nat /\ IsFiniteSet(free) /\ Cardinality(free) \in Nat /\ MAX_ORDER \in Nat
           /\ \A b \in free : Good(b)
           /\ OrdersOf(free) \subseteq Orders /\ Cardinality(OrdersOf(free)) \in Nat
           /\ Cardinality(OrdersOf(free)) <= MAX_ORDER + 1
<1>1. supply \in Nat /\ IsFiniteSet(free) /\ MAX_ORDER \in Nat /\ \A b \in free : Good(b)
    BY SizeFacts DEF CountInv, ReserveInv, PageInv, Tile
<1>2. OrdersOf(free) \in SUBSET Orders
    BY <1>1 DEF OrdersOf, Good
<1> QED
    BY <1>1, <1>2, FewOrders, FS_CardinalityType

(* An allocation finds its entries, and its __freespace_check the reserve. *)
LEMMA TakeReserve ==
    ASSUME PageInv, CountInv, ReserveInv, NEW n \in 1 .. Size(MAX_ORDER), CanTake(n),
           NEW b \in free, b.order = SourceOrder(bit_order(n)),
           SetFree((free \ {b}) \cup SplitRest(b, bit_order(n))
                      \cup ShrinkRest(AllocatedOffset(b, bit_order(n)), bit_order(n), n), "check"),
           supply' = supply, pc \in {"idle", "return"} \/ (pc = "check" /\ n \in {1, 2}),
           pc = "check" => work'.op = work.op
    PROVE  ReserveInv'
<1>1. PICK bs : bs = (free \ {b}) \cup SplitRest(b, bit_order(n))
                        \cup ShrinkRest(AllocatedOffset(b, bit_order(n)), bit_order(n), n)
    OBVIOUS
<1>2. SetFree(bs, "check")
    BY <1>1
<1>3. /\ supply \in Nat /\ IsFiniteSet(free) /\ Cardinality(free) \in Nat /\ MAX_ORDER \in Nat
      /\ (\A c \in free : Good(c))
      /\ Cardinality(OrdersOf(free)) \in Nat /\ Cardinality(OrdersOf(free)) <= MAX_ORDER + 1
    BY ReserveTypes
<1>4. Thrifty(bs, n)
    BY <1>1, <1>3, TakeCount
<1>5. PICK s, f, d, g, e : /\ s = supply /\ f = Cardinality(free) /\ d = Cardinality(OrdersOf(free))
                           /\ g = Cardinality(bs) /\ e = Cardinality(OrdersOf(bs))
    OBVIOUS
<1>6. /\ IsFiniteSet(bs) /\ s \in Nat /\ f \in Nat /\ d \in Nat /\ g \in Nat /\ e \in Nat /\ e <= MAX_ORDER + 1
      /\ g <= f - 1 + e /\ (n \in {1, 2} => g + d <= f + e)
  <2>1. OrdersOf(bs) \in SUBSET Orders /\ Cardinality(bs) \in Nat
      BY <1>4 DEF Thrifty
  <2>2. Cardinality(OrdersOf(bs)) \in Nat /\ Cardinality(OrdersOf(bs)) <= MAX_ORDER + 1
      BY <2>1, FewOrders
  <2> QED
      BY <1>3, <1>4, <1>5, <2>1, <2>2 DEF Thrifty
<1>7. \/ free' = bs /\ pc' = "check"
      \/ pc' = "exhausted" /\ free' = free /\ ~(g <= s)
    BY <1>2, <1>5 DEF SetFree
<1>8. IsFiniteSet(free')
    BY <1>3, <1>6, <1>7
<1>9. CASE pc = "check" /\ work.op = "shrink"
    BY <1>7, <1>8, <1>9 DEF ReserveInv
<1>10. CASE ~(pc = "check" /\ work.op = "shrink")
  <2>1. s - g + e >= MAX_ORDER + 1
    <3>1. CASE pc \in {"idle", "return"}
      <4>1. s - f >= MAX_ORDER + 1
          BY <1>5, <3>1 DEF ReserveInv, total_free_objects, FREELIST_EXPANSION_THRESHOLD
      <4> QED
          BY <1>3, <1>6, <4>1
    <3>2. CASE pc = "check" /\ n \in {1, 2}
      <4>1. s - f + d >= MAX_ORDER + 1
          BY <1>5, <1>10, <3>2 DEF ReserveInv, total_free_objects, FREELIST_EXPANSION_THRESHOLD
      <4> QED
          BY <1>3, <1>6, <3>2, <4>1
    <3> QED
        BY <3>1, <3>2
  <2>2. g <= s
      BY <1>3, <1>6, <2>1
  <2>3. free' = bs /\ pc' = "check"
      BY <1>7, <2>2
  <2>4. (total_free_objects)' + Cardinality(OrdersOf(free')) >= FREELIST_EXPANSION_THRESHOLD
      BY <1>5, <2>1, <2>3 DEF total_free_objects, FREELIST_EXPANSION_THRESHOLD
  <2> QED
      BY <1>8, <2>3, <2>4 DEF ReserveInv
<1> QED
    BY <1>9, <1>10

(* A free of one piece finds its entry. *)
LEMMA FreeReserve ==
    ASSUME PageInv, CountInv, ReserveInv, ShrinkFree
    PROVE  ReserveInv'
<1>1. PICK x, n, t, k : LoopAt(x, n, t, k)
    BY LoopFacts DEF ShrinkFree
<1>2. PICK b : b = Block(x, k)
    OBVIOUS
<1>3. /\ x \in Nat /\ k \in Orders /\ work.order = k /\ Mult(x, Size(k)) /\ pc = "shrink"
      /\ buddy_free_block(b, "shrink") /\ Advance(0) /\ InLoop /\ supply' = supply /\ work \in Works
    BY <1>1, <1>2 DEF LoopAt, ShrinkFree, InLoop, PageInv
<1>4. Good(b) /\ b.order = k
    BY <1>2, <1>3, GoodBlock DEF Block
<1>5. work'.op = work.op /\ work'.target = 0 /\ work'.order = k - 1
    BY <1>3 DEF Advance, Works
<1>6. PICK m \in MergeOrders(b) : SetFree((free \ Siblings(b, m)) \cup {Ancestor(b, m)}, "shrink")
    BY <1>3 DEF buddy_free_block
<1>7. PICK bs : bs = (free \ Siblings(b, m)) \cup {Ancestor(b, m)}
    OBVIOUS
<1>8. /\ supply \in Nat /\ IsFiniteSet(free) /\ Cardinality(free) \in Nat /\ MAX_ORDER \in Nat
      /\ (\A c \in free : Good(c))
    BY ReserveTypes
<1>9. /\ IsFiniteSet(bs) /\ Cardinality(bs) \in Nat
      /\ Cardinality(bs) + Cardinality(Above(free, k + 1)) <= Cardinality(free) + Cardinality(Above(bs, k))
    BY <1>4, <1>7, <1>8, FreeCount
<1>10. PICK s, f, d, g, e : /\ s = supply /\ f = Cardinality(free) /\ d = Cardinality(Above(free, k + 1))
                            /\ g = Cardinality(bs) /\ e = Cardinality(Above(bs, k))
    OBVIOUS
<1>11. s \in Nat /\ f \in Nat /\ d \in Nat /\ g \in Nat /\ e \in Nat /\ e <= MAX_ORDER + 1 /\ g + d <= f + e
  <2>1. Above(free, k + 1) \in SUBSET Orders /\ Above(bs, k) \in SUBSET Orders
      BY <1>3, <1>8 DEF Above, Orders
  <2>2. /\ Cardinality(Above(free, k + 1)) \in Nat /\ Cardinality(Above(bs, k)) \in Nat
        /\ Cardinality(Above(bs, k)) <= MAX_ORDER + 1
      BY <2>1, FewOrders
  <2> QED
      BY <1>8, <1>9, <1>10, <2>2
<1>12. \/ free' = bs /\ pc' = "shrink"
       \/ pc' = "exhausted" /\ free' = free /\ ~(g <= s)
    BY <1>6, <1>7, <1>10 DEF SetFree
<1>13. IsFiniteSet(free')
    BY <1>8, <1>9, <1>12
<1>14. CASE work.op = "shrink"
    BY <1>5, <1>12, <1>13, <1>14 DEF ReserveInv
<1>15. CASE work.op # "shrink"
  <2>1. s - f + d >= MAX_ORDER + 1
      BY <1>3, <1>10, <1>15 DEF ReserveInv, total_free_objects, FREELIST_EXPANSION_THRESHOLD
  <2>2. s - g + e >= MAX_ORDER + 1 /\ g <= s
      BY <1>8, <1>11, <2>1
  <2>3. free' = bs /\ pc' = "shrink"
      BY <1>12, <2>2
  <2>4. k \in Int /\ (k - 1) + 1 = k
      BY <1>3, SizeFacts DEF Orders
  <2>5. (total_free_objects)' + Cardinality(Above(free', work'.order + 1)) >= FREELIST_EXPANSION_THRESHOLD
      BY <1>3, <1>5, <1>10, <2>2, <2>3, <2>4 DEF total_free_objects, FREELIST_EXPANSION_THRESHOLD
  <2> QED
      BY <1>5, <1>13, <2>3, <2>5 DEF ReserveInv
<1> QED
    BY <1>14, <1>15

(* The other steps of phys_block_shrink: only a shrink cuts a block or keeps one. *)
LEMMA LoopReserve ==
    ASSUME PageInv, CountInv, ReserveInv, ShrinkSkip \/ ShrinkCut \/ ShrinkKeep \/ ShrinkDone
    PROVE  ReserveInv'
<1>1. /\ supply \in Nat /\ IsFiniteSet(free) /\ Cardinality(free) \in Nat /\ MAX_ORDER \in Nat
      /\ OrdersOf(free) \subseteq Orders /\ work \in Works /\ pc = "shrink" /\ supply' = supply
    BY ReserveTypes DEF PageInv, ShrinkSkip, ShrinkCut, ShrinkKeep, ShrinkDone, InLoop
<1>2. PICK w : w = work.order /\ w \in -1 .. MAX_ORDER
    BY <1>1 DEF Works
<1>3. PICK s, f, d : s = supply /\ f = Cardinality(free) /\ d = Cardinality(Above(free, w + 1))
    OBVIOUS
<1>4. Above(free, w + 1) \in SUBSET Orders /\ Above(free, w) \in SUBSET Orders /\ OrdersOf(free) \in SUBSET Orders
    BY <1>1, <1>2 DEF Above
<1>5. /\ d \in Nat /\ IsFiniteSet(Above(free, w)) /\ IsFiniteSet(OrdersOf(free))
      /\ Cardinality(Above(free, w)) \in Nat /\ Cardinality(OrdersOf(free)) \in Nat
    BY <1>3, <1>4, FewOrders
<1>6. Above(free, w + 1) \in SUBSET Above(free, w) /\ Above(free, w + 1) \in SUBSET OrdersOf(free)
    BY <1>1, <1>2 DEF Above
<1>7. d <= Cardinality(Above(free, w)) /\ d <= Cardinality(OrdersOf(free))
    BY <1>3, <1>5, <1>6, FS_Subset
<1>8. work.op # "shrink" => work.target = 0 /\ s - f + d >= MAX_ORDER + 1
    BY <1>1, <1>2, <1>3 DEF ReserveInv, total_free_objects, FREELIST_EXPANSION_THRESHOLD
<1>9. CASE ShrinkSkip
  <2>1. free' = free /\ pc' = "shrink" /\ work' = [work EXCEPT !.order = @ - 1]
      BY <1>9 DEF ShrinkSkip, InLoop
  <2>2. work'.op = work.op /\ work'.target = work.target /\ work'.order + 1 = w
      BY <1>1, <1>2, <2>1 DEF Works
  <2>3. work.op # "shrink" =>
          (total_free_objects)' + Cardinality(Above(free', work'.order + 1)) >= FREELIST_EXPANSION_THRESHOLD
    <3>1. (total_free_objects)' = s - f /\ Above(free', work'.order + 1) = Above(free, w)
        BY <1>1, <1>3, <2>1, <2>2 DEF total_free_objects
    <3>2. s - f \in Int
        BY <1>1, <1>3
    <3> QED
        BY <1>1, <1>5, <1>7, <1>8, <3>1, <3>2 DEF FREELIST_EXPANSION_THRESHOLD
  <2> QED
      BY <1>1, <1>8, <2>1, <2>2, <2>3 DEF ReserveInv
<1>10. CASE ShrinkDone
  <2>1. free' = free /\ pc' = "check" /\ work' = work
      BY <1>10 DEF ShrinkDone
  <2>2. work.op # "shrink" =>
          (total_free_objects)' + Cardinality(OrdersOf(free')) >= FREELIST_EXPANSION_THRESHOLD
    <3>1. (total_free_objects)' = s - f /\ free' = free
        BY <1>1, <1>3, <2>1 DEF total_free_objects
    <3>2. s - f \in Int
        BY <1>1, <1>3
    <3> QED
        BY <1>1, <1>5, <1>7, <1>8, <3>1, <3>2 DEF FREELIST_EXPANSION_THRESHOLD
  <2> QED
      BY <1>1, <2>1, <2>2 DEF ReserveInv
<1>11. CASE ShrinkCut \/ ShrinkKeep
  <2>1. PICK x, n, t, k : LoopAt(x, n, t, k)
      BY <1>11, LoopFacts DEF ShrinkCut, ShrinkKeep
  <2>2. t \in Nat /\ work.target = t /\ work.order = k /\ k \in Orders /\ Size(k) \in Nat \ {0}
      BY <2>1 DEF LoopAt
  <2>3. t # 0
      BY <1>11, <2>2 DEF ShrinkCut, ShrinkKeep
  <2>4. work.op = "shrink"
      BY <1>8, <2>2, <2>3
  <2>5. work'.op = "shrink"
    <3>1. \E u : Advance(u)
        BY <1>11 DEF ShrinkCut, ShrinkKeep
    <3> QED
        BY <1>1, <2>4, <3>1 DEF Advance, Works
  <2>6. CASE ShrinkKeep
    <3>1. free' = free /\ pc' = "shrink"
        BY <2>6 DEF ShrinkKeep, InLoop
    <3> QED
        BY <1>1, <2>5, <3>1 DEF ReserveInv
  <2>7. CASE ShrinkCut
    <3>1. SetFree(free \cup ShrinkRest(x, k, t), "shrink")
        BY <2>1, <2>2, <2>7 DEF ShrinkCut, LoopAt
    <3>2. IsFiniteSet(free \cup ShrinkRest(x, k, t))
      <4>1. Ladder(ShrinkRest(x, k, t))
        <5>1. Good(Block(0, k)) /\ k <= Block(0, k).order
          <6>1. Mult(0, Size(k)) /\ k \in Nat
              BY <2>2, SizeFacts DEF Mult, Orders
          <6> QED
              BY <2>2, <6>1, GoodBlock DEF Block
        <5>2. PICK P : P = SplitRest(Block(0, k), k) \cup ShrinkRest(x, k, t)
            OBVIOUS
        <5>3. Ladder(P)
            BY <2>2, <5>1, <5>2, PiecesLadder
        <5> QED
            BY <5>2, <5>3 DEF Ladder, OrdersOf
      <4>2. IsFiniteSet(ShrinkRest(x, k, t))
          BY <4>1, LadderCount
      <4> QED
          BY <1>1, <4>2, UnionCount
    <3>3. IsFiniteSet(free') /\ pc' \in {"shrink", "exhausted"}
        BY <1>1, <3>1, <3>2 DEF SetFree
    <3> QED
        BY <2>5, <3>3 DEF ReserveInv
  <2> QED
      BY <1>11, <2>6, <2>7
<1> QED
    BY <1>9, <1>10, <1>11

LEMMA InitReserve == Init => ReserveInv
<1> SUFFICES ASSUME Init PROVE ReserveInv
    OBVIOUS
<1>1. PICK s, m, M : s = Size(MAX_ORDER) /\ m = MAX_ORDER /\ M = MaxBlocks
    OBVIOUS
<1>2. m \in Nat /\ M \in Nat \ {0} /\ EarlyEntries \in Nat /\ EarlyEntries >= M + (m + 1)
    BY <1>1, PhysAllocAssumption DEF FREELIST_EXPANSION_THRESHOLD
<1>3. PICK J, f : J = 0 .. (M - 1) /\ f = [i \in J |-> Block(i * s, m)]
    OBVIOUS
<1>4. f \in Surjection(J, free)
  <2>1. free = {Block(i * s, m) : i \in J}
      BY <1>1, <1>3 DEF Init
  <2>2. f \in [J -> free] /\ \A b \in free : \E i \in J : f[i] = b
      BY <1>3, <2>1
  <2> QED
      BY <2>2 DEF Surjection
<1>5. IsFiniteSet(J) /\ Cardinality(J) = M
  <2>1. 0 \in Int /\ M - 1 \in Int
      BY <1>2
  <2>2. IsFiniteSet(J) /\ Cardinality(J) = IF 0 > M - 1 THEN 0 ELSE (M - 1) - 0 + 1
      BY <1>3, <2>1, FS_Interval
  <2> QED
      BY <1>2, <2>2
<1>6. IsFiniteSet(free) /\ Cardinality(free) <= M /\ Cardinality(free) \in Nat
    BY <1>4, <1>5, FS_Surjection, FS_CardinalityType
<1>7. pc = "idle" /\ supply = EarlyEntries
    BY DEF Init
<1>8. total_free_objects >= FREELIST_EXPANSION_THRESHOLD
    BY <1>1, <1>2, <1>6, <1>7 DEF total_free_objects, FREELIST_EXPANSION_THRESHOLD
<1> QED
    BY <1>6, <1>7, <1>8 DEF ReserveInv

LEMMA CallReserve ==
    ASSUME PageInv, CountInv, ReserveInv, Call
    PROVE  ReserveInv'
<1>1. ASSUME NEW n \in Sizes, phys_alloc(n) PROVE ReserveInv'
  <2>1. n \in 1 .. Size(MAX_ORDER) /\ CanTake(n) /\ pc = "idle" /\ supply' = supply
      BY <1>1, PhysAllocAssumption DEF phys_alloc, NewCall
  <2>2. PICK b \in free :
          /\ b.order = SourceOrder(bit_order(n))
          /\ SetFree((free \ {b}) \cup SplitRest(b, bit_order(n))
                        \cup ShrinkRest(AllocatedOffset(b, bit_order(n)), bit_order(n), n), "check")
      BY <1>1 DEF phys_alloc, TakePages
  <2> QED
      BY <2>1, <2>2, TakeReserve
<1>2. ASSUME NEW a \in owned, NEW target, ShrinkStart(a, target) PROVE ReserveInv'
  <2>1. /\ pc = "idle" /\ pc' = "shrink" /\ free' = free /\ supply' = supply
        /\ work' = [addr |-> a.base, size |-> a.size, target |-> target, order |-> bit_order(a.size),
                    op |-> IF target = 0 THEN "free" ELSE "shrink"]
      BY <1>2 DEF ShrinkStart, NewCall
  <2>2. work'.op # "shrink" => work'.target = 0
      BY <2>1
  <2>3. /\ supply \in Nat /\ IsFiniteSet(free) /\ Cardinality(free) \in Nat /\ MAX_ORDER \in Nat
        /\ OrdersOf(free) \subseteq Orders
      BY ReserveTypes
  <2>4. PICK r, e : r = total_free_objects /\ e = Cardinality(Above(free, work'.order + 1))
      OBVIOUS
  <2>5. e \in Nat /\ r \in Int /\ r >= MAX_ORDER + 1
    <3>1. Above(free, work'.order + 1) \in SUBSET Orders
        BY <2>3 DEF Above
    <3>2. e \in Nat
        BY <2>4, <3>1, FewOrders
    <3> QED
        BY <2>1, <2>3, <2>4, <3>2 DEF ReserveInv, total_free_objects, FREELIST_EXPANSION_THRESHOLD
  <2>6. (total_free_objects)' = r /\ Above(free', work'.order + 1) = Above(free, work'.order + 1)
      BY <2>1, <2>4 DEF total_free_objects
  <2>7. (total_free_objects)' + Cardinality(Above(free', work'.order + 1)) >= FREELIST_EXPANSION_THRESHOLD
      BY <2>3, <2>4, <2>5, <2>6 DEF FREELIST_EXPANSION_THRESHOLD
  <2> QED
      BY <2>1, <2>2, <2>3, <2>7 DEF ReserveInv
<1> QED
    BY <1>1, <1>2 DEF Call, phys_free, phys_block_shrink

LEMMA ZoneReserve ==
    ASSUME PageInv, CountInv, ReserveInv, ExpandMapped \/ ExpandUnmapped \/ TableMapped
    PROVE  ReserveInv'
<1>1. PICK n, frames, frame :
        /\ n \in {1, 2} /\ pc \in {"check", "return"} /\ CanTake(n) /\ TakeForZone(n, frames, frame)
        /\ supply' = supply /\ work' = work
  <2>1. CASE ExpandMapped
      BY <2>1 DEF ExpandMapped
  <2>2. CASE ExpandUnmapped
      BY <2>2 DEF ExpandUnmapped
  <2>3. CASE TableMapped
      BY <2>3 DEF TableMapped
  <2> QED
      BY <2>1, <2>2, <2>3
<1>2. PICK b \in free :
        /\ b.order = SourceOrder(bit_order(n))
        /\ SetFree((free \ {b}) \cup SplitRest(b, bit_order(n))
                      \cup ShrinkRest(AllocatedOffset(b, bit_order(n)), bit_order(n), n), "check")
    BY <1>1 DEF TakeForZone, TakePages
<1>3. n \in 1 .. Size(MAX_ORDER)
    BY <1>1, WholeBlocks
<1> QED
    BY <1>1, <1>2, <1>3, TakeReserve

LEMMA NextReserve == PageInv /\ CountInv /\ ReserveInv /\ [Next]_vars => ReserveInv'
<1> SUFFICES ASSUME PageInv, CountInv, ReserveInv, [Next]_vars PROVE ReserveInv'
    OBVIOUS
<1>1. supply \in Nat /\ IsFiniteSet(free) /\ Cardinality(free) \in Nat /\ MAX_ORDER \in Nat
    BY ReserveTypes
<1>2. CASE Enough
  <2>1. pc' = "return" /\ UNCHANGED <<free, supply>> /\ ~(total_free_objects < FREELIST_EXPANSION_THRESHOLD)
      BY <1>2 DEF Enough, Low
  <2>2. (total_free_objects)' >= FREELIST_EXPANSION_THRESHOLD
      BY <1>1, <2>1 DEF total_free_objects, FREELIST_EXPANSION_THRESHOLD
  <2> QED
      BY <1>1, <2>1, <2>2 DEF ReserveInv
<1>3. CASE SlabAdded
  <2>1. pc = "return" /\ pc' = "return" /\ free' = free /\ supply' = supply + PerSlab
      BY <1>3 DEF SlabAdded
  <2>2. (total_free_objects)' >= FREELIST_EXPANSION_THRESHOLD
      BY <1>1, <2>1, Constants DEF ReserveInv, total_free_objects, FREELIST_EXPANSION_THRESHOLD
  <2> QED
      BY <1>1, <2>1, <2>2 DEF ReserveInv
<1>4. CASE Return
  <2>1. pc = "return" /\ pc' = "idle" /\ UNCHANGED <<free, supply>>
      BY <1>4 DEF Return
  <2> QED
      BY <1>1, <2>1 DEF ReserveInv, total_free_objects
<1>5. CASE TableReplaced \/ OutOfMemory
  <2>1. pc' \in {"table_replaced", "out_of_memory"} /\ free' = free
      BY <1>5 DEF TableReplaced, OutOfMemory
  <2> QED
      BY <1>1, <2>1 DEF ReserveInv
<1>6. CASE UNCHANGED vars
  <2>1. UNCHANGED <<free, supply, work, pc>>
      BY <1>6 DEF vars
  <2> QED
      BY <2>1 DEF ReserveInv, total_free_objects, Above, OrdersOf
<1> QED
    BY <1>2, <1>3, <1>4, <1>5, <1>6, FreeReserve, LoopReserve, CallReserve, ZoneReserve DEF Next, Step

(***************************************************************************)
(* The MAX_ORDER + 1 entries that __freespace_check keeps free are enough  *)
(* for every phys_alloc and phys_free, with all the allocations nested in  *)
(* the check: only phys_block_shrink to a positive size can find the       *)
(* freelist cache empty.                                                   *)
(***************************************************************************)
THEOREM ReserveCovers == Spec => []ReserveSuffices
<1>1. ReserveInv => ReserveSuffices
    BY DEF ReserveInv, ReserveSuffices
<1> QED
    BY <1>1, InitCount, NextCount, InitPages, NextPages, InitReserve, NextReserve, PTL DEF Spec

=============================================================================
