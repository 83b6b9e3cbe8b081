--------------------------- MODULE PageAllocProofs ---------------------------
(***************************************************************************)
(* The lock-free page allocator, for any number of processors and any      *)
(* layout of the general region: every page has one owner, no update of a  *)
(* reference count is lost, and no page is lost.                           *)
(*                                                                         *)
(* Where pages come back to the list while several processors allocate,    *)
(* the compare-and-swap of pfa_alloc_page can succeed on a head whose      *)
(* successor has changed (the head is only compared by its address), and   *)
(* none of this holds.  The theorems therefore assume SafeRole: no page    *)
(* comes back, which is how the code is wired, or one processor            *)
(* allocates.                                                              *)
(*                                                                         *)
(* The inductive invariant IInv adds to the properties what the loops rely *)
(* on between two steps: no page is on the list twice (Once), the page an  *)
(* allocation has seen is on the list with the successor it has read       *)
(* (AllocInv), and who counts the first reference or frees a page is alone *)
(* with it (OwnInv).  The list is the function walk; ListLemmas has what   *)
(* linking and unlinking a page does to it.                                *)
(***************************************************************************)
EXTENDS PageAlloc, ListLemmas

Links == Pages \cup {NULL}

LEMMA Start ==
    /\ buddy_start \in Nat /\ buddy_start >= last_kernel_page + 1
    /\ last_kernel_page \in Nat /\ DMA_ZONE_BEGIN \in Nat /\ DMA_ZONE_BEGIN >= 2
    /\ DMA_ZONE_BEGIN <= last_kernel_page
<1> DEFINE a == last_kernel_page + BlockPages
           q == a \div BlockPages
           r == a % BlockPages
<1>1. last_kernel_page \in Nat /\ BlockPages \in Nat \ {0} /\ a \in Nat
    BY PageAllocAssumption
<1>2. q \in Nat /\ r \in 0 .. (BlockPages - 1) /\ a = BlockPages * q + r
    BY <1>1
<1>3. buddy_start = q * BlockPages
    BY DEF buddy_start
<1>4. a = last_kernel_page + BlockPages
    OBVIOUS
<1> HIDE DEF a, q, r
<1>5. q * BlockPages = BlockPages * q /\ q * BlockPages \in Nat
    BY <1>1, <1>2
<1>6. buddy_start = a - r /\ buddy_start \in Nat
    BY <1>1, <1>2, <1>3, <1>5
<1> QED
    BY <1>1, <1>2, <1>4, <1>6, PageAllocAssumption

(* There are as many pages as places on the walk. *)
LEMMA PageCount ==
    /\ buddy_start \in Nat \ {0} /\ NULL \notin Pages /\ Links = Pages \cup {NULL}
    /\ IsFiniteSet(Pages) /\ Cardinality(Pages) = buddy_start
<1>1. buddy_start \in Nat \ {0} /\ NULL \notin Pages
    BY Start DEF Pages, NULL
<1>2. 1 \in Int /\ buddy_start \in Int
    BY <1>1
<1>3. /\ IsFiniteSet(1 .. buddy_start)
      /\ Cardinality(1 .. buddy_start) = IF 1 > buddy_start THEN 0 ELSE buddy_start - 1 + 1
    BY <1>2, FS_Interval
<1> QED
    BY <1>1, <1>3 DEF Pages, Links

(* walk follows the pointers of its state. *)
LEMMA TheWalk ==
    /\ TypeOK => Follows(walk, head, next, Pages, NULL, buddy_start)
    /\ TypeOK' => Follows(walk', head', next', Pages, NULL, buddy_start)
<1>1. /\ walk = CHOOSE w : w = WalkBody(w, head, next, NULL, buddy_start)
      /\ walk' = CHOOSE w : w = WalkBody(w, head', next', NULL, buddy_start)
    BY DEF walk, WalkBody
<1>2. ASSUME TypeOK PROVE Follows(walk, head, next, Pages, NULL, buddy_start)
  <2>1. head \in Pages \cup {NULL} /\ next \in [Pages -> Pages \cup {NULL}]
      BY <1>2 DEF TypeOK
  <2> QED
      BY <1>1, <2>1, PageCount, WalkFollows
<1>3. ASSUME TypeOK' PROVE Follows(walk', head', next', Pages, NULL, buddy_start)
  <2>1. head' \in Pages \cup {NULL} /\ next' \in [Pages -> Pages \cup {NULL}]
      BY <1>3 DEF TypeOK
  <2> QED
      BY <1>1, <2>1, PageCount, WalkFollows
<1> QED
    BY <1>2, <1>3

-----------------------------------------------------------------------------
(***************************************************************************)
(* The inductive invariant.                                                *)
(***************************************************************************)

Allocating == {"alloc_next", "alloc_swap"}
Counting == {"increment", "increment_swap"}
Dropping == {"decrement", "decrement_swap"}
Freeing == {"free", "free_link", "free_swap"}
Working == Counting \cup Dropping \cup Freeing

(***************************************************************************)
(* At l, what a processor has seen is a pointer where it is used as one,   *)
(* and a pointer that is followed points to a page.                        *)
(***************************************************************************)
Local(l, s, g) ==
    /\ l \in Allocating \cup {"free_link", "free_swap"} => s \in Links
    /\ l = "alloc_swap" => s \in Pages
    /\ l \in Working => g.num \in Pages

TypeInv == TypeOK /\ \A c \in Cpus : Local(pc[c], seen[c], page[c])

(***************************************************************************)
(* The list is safe from a page that comes back while its successor is     *)
(* being read: no page comes back, or only one processor allocates.        *)
(***************************************************************************)
SafeRole == role.frees => \A c, d \in role.allocators : c = d

WorksOn(c, p) == pc[c] \in Working /\ page[c].num = p

Untouched(p) == \A c \in Cpus : p \notin refs[c] /\ ~WorksOn(c, p)

(* c works on p, and nobody else has p or works on it. *)
Alone(c, p) == \A e \in Cpus : p \notin refs[e] /\ (e # c => ~WorksOn(e, p))

ListInv ==
    /\ Stops(walk, NULL, buddy_start)
    /\ Once(walk, NULL, buddy_start)
    /\ \A p \in Listed : Untouched(p)

(***************************************************************************)
(* Where pages come back the page an allocation has read as the head stays *)
(* on the list, and the successor it has read is still its successor.      *)
(***************************************************************************)
AllocInv ==
    \A c \in Cpus :
        /\ pc[c] \in Allocating =>
              c \in role.allocators /\ (role.frees /\ seen[c] # NULL => seen[c] \in Listed)
        /\ pc[c] = "alloc_swap" => link[c] = next[seen[c]]

(***************************************************************************)
(* Who counts a reference for d either has one itself, or has just taken   *)
(* the page off the list; who frees a page is alone with it.               *)
(***************************************************************************)
Receives(c, d) ==
    /\ page[c].to = {d}
    /\ page[c].num \notin refs[d]
    /\ page[c].num \in refs[c] \/ (d = c /\ Alone(c, page[c].num))

OwnInv ==
    \A c \in Cpus :
        /\ pc[c] \in Counting => \E d \in Cpus : Receives(c, d)
        /\ pc[c] \in Freeing => role.frees /\ Alone(c, page[c].num)
        /\ pc[c] = "free_swap" => next[page[c].num] = seen[c]
        /\ \A e \in Cpus : c # e /\ pc[c] \in Counting /\ pc[e] \in Counting => page[c] # page[e]

IInv == TypeInv /\ SafeRole /\ ListInv /\ AllocInv /\ OwnInv /\ CountsReferences

-----------------------------------------------------------------------------
(***************************************************************************)
(* Type correctness, whatever the processors do.                           *)
(***************************************************************************)

Labels == Ends \cup Allocating \cup Working

LEMMA TypeParts ==
    ASSUME TypeInv
    PROVE  /\ head \in Links /\ next \in [Pages -> Links] /\ refcount \in [Pages -> 0 .. (RefMod - 1)]
           /\ refs \in [Cpus -> SUBSET Pages] /\ pc \in [Cpus -> Labels] /\ seen \in [Cpus -> Nat]
           /\ link \in [Cpus -> Links] /\ page \in [Cpus -> [num : Links, to : SUBSET Cpus]]
           /\ role \in Roles
<1>1. Labels = Ends \cup {"alloc_next", "alloc_swap", "increment", "increment_swap",
                  "decrement", "decrement_swap", "free", "free_link", "free_swap"}
    BY DEF Labels, Allocating, Working, Counting, Dropping, Freeing
<1> QED
    BY <1>1 DEF TypeInv, TypeOK, Links

LEMMA LinksNat == Links \subseteq Nat /\ NULL \in Links /\ NULL \notin Pages /\ Pages \subseteq Links
BY Start DEF Links, Pages, NULL

(* What a step of c has to keep, to keep the types. *)
LEMMA StepTypes ==
    ASSUME TypeInv, NEW c \in Cpus, role' = role,
           head' \in Links, next' \in [Pages -> Links], refcount' \in [Pages -> 0 .. (RefMod - 1)],
           refs' \in [Cpus -> SUBSET Pages], NEW l \in Labels, pc' = [pc EXCEPT ![c] = l],
           NEW s \in Nat, seen' = [seen EXCEPT ![c] = s],
           NEW k \in Links, link' = [link EXCEPT ![c] = k],
           NEW g \in [num : Links, to : SUBSET Cpus], page' = [page EXCEPT ![c] = g],
           Local(l, s, g)
    PROVE  TypeInv'
<1>1. /\ pc \in [Cpus -> Labels] /\ seen \in [Cpus -> Nat]
      /\ link \in [Cpus -> Links] /\ page \in [Cpus -> [num : Links, to : SUBSET Cpus]] /\ role \in Roles
    BY TypeParts
<1>2. /\ pc' \in [Cpus -> Labels] /\ seen' \in [Cpus -> Nat]
      /\ link' \in [Cpus -> Links] /\ page' \in [Cpus -> [num : Links, to : SUBSET Cpus]]
    BY <1>1
<1>3. Labels = Ends \cup {"alloc_next", "alloc_swap", "increment", "increment_swap",
                  "decrement", "decrement_swap", "free", "free_link", "free_swap"}
    BY DEF Labels, Allocating, Working, Counting, Dropping, Freeing
<1>4. TypeOK'
    BY <1>1, <1>2, <1>3 DEF TypeOK, Links
<1>5. ASSUME NEW e \in Cpus
      PROVE  Local(pc'[e], seen'[e], page'[e])
  <2>1. CASE e = c
    <3>1. pc'[e] = l /\ seen'[e] = s /\ page'[e] = g
        BY <2>1, <1>1
    <3> QED
        BY <3>1
  <2>2. CASE e # c
    <3>1. pc'[e] = pc[e] /\ seen'[e] = seen[e] /\ page'[e] = page[e]
        BY <2>2, <1>1
    <3> QED
        BY <3>1 DEF TypeInv
  <2> QED
      BY <2>1, <2>2
<1> QED
    BY <1>4, <1>5 DEF TypeInv

(* Nothing of c is written: its entry is what it was. *)
LEMMA Kept ==
    ASSUME TypeInv, NEW c \in Cpus
    PROVE  /\ pc[c] \in Labels /\ pc = [pc EXCEPT ![c] = pc[c]]
           /\ seen[c] \in Nat /\ seen = [seen EXCEPT ![c] = seen[c]]
           /\ link[c] \in Links /\ link = [link EXCEPT ![c] = link[c]]
           /\ page[c] \in [num : Links, to : SUBSET Cpus] /\ page = [page EXCEPT ![c] = page[c]]
<1>1. /\ pc \in [Cpus -> Labels] /\ seen \in [Cpus -> Nat]
      /\ link \in [Cpus -> Links] /\ page \in [Cpus -> [num : Links, to : SUBSET Cpus]]
    BY TypeParts
<1> QED
    BY <1>1

LEMMA LabelFacts ==
    /\ Ends \subseteq Labels /\ Allocating \subseteq Labels /\ Working \subseteq Labels
    /\ \A l \in Ends : l \notin Allocating /\ l \notin Working
    /\ \A l \in Allocating : l \notin Working
    /\ Ends = {"idle", "null_head"}
    /\ Allocating = {"alloc_next", "alloc_swap"}
    /\ Working = {"increment", "increment_swap", "decrement", "decrement_swap", "free", "free_link", "free_swap"}
BY DEF Ends, Allocating, Working, Counting, Dropping, Freeing, Labels

LEMMA IdleType == Idle \in [num : Links, to : SUBSET Cpus]
BY LinksNat DEF Idle

LEMMA ReturnTypes ==
    ASSUME TypeInv, NEW c \in Cpus, Return(c), role' = role,
           head' \in Links, next' \in [Pages -> Links], refcount' \in [Pages -> 0 .. (RefMod - 1)],
           refs' \in [Cpus -> SUBSET Pages]
    PROVE  TypeInv'
<1>1. /\ pc' = [pc EXCEPT ![c] = "idle"] /\ seen' = [seen EXCEPT ![c] = NULL]
      /\ link' = [link EXCEPT ![c] = NULL] /\ page' = [page EXCEPT ![c] = Idle]
    BY DEF Return, Goto, See
<1>2. "idle" \in Labels /\ Local("idle", NULL, Idle) /\ NULL \in Nat /\ NULL \in Links
    BY LabelFacts, LinksNat DEF Local
<1> QED
    BY <1>1, <1>2, IdleType, StepTypes

LEMMA AllocTypes ==
    ASSUME TypeInv, NEW c \in Cpus,
           AllocStart(c) \/ AllocNext(c) \/ AllocNullHead(c) \/ AllocSwap(c) \/ AllocRetry(c)
    PROVE  TypeInv'
<1>1. /\ head \in Links /\ next \in [Pages -> Links] /\ refcount \in [Pages -> 0 .. (RefMod - 1)]
      /\ refs \in [Cpus -> SUBSET Pages] /\ head \in Nat
    BY TypeParts, LinksNat
<1>2. CASE AllocStart(c) \/ AllocRetry(c)
  <2>1. /\ pc' = [pc EXCEPT ![c] = "alloc_next"] /\ seen' = [seen EXCEPT ![c] = head]
        /\ UNCHANGED <<role, head, next, refcount, refs, link, page>>
      BY <1>2 DEF AllocStart, AllocRetry, Goto, See
  <2>2. "alloc_next" \in Labels /\ Local("alloc_next", head, page[c])
      BY <1>1, LabelFacts DEF Local
  <2> QED
      BY <1>1, <2>1, <2>2, Kept, StepTypes
<1>3. CASE AllocNext(c)
  <2>1. /\ pc' = [pc EXCEPT ![c] = "alloc_swap"] /\ link' = [link EXCEPT ![c] = next[seen[c]]]
        /\ UNCHANGED <<role, head, next, refcount, refs, seen, page>>
        /\ seen[c] # NULL /\ pc[c] = "alloc_next"
      BY <1>3 DEF AllocNext, Goto
  <2>2. "alloc_swap" \in Labels /\ "alloc_swap" \notin Working /\ pc[c] \in Allocating
      BY <2>1, LabelFacts
  <2>3. seen[c] \in Pages /\ seen[c] \in Links /\ next[seen[c]] \in Links
      BY <1>1, <2>1, <2>2 DEF TypeInv, Local, Links
  <2>4. Local("alloc_swap", seen[c], page[c])
      BY <2>2, <2>3 DEF Local
  <2> QED
      BY <1>1, <2>1, <2>2, <2>3, <2>4, Kept, StepTypes
<1>4. CASE AllocNullHead(c)
  <2>1. /\ pc' = [pc EXCEPT ![c] = "null_head"]
        /\ UNCHANGED <<role, head, next, refcount, refs, seen, link, page>>
      BY <1>4 DEF AllocNullHead, Goto
  <2>2. "null_head" \in Labels /\ Local("null_head", seen[c], page[c])
      BY LabelFacts DEF Local
  <2> QED
      BY <1>1, <2>1, <2>2, Kept, StepTypes
<1>5. CASE AllocSwap(c)
  <2> DEFINE g == [num |-> seen[c], to |-> {c}]
  <2>1. /\ pc' = [pc EXCEPT ![c] = "increment"] /\ link' = [link EXCEPT ![c] = NULL] /\ head' = link[c]
        /\ page' = [page EXCEPT ![c] = g] /\ pc[c] = "alloc_swap"
        /\ UNCHANGED <<role, next, refcount, refs, seen>>
      BY <1>5 DEF AllocSwap, Goto
  <2>2. "increment" \in Labels
      BY LabelFacts
  <2>3. seen[c] \in Pages /\ link[c] \in Links
      BY <2>1, Kept DEF TypeInv, Local
  <2>4. g \in [num : Links, to : SUBSET Cpus] /\ g.num \in Pages
      BY <2>3, LinksNat
  <2>5. Local("increment", seen[c], g)
      BY <2>4, LabelFacts DEF Local
  <2> HIDE DEF g
  <2> QED
      BY <1>1, <2>1, <2>2, <2>3, <2>4, <2>5, LinksNat, Kept, StepTypes
<1> QED
    BY <1>2, <1>3, <1>4, <1>5

LEMMA CountTypes ==
    ASSUME TypeInv, NEW c \in Cpus,
           \/ \E p \in refs[c], d \in Cpus : Reference(c, p, d)
           \/ \E p \in refs[c] : drop_page_reference(c, p)
           \/ CountRead(c) \/ CountRetry(c) \/ IncrementSwap(c) \/ DecrementSwap(c)
    PROVE  TypeInv'
<1>1. /\ head \in Links /\ next \in [Pages -> Links] /\ refcount \in [Pages -> 0 .. (RefMod - 1)]
      /\ refs \in [Cpus -> SUBSET Pages] /\ page \in [Cpus -> [num : Links, to : SUBSET Cpus]]
    BY TypeParts
<1>2. ASSUME NEW p \in refs[c], NEW d \in Cpus, Reference(c, p, d) PROVE TypeInv'
  <2> DEFINE g == [num |-> p, to |-> {d}]
  <2>1. /\ pc' = [pc EXCEPT ![c] = "increment"] /\ page' = [page EXCEPT ![c] = g]
        /\ UNCHANGED <<role, head, next, refcount, refs, seen, link>>
      BY <1>2 DEF Reference, Goto
  <2>2. "increment" \in Labels
      BY LabelFacts
  <2>3. p \in Pages
      BY <1>1
  <2>4. g \in [num : Links, to : SUBSET Cpus] /\ g.num \in Pages
      BY <2>3, LinksNat
  <2>5. Local("increment", seen[c], g)
      BY <2>4, LabelFacts DEF Local
  <2> HIDE DEF g
  <2> QED
      BY <1>1, <2>1, <2>2, <2>4, <2>5, Kept, StepTypes
<1>3. ASSUME NEW p \in refs[c], drop_page_reference(c, p) PROVE TypeInv'
  <2> DEFINE g == [num |-> p, to |-> {}]
  <2>1. /\ pc' = [pc EXCEPT ![c] = "decrement"] /\ page' = [page EXCEPT ![c] = g]
        /\ refs' = [refs EXCEPT ![c] = @ \ {p}]
        /\ UNCHANGED <<role, head, next, refcount, seen, link>>
      BY <1>3 DEF drop_page_reference, Goto
  <2>2. "decrement" \in Labels
      BY LabelFacts
  <2>3. p \in Pages /\ refs' \in [Cpus -> SUBSET Pages]
      BY <1>1, <2>1
  <2>4. g \in [num : Links, to : SUBSET Cpus] /\ g.num \in Pages
      BY <2>3, LinksNat
  <2>5. Local("decrement", seen[c], g)
      BY <2>4, LabelFacts DEF Local
  <2> HIDE DEF g
  <2> QED
      BY <1>1, <2>1, <2>2, <2>3, <2>4, <2>5, Kept, StepTypes
<1>4. CASE CountRead(c) \/ CountRetry(c)
  <2>1. /\ seen' = [seen EXCEPT ![c] = refcount[page[c].num]]
        /\ UNCHANGED <<role, head, next, refcount, refs, link, page>>
        /\ pc[c] \in Working
      BY <1>4, LabelFacts DEF CountRead, CountRetry, See
  <2>2. page[c].num \in Pages
      BY <2>1 DEF TypeInv, Local
  <2>3. refcount[page[c].num] \in Nat
    <3>1. refcount[page[c].num] \in 0 .. (RefMod - 1)
        BY <1>1, <2>2
    <3> QED
        BY <3>1
  <2>4. PICK l \in Counting \cup Dropping : pc' = [pc EXCEPT ![c] = l] /\ l \in Labels
      BY <1>4, Kept, LabelFacts DEF CountRead, CountRetry, Goto, Counting, Dropping
  <2>5. Local(l, refcount[page[c].num], page[c])
      BY <2>2, <2>4, LabelFacts DEF Local, Counting, Dropping
  <2> QED
      BY <1>1, <2>1, <2>2, <2>3, <2>4, <2>5, Kept, StepTypes
<1>5. RefMod \in Nat \ {0} /\ \A x \in Int : x % RefMod \in 0 .. (RefMod - 1)
    BY PageAllocAssumption
<1>6. CASE IncrementSwap(c)
  <2>1. /\ refcount' = [refcount EXCEPT ![page[c].num] = (@ + 1) % RefMod] /\ Return(c)
        /\ refs' = [d \in Cpus |-> IF d \in page[c].to THEN refs[d] \cup {page[c].num} ELSE refs[d]]
        /\ UNCHANGED <<role, head, next>> /\ pc[c] \in Working
      BY <1>6, LabelFacts DEF IncrementSwap
  <2>2. page[c].num \in Pages
      BY <2>1 DEF TypeInv, Local
  <2>3. refs' \in [Cpus -> SUBSET Pages]
      BY <1>1, <2>1, <2>2
  <2>4. refcount' \in [Pages -> 0 .. (RefMod - 1)]
    <3>1. refcount[page[c].num] + 1 \in Int
        BY <1>1, <1>5, <2>2
    <3>2. (refcount[page[c].num] + 1) % RefMod \in 0 .. (RefMod - 1)
        BY <1>5, <3>1
    <3> QED
        BY <1>1, <2>1, <3>2
  <2> QED
      BY <1>1, <2>1, <2>3, <2>4, ReturnTypes
<1>7. CASE DecrementSwap(c)
  <2>1. /\ refcount' = [refcount EXCEPT ![page[c].num] = (@ - 1) % RefMod]
        /\ UNCHANGED <<role, head, next, refs>> /\ pc[c] \in Working
      BY <1>7, LabelFacts DEF DecrementSwap
  <2>2. page[c].num \in Pages
      BY <2>1 DEF TypeInv, Local
  <2>3. refcount' \in [Pages -> 0 .. (RefMod - 1)]
    <3>1. refcount[page[c].num] - 1 \in Int
        BY <1>1, <1>5, <2>2
    <3>2. (refcount[page[c].num] - 1) % RefMod \in 0 .. (RefMod - 1)
        BY <1>5, <3>1
    <3> QED
        BY <1>1, <2>1, <3>2
  <2>4. CASE Return(c)
      BY <1>1, <2>1, <2>3, <2>4, ReturnTypes
  <2>5. CASE ~Return(c)
    <3>1. /\ pc' = [pc EXCEPT ![c] = "free"] /\ seen' = [seen EXCEPT ![c] = NULL]
          /\ UNCHANGED <<link, page>>
        BY <1>7, <2>5 DEF DecrementSwap, Goto, See
    <3>2. "free" \in Labels /\ NULL \in Nat /\ Local("free", NULL, page[c])
        BY <2>2, LabelFacts, LinksNat DEF Local
    <3> QED
        BY <1>1, <2>1, <2>2, <2>3, <3>1, <3>2, Kept, StepTypes
  <2> QED
      BY <2>4, <2>5
<1> QED
    BY <1>2, <1>3, <1>4, <1>6, <1>7

LEMMA FreeTypes ==
    ASSUME TypeInv, NEW c \in Cpus, FreeStart(c) \/ FreeLink(c) \/ FreeSwap(c) \/ FreeRetry(c)
    PROVE  TypeInv'
<1>1. /\ head \in Links /\ next \in [Pages -> Links] /\ refcount \in [Pages -> 0 .. (RefMod - 1)]
      /\ refs \in [Cpus -> SUBSET Pages] /\ head \in Nat
    BY TypeParts, LinksNat
<1>2. pc[c] \in Working /\ page[c].num \in Pages /\ page[c].num \in Links
  <2>1. pc[c] \in Working
      BY LabelFacts DEF FreeStart, FreeLink, FreeSwap, FreeRetry
  <2> QED
      BY <2>1, LinksNat DEF TypeInv, Local
<1>3. CASE FreeStart(c) \/ FreeRetry(c)
  <2>1. /\ pc' = [pc EXCEPT ![c] = "free_link"] /\ seen' = [seen EXCEPT ![c] = head]
        /\ UNCHANGED <<role, head, next, refcount, refs, link, page>>
      BY <1>3 DEF FreeStart, FreeRetry, Goto, See
  <2>2. "free_link" \in Labels /\ Local("free_link", head, page[c])
      BY <1>1, <1>2, LabelFacts DEF Local
  <2> QED
      BY <1>1, <1>2, <2>1, <2>2, Kept, StepTypes
<1>4. CASE FreeLink(c)
  <2>1. /\ pc' = [pc EXCEPT ![c] = "free_swap"] /\ next' = [next EXCEPT ![page[c].num] = seen[c]]
        /\ UNCHANGED <<role, head, refcount, refs, seen, link, page>> /\ pc[c] = "free_link"
      BY <1>4 DEF FreeLink, Goto
  <2>2. seen[c] \in Links
      BY <2>1 DEF TypeInv, Local
  <2>3. next' \in [Pages -> Links] /\ "free_swap" \in Labels /\ Local("free_swap", seen[c], page[c])
      BY <1>1, <1>2, <2>1, <2>2, LabelFacts DEF Local
  <2> QED
      BY <1>1, <1>2, <2>1, <2>2, <2>3, Kept, StepTypes
<1>5. CASE FreeSwap(c)
  <2>1. head' = page[c].num /\ Return(c) /\ UNCHANGED <<role, next, refcount, refs>>
      BY <1>5 DEF FreeSwap
  <2> QED
      BY <1>1, <1>2, <2>1, ReturnTypes
<1> QED
    BY <1>3, <1>4, <1>5

LEMMA InitialLinks == InitialNext \in [Pages -> Links] /\ 1 \in Pages /\ buddy_start \in Pages
<1>1. ASSUME NEW p \in Pages
      PROVE  (IF p = DMA_ZONE_BEGIN - 1
              THEN IF UpperPages = {} THEN NULL ELSE last_kernel_page + 1
              ELSE IF p \in LowPages \cup UpperPages THEN p + 1 ELSE NULL) \in Links
  <2>1. last_kernel_page + 1 \in Pages
      BY Start DEF Pages
  <2>2. p \in LowPages \cup UpperPages => p + 1 \in Pages
      BY Start DEF Pages, LowPages, UpperPages
  <2> QED
      BY <2>1, <2>2, LinksNat
<1> QED
    BY <1>1, Start DEF InitialNext, Pages

LEMMA InitTypes == Init => TypeInv
<1> SUFFICES ASSUME Init PROVE TypeInv
    OBVIOUS
<1>1. /\ role \in Roles /\ head = 1 /\ next = InitialNext /\ refcount = [p \in Pages |-> 0]
      /\ refs = [c \in Cpus |-> {}] /\ pc = [c \in Cpus |-> "idle"] /\ seen = [c \in Cpus |-> NULL]
      /\ link = [c \in Cpus |-> NULL] /\ page = [c \in Cpus |-> Idle]
    BY DEF Init
<1>2. 0 \in 0 .. (RefMod - 1)
    BY PageAllocAssumption
<1>3. TypeOK
    BY <1>1, <1>2, InitialLinks, LinksNat, IdleType DEF TypeOK, Links, Ends
<1>4. \A c \in Cpus : Local(pc[c], seen[c], page[c])
    BY <1>1, LabelFacts DEF Local
<1> QED
    BY <1>3, <1>4 DEF TypeInv

LEMMA NextTypes == TypeInv /\ [Next]_vars => TypeInv'
<1> SUFFICES ASSUME TypeInv, [Next]_vars PROVE TypeInv'
    OBVIOUS
<1>1. CASE Next
  <2>1. PICK c \in Cpus : Call(c) \/ Running(c)
      BY <1>1 DEF Next
  <2> QED
      BY <2>1, AllocTypes, CountTypes, FreeTypes DEF Call, Running
<1>2. CASE UNCHANGED vars
    BY <1>2 DEF vars, TypeInv, TypeOK
<1> QED
    BY <1>1, <1>2

LEMMA TypeInvariance == Spec => []TypeInv
<1> QED
    BY InitTypes, NextTypes, PTL DEF Spec

(***************************************************************************)
(* However the processors interleave, every pointer of the list and of the *)
(* running loops points into the page map, and the counts keep their       *)
(* width; no condition on who allocates and who frees is needed.           *)
(***************************************************************************)
THEOREM TypeCorrect == Spec => []TypeOK
<1>1. TypeInv => TypeOK
    BY DEF TypeInv
<1> QED
    BY <1>1, TypeInvariance, PTL

-----------------------------------------------------------------------------
(***************************************************************************)
(* Steps that neither hand a page over nor count a reference.              *)
(***************************************************************************)

Holders(p) == {c \in Cpus : p \in refs[c]}
Droppers(p) == {c \in Cpus : pc[c] \in Dropping /\ page[c].num = p}

LEMMA CountsAs ==
    /\ CountsReferences <=> \A p \in Pages : refcount[p] = Cardinality(Holders(p)) + Cardinality(Droppers(p))
    /\ CountsReferences' <=> \A p \in Pages : refcount'[p] = Cardinality(Holders(p)') + Cardinality(Droppers(p)')
BY DEF CountsReferences, Holders, Droppers, Dropping

LEMMA ListedMet == Listed = Met(walk, NULL, buddy_start) /\ Listed' = Met(walk', NULL, buddy_start)
BY DEF Listed, Met

(* Nobody starts or ends working on a page. *)
SameWork ==
    \A e \in Cpus :
        /\ pc'[e] \in Counting <=> pc[e] \in Counting
        /\ pc'[e] \in Dropping <=> pc[e] \in Dropping
        /\ pc'[e] \in Freeing <=> pc[e] \in Freeing

LEMMA SameWorkFacts ==
    ASSUME SameWork, page' = page, refs' = refs
    PROVE  /\ \A p : Untouched(p)' <=> Untouched(p)
           /\ \A c \in Cpus : \A p : Alone(c, p)' <=> Alone(c, p)
           /\ \A c, d \in Cpus : Receives(c, d)' <=> Receives(c, d)
           /\ \A p : Holders(p)' = Holders(p) /\ Droppers(p)' = Droppers(p)
<1>1. \A e \in Cpus : pc'[e] \in Working <=> pc[e] \in Working
    BY DEF SameWork, Working
<1>2. \A e \in Cpus : \A p : WorksOn(e, p)' <=> WorksOn(e, p)
    BY <1>1 DEF WorksOn
<1>3. \A p : Untouched(p)' <=> Untouched(p)
    BY <1>2 DEF Untouched
<1>4. \A c \in Cpus : \A p : Alone(c, p)' <=> Alone(c, p)
    BY <1>2 DEF Alone
<1>5. \A c, d \in Cpus : Receives(c, d)' <=> Receives(c, d)
    BY <1>4 DEF Receives
<1>6. \A p : Holders(p)' = Holders(p) /\ Droppers(p)' = Droppers(p)
    BY DEF Holders, Droppers, SameWork
<1> QED
    BY <1>3, <1>4, <1>5, <1>6

(* The list is the same when its head and its pages' pointers are. *)
LEMMA SameList ==
    ASSUME TypeInv, TypeInv', head' = head, \A p \in Listed : next'[p] = next[p]
    PROVE  walk' = walk /\ Listed' = Listed
<1>1. Follows(walk, head, next, Pages, NULL, buddy_start) /\ Follows(walk', head', next', Pages, NULL, buddy_start)
    BY TheWalk DEF TypeInv
<1>2. \A p \in Met(walk, NULL, buddy_start) : next'[p] = next[p]
    BY ListedMet
<1>3. walk' = walk
    BY <1>1, <1>2, SameWalk, PageCount
<1> QED
    BY <1>3, ListedMet

SwapReady == \A c \in Cpus : pc[c] = "free_swap" => next[page[c].num] = seen[c]

LEMMA CarryOn ==
    ASSUME IInv, TypeInv', SameWork, role' = role, refs' = refs, refcount' = refcount,
           page' = page, head' = head, \A p \in Listed : next'[p] = next[p], AllocInv', SwapReady'
    PROVE  IInv'
<1>1. TypeInv /\ SafeRole /\ ListInv /\ OwnInv /\ CountsReferences
    BY DEF IInv
<1>2. walk' = walk /\ Listed' = Listed
    BY <1>1, SameList
<1>3. SafeRole'
    BY <1>1 DEF SafeRole
<1>4. ListInv'
    BY <1>1, <1>2, SameWorkFacts DEF ListInv, Stops, Once
<1>5. OwnInv'
  <2> SUFFICES ASSUME NEW c \in Cpus
               PROVE  /\ pc'[c] \in Counting => \E d \in Cpus : Receives(c, d)'
                      /\ pc'[c] \in Freeing => role'.frees /\ Alone(c, page[c].num)'
                      /\ \A e \in Cpus : c # e /\ pc'[c] \in Counting /\ pc'[e] \in Counting => page[c] # page[e]
      BY DEF OwnInv, SwapReady
  <2>1. pc'[c] \in Counting => \E d \in Cpus : Receives(c, d)'
      BY <1>1, SameWorkFacts DEF OwnInv, SameWork
  <2>2. pc'[c] \in Freeing => role'.frees /\ Alone(c, page[c].num)'
      BY <1>1, SameWorkFacts DEF OwnInv, SameWork
  <2>3. \A e \in Cpus : c # e /\ pc'[c] \in Counting /\ pc'[e] \in Counting => page[c] # page[e]
      BY <1>1 DEF OwnInv, SameWork
  <2> QED
      BY <2>1, <2>2, <2>3
<1>6. CountsReferences'
    BY <1>1, SameWorkFacts, CountsAs
<1> QED
    BY <1>3, <1>4, <1>5, <1>6 DEF IInv

(* Where c is, and what the others are doing meanwhile. *)
LEMMA Moved ==
    ASSUME TypeInv, NEW c \in Cpus, NEW l, pc' = [pc EXCEPT ![c] = l]
    PROVE  pc'[c] = l /\ \A e \in Cpus : e # c => pc'[e] = pc[e]
BY TypeParts

LEMMA SawNew ==
    ASSUME TypeInv, NEW c \in Cpus, NEW s, seen' = [seen EXCEPT ![c] = s]
    PROVE  seen'[c] = s /\ \A e \in Cpus : e # c => seen'[e] = seen[e]
BY TypeParts

LEMMA LinkNew ==
    ASSUME TypeInv, NEW c \in Cpus, NEW k, link' = [link EXCEPT ![c] = k]
    PROVE  link'[c] = k /\ \A e \in Cpus : e # c => link'[e] = link[e]
BY TypeParts

LEMMA PageNew ==
    ASSUME TypeInv, NEW c \in Cpus, NEW g, page' = [page EXCEPT ![c] = g]
    PROVE  page'[c] = g /\ \A e \in Cpus : e # c => page'[e] = page[e]
BY TypeParts

(* The head is on the list. *)
LEMMA HeadListed ==
    ASSUME TypeInv
    PROVE  head # NULL => head \in Listed
<1>1. Follows(walk, head, next, Pages, NULL, buddy_start)
    BY TheWalk DEF TypeInv
<1>2. walk[0] = head /\ 0 \in 0 .. buddy_start
    BY <1>1, Start DEF Follows, Along
<1> QED
    BY <1>2 DEF Listed

LEMMA AllocSteps ==
    ASSUME IInv, TypeInv', NEW c \in Cpus,
           AllocStart(c) \/ AllocNext(c) \/ AllocNullHead(c) \/ AllocRetry(c)
    PROVE  IInv'
<1>1. TypeInv /\ AllocInv /\ OwnInv
    BY DEF IInv
<1>2. UNCHANGED <<role, head, next, refcount, refs, page>>
    BY DEF AllocStart, AllocNext, AllocNullHead, AllocRetry
<1>3. PICK l \in Ends \cup Allocating : pc' = [pc EXCEPT ![c] = l]
    BY LabelFacts DEF AllocStart, AllocNext, AllocNullHead, AllocRetry, Goto
<1>4. pc'[c] = l /\ \A e \in Cpus : e # c => pc'[e] = pc[e]
    BY <1>1, <1>3, Moved
<1>5. pc[c] \in Ends \cup Allocating
    BY LabelFacts DEF AllocStart, AllocNext, AllocNullHead, AllocRetry
<1>6. SameWork
    BY <1>3, <1>4, <1>5 DEF SameWork, Ends, Allocating, Counting, Dropping, Freeing
<1>7. Listed' = Listed
    BY <1>1, <1>2, SameList
<1>8. \A e \in Cpus : e # c => seen'[e] = seen[e] /\ link'[e] = link[e]
  <2>1. \/ seen' = [seen EXCEPT ![c] = head] /\ link' = link
        \/ seen' = seen /\ link' = [link EXCEPT ![c] = next[seen[c]]]
        \/ seen' = seen /\ link' = link
      BY DEF AllocStart, AllocNext, AllocNullHead, AllocRetry, See
  <2> QED
      BY <1>1, <2>1, SawNew, LinkNew
<1>9. /\ pc'[c] \in Allocating =>
            c \in role.allocators /\ (role.frees /\ seen'[c] # NULL => seen'[c] \in Listed)
      /\ pc'[c] = "alloc_swap" => link'[c] = next[seen'[c]]
  <2>1. CASE AllocStart(c) \/ AllocRetry(c)
    <3>1. pc' = [pc EXCEPT ![c] = "alloc_next"] /\ seen' = [seen EXCEPT ![c] = head]
        BY <2>1 DEF AllocStart, AllocRetry, Goto, See
    <3>2. pc'[c] = "alloc_next" /\ seen'[c] = head
        BY <1>1, <3>1, Moved, SawNew
    <3>3. c \in role.allocators
        BY <1>1, <2>1 DEF AllocStart, AllocRetry, AllocInv, Allocating
    <3> QED
        BY <1>1, <3>2, <3>3, HeadListed
  <2>2. CASE AllocNext(c)
    <3>1. /\ pc' = [pc EXCEPT ![c] = "alloc_swap"] /\ seen' = seen
          /\ link' = [link EXCEPT ![c] = next[seen[c]]] /\ pc[c] = "alloc_next"
        BY <2>2 DEF AllocNext, Goto
    <3>2. link'[c] = next[seen[c]]
        BY <1>1, <3>1, LinkNew
    <3> QED
        BY <1>1, <3>1, <3>2 DEF AllocInv, Allocating
  <2>3. CASE AllocNullHead(c)
    <3>1. pc' = [pc EXCEPT ![c] = "null_head"]
        BY <2>3 DEF AllocNullHead, Goto
    <3>2. pc'[c] = "null_head"
        BY <1>1, <3>1, Moved
    <3> QED
        BY <3>2, LabelFacts
  <2> QED
      BY <2>1, <2>2, <2>3
<1>10. AllocInv'
  <2> SUFFICES ASSUME NEW e \in Cpus
               PROVE  /\ pc'[e] \in Allocating =>
                            e \in role.allocators /\ (role.frees /\ seen'[e] # NULL => seen'[e] \in Listed)
                      /\ pc'[e] = "alloc_swap" => link'[e] = next[seen'[e]]
      BY <1>2, <1>7 DEF AllocInv
  <2>1. CASE e = c
      BY <2>1, <1>9
  <2>2. CASE e # c
      BY <2>2, <1>1, <1>4, <1>8 DEF AllocInv
  <2> QED
      BY <2>1, <2>2
<1>11. SwapReady'
  <2> SUFFICES ASSUME NEW e \in Cpus, pc'[e] = "free_swap" PROVE next'[page'[e].num] = seen'[e]
      BY DEF SwapReady
  <2>1. e # c
      BY <1>3, <1>4 DEF Ends, Allocating
  <2> QED
      BY <2>1, <1>1, <1>2, <1>4, <1>8 DEF OwnInv
<1> QED
    BY <1>2, <1>6, <1>10, <1>11, CarryOn

(* An allocation does not notice what others do outside the list. *)
LEMMA AllocKept ==
    ASSUME IInv, NEW c \in Cpus, role' = role, Listed \subseteq Listed', pc'[c] \notin Allocating,
           \A p \in Listed : next'[p] = next[p], ~role.frees => next' = next,
           \A e \in Cpus : e # c => pc'[e] = pc[e] /\ seen'[e] = seen[e] /\ link'[e] = link[e]
    PROVE  AllocInv'
<1>1. AllocInv /\ TypeInv
    BY DEF IInv
<1> SUFFICES ASSUME NEW e \in Cpus
             PROVE  /\ pc'[e] \in Allocating =>
                          e \in role.allocators /\ (role.frees /\ seen'[e] # NULL => seen'[e] \in Listed')
                    /\ pc'[e] = "alloc_swap" => link'[e] = next'[seen'[e]]
    BY DEF AllocInv
<1>2. CASE e = c
    BY <1>2 DEF Allocating
<1>3. CASE e # c
  <2>1. pc'[e] \in Allocating =>
              e \in role.allocators /\ (role.frees /\ seen'[e] # NULL => seen'[e] \in Listed')
      BY <1>1, <1>3 DEF AllocInv
  <2>2. ASSUME pc'[e] = "alloc_swap" PROVE link'[e] = next'[seen'[e]]
    <3>1. pc[e] = "alloc_swap" /\ pc[e] \in Allocating
        BY <1>3, <2>2 DEF Allocating
    <3>2. link[e] = next[seen[e]] /\ seen[e] \in Pages
        BY <1>1, <3>1 DEF AllocInv, TypeInv, Local
    <3>3. next'[seen[e]] = next[seen[e]]
      <4>1. CASE role.frees
        <5>1. seen[e] \in Listed
            BY <4>1, <1>1, <3>1, <3>2, LinksNat DEF AllocInv
        <5> QED
            BY <5>1
      <4>2. CASE ~role.frees
          BY <4>2
      <4> QED
          BY <4>1, <4>2
    <3> QED
        BY <1>3, <3>2, <3>3
  <2> QED
      BY <2>1, <2>2
<1> QED
    BY <1>2, <1>3

LEMMA CountSteps ==
    ASSUME IInv, TypeInv', NEW c \in Cpus, CountRead(c) \/ CountRetry(c) \/ FreeStart(c) \/ FreeRetry(c)
    PROVE  IInv'
<1>1. TypeInv /\ OwnInv
    BY DEF IInv
<1>2. UNCHANGED <<role, head, next, refcount, refs, link, page>>
    BY DEF CountRead, CountRetry, FreeStart, FreeRetry
<1>3. PICK s : seen' = [seen EXCEPT ![c] = s]
    BY DEF CountRead, CountRetry, FreeStart, FreeRetry, See
<1>4. PICK l : /\ pc' = [pc EXCEPT ![c] = l] /\ l # "free_swap"
               /\ \/ l \in Counting /\ pc[c] \in Counting
                  \/ l \in Dropping /\ pc[c] \in Dropping
                  \/ l \in Freeing /\ pc[c] \in Freeing
    BY <1>1, Kept DEF CountRead, CountRetry, FreeStart, FreeRetry, Goto, Counting, Dropping, Freeing
<1>5. /\ pc'[c] = l /\ \A e \in Cpus : e # c => pc'[e] = pc[e] /\ seen'[e] = seen[e]
    BY <1>1, <1>3, <1>4, Moved, SawNew
<1>6. SameWork
    BY <1>4, <1>5 DEF SameWork, Counting, Dropping, Freeing
<1>7. Listed' = Listed
    BY <1>1, <1>2, SameList
<1>8. pc'[c] \notin Allocating
    BY <1>4, <1>5 DEF Allocating, Counting, Dropping, Freeing
<1>9. AllocInv'
    BY <1>2, <1>5, <1>7, <1>8, AllocKept
<1>10. SwapReady'
    BY <1>1, <1>2, <1>4, <1>5 DEF SwapReady, OwnInv
<1> QED
    BY <1>2, <1>6, <1>9, <1>10, CarryOn

(* The page that is being freed is on no list and nobody else's. *)
LEMMA FreeingAlone ==
    ASSUME IInv, NEW c \in Cpus, pc[c] \in Freeing
    PROVE  /\ role.frees /\ page[c].num \in Pages /\ page[c].num \notin Listed
           /\ Alone(c, page[c].num) /\ WorksOn(c, page[c].num)
<1>1. TypeInv /\ OwnInv /\ ListInv
    BY DEF IInv
<1>2. role.frees /\ Alone(c, page[c].num)
    BY <1>1 DEF OwnInv
<1>3. WorksOn(c, page[c].num) /\ page[c].num \in Pages
    BY <1>1 DEF WorksOn, Working, TypeInv, Local
<1>4. page[c].num \notin Listed
    BY <1>1, <1>3 DEF ListInv, Untouched
<1> QED
    BY <1>2, <1>3, <1>4

LEMMA FreeLinkStep ==
    ASSUME IInv, TypeInv', NEW c \in Cpus, FreeLink(c)
    PROVE  IInv' /\ Listed' = Listed
<1> DEFINE p == page[c].num
<1>1. TypeInv /\ OwnInv /\ next \in [Pages -> Links]
    BY TypeParts DEF IInv
<1>2. /\ UNCHANGED <<role, head, refcount, refs, seen, link, page>>
      /\ next' = [next EXCEPT ![p] = seen[c]]
      /\ pc' = [pc EXCEPT ![c] = "free_swap"] /\ pc[c] = "free_link"
    BY DEF FreeLink, Goto
<1>3. role.frees /\ p \in Pages /\ p \notin Listed /\ Alone(c, p)
    BY <1>2, FreeingAlone DEF Freeing
<1>4. pc'[c] = "free_swap" /\ \A e \in Cpus : e # c => pc'[e] = pc[e]
    BY <1>1, <1>2, Moved
<1>5. SameWork
    BY <1>2, <1>4 DEF SameWork, Counting, Dropping, Freeing
<1>6. Listed \subseteq Pages
  <2>1. Follows(walk, head, next, Pages, NULL, buddy_start)
      BY <1>1, TheWalk DEF TypeInv
  <2> QED
      BY <2>1 DEF Listed, Follows, Links
<1>7. next'[p] = seen[c] /\ \A q \in Pages : q # p => next'[q] = next[q]
    BY <1>1, <1>2, <1>3
<1> HIDE DEF p
<1>8. \A q \in Listed : next'[q] = next[q]
    BY <1>3, <1>6, <1>7
<1>9. Listed' = Listed
    BY <1>1, <1>2, <1>8, SameList
<1>10. AllocInv'
  <2>1. pc'[c] \notin Allocating
      BY <1>4 DEF Allocating
  <2> QED
      BY <1>2, <1>3, <1>4, <1>8, <1>9, <2>1, AllocKept
<1>11. SwapReady'
  <2> SUFFICES ASSUME NEW e \in Cpus, pc'[e] = "free_swap" PROVE next'[page[e].num] = seen[e]
      BY <1>2 DEF SwapReady
  <2>1. CASE e = c
      BY <2>1, <1>7 DEF p
  <2>2. CASE e # c
    <3>1. pc[e] = "free_swap" /\ next[page[e].num] = seen[e]
        BY <2>2, <1>1, <1>4 DEF OwnInv
    <3>2. WorksOn(e, page[e].num) /\ page[e].num \in Pages
        BY <3>1, FreeingAlone DEF Freeing
    <3>3. page[e].num # p
        BY <2>2, <1>3, <3>2 DEF Alone
    <3> QED
        BY <3>1, <3>2, <3>3, <1>7
  <2> QED
      BY <2>1, <2>2
<1> QED
    BY <1>2, <1>5, <1>8, <1>9, <1>10, <1>11, CarryOn

-----------------------------------------------------------------------------
(***************************************************************************)
(* Steps of c that hand a page p over or count a reference on it.          *)
(***************************************************************************)

(* The others stay where they are. *)
OthersStay(c) ==
    \A e \in Cpus : e # c => pc'[e] = pc[e] /\ page'[e] = page[e] /\ seen'[e] = seen[e] /\ link'[e] = link[e]

(* Nothing is said of pages other than p. *)
OnlyAbout(c, p) ==
    /\ \A e \in Cpus : \A q : q # p => (q \in refs'[e] <=> q \in refs[e])
    /\ \A q : q # p => ~(pc'[c] \in Working /\ page'[c].num = q)

(* p is on the list, or somebody has it, or c works on it. *)
Known(c, p) == p \in Listed \/ WorksOn(c, p) \/ \E x \in Cpus : p \in refs[x]

LEMMA Bystanders ==
    ASSUME IInv, NEW c \in Cpus, NEW p, OthersStay(c), OnlyAbout(c, p), Known(c, p)
    PROVE  /\ \A e \in Cpus : \A q : e # c /\ WorksOn(e, q) /\ Alone(e, q) => q # p /\ Alone(e, q)'
           /\ \A q \in Listed : q # p => Untouched(q)'
<1>1. ListInv
    BY DEF IInv
<1>2. ASSUME NEW e \in Cpus, NEW q, e # c, WorksOn(e, q), Alone(e, q)
      PROVE  q # p /\ Alone(e, q)'
  <2>1. q # p
    <3>1. ~(p \in Listed /\ q = p)
        BY <1>1, <1>2 DEF ListInv, Untouched
    <3>2. ~(WorksOn(c, p) /\ q = p)
        BY <1>2 DEF Alone
    <3>3. ~((\E x \in Cpus : p \in refs[x]) /\ q = p)
        BY <1>2 DEF Alone
    <3> QED
        BY <3>1, <3>2, <3>3 DEF Known
  <2>2. ASSUME NEW d \in Cpus PROVE q \notin refs'[d] /\ (d # e => ~WorksOn(d, q)')
    <3>1. q \notin refs'[d]
        BY <1>2, <2>1 DEF Alone, OnlyAbout
    <3>2. CASE d = c
        BY <3>1, <3>2, <2>1 DEF OnlyAbout, WorksOn
    <3>3. CASE d # c
      <4>1. d # e => ~WorksOn(d, q)
          BY <1>2 DEF Alone
      <4>2. WorksOn(d, q)' <=> WorksOn(d, q)
          BY <3>3 DEF OthersStay, WorksOn
      <4> QED
          BY <3>1, <4>1, <4>2
    <3> QED
        BY <3>2, <3>3
  <2> QED
      BY <2>1, <2>2 DEF Alone
<1>3. ASSUME NEW q \in Listed, q # p PROVE Untouched(q)'
  <2>1. Untouched(q)
      BY <1>1 DEF ListInv
  <2>2. ASSUME NEW d \in Cpus PROVE q \notin refs'[d] /\ ~WorksOn(d, q)'
    <3>1. q \notin refs'[d]
        BY <1>3, <2>1 DEF Untouched, OnlyAbout
    <3>2. CASE d = c
        BY <3>1, <3>2, <1>3 DEF OnlyAbout, WorksOn
    <3>3. CASE d # c
      <4>1. WorksOn(d, q)' <=> WorksOn(d, q)
          BY <3>3 DEF OthersStay, WorksOn
      <4> QED
          BY <3>1, <4>1, <2>1 DEF Untouched
    <3> QED
        BY <3>2, <3>3
  <2> QED
      BY <2>2 DEF Untouched
<1> QED
    BY <1>2, <1>3

(* What c has to see to; the others' claims stand. *)
LEMMA HandOver ==
    ASSUME IInv, NEW c \in Cpus, NEW p, OthersStay(c), OnlyAbout(c, p), Known(c, p),
           role' = role, next' = next, pc'[c] # "free_swap",
           pc'[c] \in Counting => \E d \in Cpus : Receives(c, d)',
           pc'[c] \in Freeing => role.frees /\ Alone(c, page[c].num)',
           \A e \in Cpus : e # c /\ pc[e] \in Counting =>
               /\ pc'[c] \in Counting => page[e] # page'[c]
               /\ page[e].num \in refs[e] => page[e].num \in refs'[e]
               /\ \A d \in Cpus : Receives(e, d) => page[e].num \notin refs'[d]
    PROVE  OwnInv'
<1>1. OwnInv
    BY DEF IInv
<1> SUFFICES ASSUME NEW e \in Cpus
             PROVE  /\ pc'[e] \in Counting => \E d \in Cpus : Receives(e, d)'
                    /\ pc'[e] \in Freeing => role'.frees /\ Alone(e, page[e].num)'
                    /\ pc'[e] = "free_swap" => next'[page'[e].num] = seen'[e]
                    /\ \A f \in Cpus : e # f /\ pc'[e] \in Counting /\ pc'[f] \in Counting => page'[e] # page'[f]
    BY DEF OwnInv
<1>2. \A f \in Cpus : e # f /\ pc'[e] \in Counting /\ pc'[f] \in Counting => page'[e] # page'[f]
  <2> SUFFICES ASSUME NEW f \in Cpus, e # f, pc'[e] \in Counting, pc'[f] \in Counting PROVE page'[e] # page'[f]
      OBVIOUS
  <2>1. CASE e = c
      BY <2>1 DEF OthersStay
  <2>2. CASE f = c
      BY <2>2 DEF OthersStay
  <2>3. CASE e # c /\ f # c
      BY <2>3, <1>1 DEF OthersStay, OwnInv
  <2> QED
      BY <2>1, <2>2, <2>3
<1>3. CASE e = c
    BY <1>2, <1>3
<1>4. CASE e # c
  <2>1. pc'[e] = pc[e] /\ page'[e] = page[e] /\ seen'[e] = seen[e]
      BY <1>4 DEF OthersStay
  <2>2. pc[e] \in Working /\ Alone(e, page[e].num) => Alone(e, page[e].num)'
    <3>1. PICK q : q = page[e].num /\ q = page'[e].num
        BY <2>1
    <3>2. pc[e] \in Working => WorksOn(e, q)
        BY <3>1 DEF WorksOn
    <3>3. (Alone(e, page[e].num) <=> Alone(e, q)) /\ (Alone(e, page[e].num)' <=> Alone(e, q)')
        BY <3>1 DEF Alone
    <3> QED
        BY <1>4, <3>2, <3>3, Bystanders
  <2>3. ASSUME pc[e] \in Counting PROVE \E d \in Cpus : Receives(e, d)'
    <3>1. PICK d \in Cpus : Receives(e, d)
        BY <2>3, <1>1 DEF OwnInv
    <3>2. page[e].num \notin refs'[d]
        BY <1>4, <2>3, <3>1
    <3>3. page[e].num \in refs[e] => page[e].num \in refs'[e]
        BY <1>4, <2>3
    <3> QED
        BY <2>1, <2>2, <3>1, <3>2, <3>3, <2>3 DEF Receives, Working
  <2>4. ASSUME pc[e] \in Freeing PROVE role.frees /\ Alone(e, page[e].num)'
      BY <2>4, <2>2, <1>1 DEF OwnInv, Working
  <2>5. pc[e] = "free_swap" => next'[page'[e].num] = seen'[e]
      BY <2>1, <1>1 DEF OwnInv
  <2> QED
      BY <1>2, <2>1, <2>3, <2>4, <2>5
<1> QED
    BY <1>3, <1>4

(* The effect of the writes to c's own variables. *)
LEMMA StayEffect ==
    ASSUME TypeInv, NEW c \in Cpus, NEW l, NEW g, NEW s, NEW k,
           pc' = [pc EXCEPT ![c] = l], page' = [page EXCEPT ![c] = g],
           seen' = [seen EXCEPT ![c] = s], link' = [link EXCEPT ![c] = k]
    PROVE  OthersStay(c) /\ pc'[c] = l /\ page'[c] = g
<1>1. pc'[c] = l /\ \A e \in Cpus : e # c => pc'[e] = pc[e]
    BY Moved
<1>2. page'[c] = g /\ \A e \in Cpus : e # c => page'[e] = page[e]
    BY PageNew
<1>3. \A e \in Cpus : e # c => seen'[e] = seen[e]
    BY SawNew
<1>4. \A e \in Cpus : e # c => link'[e] = link[e]
    BY LinkNew
<1> QED
    BY <1>1, <1>2, <1>3, <1>4 DEF OthersStay

LEMMA ReturnEffect ==
    ASSUME TypeInv, NEW c \in Cpus, Return(c)
    PROVE  OthersStay(c) /\ pc'[c] = "idle" /\ page'[c] = Idle
BY StayEffect DEF Return, Goto, See

LEMMA AllocSwapStep ==
    ASSUME IInv, TypeInv', NEW c \in Cpus, AllocSwap(c)
    PROVE  IInv' /\ Listed' = Listed \ {seen[c]} /\ WorksOn(c, seen[c])'
<1>1. TypeInv /\ SafeRole /\ ListInv /\ AllocInv /\ OwnInv /\ CountsReferences
    BY DEF IInv
<1>2. PICK p : p = seen[c]
    OBVIOUS
<1> DEFINE g == [num |-> p, to |-> {c}]
<1>3. /\ pc[c] = "alloc_swap" /\ head = p /\ head' = link[c]
      /\ page' = [page EXCEPT ![c] = g] /\ link' = [link EXCEPT ![c] = NULL]
      /\ pc' = [pc EXCEPT ![c] = "increment"]
      /\ UNCHANGED <<role, next, refcount, refs, seen>>
    BY <1>2 DEF AllocSwap, Goto
<1>4. OthersStay(c) /\ pc'[c] = "increment" /\ page'[c].num = p /\ page'[c].to = {c} /\ page'[c] = g
  <2>1. g.num = p /\ g.to = {c} /\ seen' = [seen EXCEPT ![c] = seen[c]]
      BY <1>1, <1>3, Kept
  <2> HIDE DEF g
  <2>2. OthersStay(c) /\ pc'[c] = "increment" /\ page'[c] = g
      BY <1>1, <1>3, <2>1, StayEffect
  <2> QED
      BY <2>1, <2>2
<1>5. p \in Pages /\ link[c] = next[p] /\ c \in role.allocators
    BY <1>1, <1>2, <1>3 DEF TypeInv, Local, AllocInv, Allocating
<1>6. Stops(walk', NULL, buddy_start) /\ Once(walk', NULL, buddy_start) /\ Listed' = Listed \ {p} /\ p \in Listed
  <2>1. Follows(walk, p, next, Pages, NULL, buddy_start) /\ Follows(walk', next[p], next, Pages, NULL, buddy_start)
      BY <1>1, <1>3, <1>5, TheWalk DEF TypeInv
  <2>2. Stops(walk, NULL, buddy_start) /\ Once(walk, NULL, buddy_start)
      BY <1>1 DEF ListInv
  <2>3. /\ Stops(walk', NULL, buddy_start) /\ Once(walk', NULL, buddy_start)
        /\ Met(walk', NULL, buddy_start) = Met(walk, NULL, buddy_start) \ {p}
        /\ p \in Met(walk, NULL, buddy_start)
      BY <1>5, <2>1, <2>2, PageCount, PopWalk
  <2> QED
      BY <2>3, ListedMet
<1>7. Untouched(p)
    BY <1>1, <1>6 DEF ListInv
<1>8. OnlyAbout(c, p) /\ Known(c, p)
    BY <1>3, <1>4, <1>6 DEF OnlyAbout, Known
<1>9. ListInv'
    BY <1>6, <1>4, <1>8, Bystanders DEF ListInv
<1>10. AllocInv'
  <2> SUFFICES ASSUME NEW e \in Cpus
               PROVE  /\ pc'[e] \in Allocating =>
                            e \in role.allocators /\ (role.frees /\ seen'[e] # NULL => seen'[e] \in Listed')
                      /\ pc'[e] = "alloc_swap" => link'[e] = next[seen'[e]]
      BY <1>3 DEF AllocInv
  <2>1. CASE e = c
      BY <2>1, <1>4 DEF Allocating
  <2>2. CASE e # c
    <3>1. pc'[e] = pc[e] /\ seen'[e] = seen[e] /\ link'[e] = link[e]
        BY <2>2, <1>4 DEF OthersStay
    <3>2. pc[e] \in Allocating => e \in role.allocators /\ ~role.frees
        BY <1>1, <1>5, <2>2 DEF AllocInv, SafeRole
    <3> QED
        BY <1>1, <3>1, <3>2 DEF AllocInv, Allocating
  <2> QED
      BY <2>1, <2>2
<1>11. Alone(c, p)'
    BY <1>3, <1>4, <1>7 DEF Untouched, Alone, OthersStay, WorksOn
<1>12. Receives(c, c)'
  <2>1. p \notin refs'[c]
      BY <1>3, <1>7 DEF Untouched
  <2> QED
      BY <1>4, <1>11, <2>1 DEF Receives, Alone
<1>13. \A e \in Cpus : e # c /\ pc[e] \in Counting => page[e] # page'[c]
    BY <1>4, <1>7 DEF Untouched, WorksOn, Working
<1>14. OwnInv'
  <2>1. \A e \in Cpus : \A d \in Cpus : Receives(e, d) => page[e].num \notin refs'[d]
      BY <1>3 DEF Receives
  <2>2. pc'[c] # "free_swap" /\ pc'[c] \notin Freeing
      BY <1>4 DEF Freeing
  <2> HIDE DEF g
  <2> QED
      BY <1>3, <1>4, <1>8, <1>12, <1>13, <2>1, <2>2, HandOver
<1>15. CountsReferences'
  <2>1. \A q : Holders(q)' = Holders(q)
      BY <1>3 DEF Holders
  <2>2. \A q : Droppers(q)' = Droppers(q)
      BY <1>3, <1>4 DEF Droppers, OthersStay, Dropping
  <2> QED
      BY <1>1, <1>3, <2>1, <2>2, CountsAs
<1>16. SafeRole'
    BY <1>1, <1>3 DEF SafeRole
<1>17. WorksOn(c, seen[c])'
    BY <1>2, <1>3, <1>4 DEF WorksOn, Working, Counting
<1> QED
    BY <1>2, <1>6, <1>9, <1>10, <1>14, <1>15, <1>16, <1>17 DEF IInv

LEMMA FreeSwapStep ==
    ASSUME IInv, TypeInv', NEW c \in Cpus, FreeSwap(c)
    PROVE  IInv' /\ Listed' = Listed \cup {page[c].num}
<1>1. TypeInv /\ SafeRole /\ ListInv /\ AllocInv /\ OwnInv /\ CountsReferences
    BY DEF IInv
<1>2. PICK p : p = page[c].num
    OBVIOUS
<1>3. /\ pc[c] = "free_swap" /\ head = seen[c] /\ head' = p /\ Return(c)
      /\ UNCHANGED <<role, next, refcount, refs>>
    BY <1>2 DEF FreeSwap
<1>4. OthersStay(c) /\ pc'[c] = "idle"
    BY <1>1, <1>3, ReturnEffect
<1>5. p \in Pages /\ p \notin Listed /\ Alone(c, p) /\ WorksOn(c, p) /\ next[p] = head
    BY <1>1, <1>2, <1>3, FreeingAlone DEF Freeing, OwnInv
<1>6. Stops(walk', NULL, buddy_start) /\ Once(walk', NULL, buddy_start) /\ Listed' = Listed \cup {p}
  <2>1. Follows(walk, head, next, Pages, NULL, buddy_start) /\ Follows(walk', p, next, Pages, NULL, buddy_start)
      BY <1>1, <1>3, TheWalk DEF TypeInv
  <2>2. Stops(walk, NULL, buddy_start) /\ Once(walk, NULL, buddy_start) /\ p \notin Met(walk, NULL, buddy_start)
      BY <1>1, <1>5, ListedMet DEF ListInv
  <2>3. /\ Stops(walk', NULL, buddy_start) /\ Once(walk', NULL, buddy_start)
        /\ Met(walk', NULL, buddy_start) = Met(walk, NULL, buddy_start) \cup {p}
      BY <1>5, <2>1, <2>2, PageCount, PushWalk
  <2> QED
      BY <2>3, ListedMet
<1>7. OnlyAbout(c, p) /\ Known(c, p)
    BY <1>3, <1>4, <1>5 DEF OnlyAbout, Known, Working, Counting, Dropping, Freeing
<1>8. Untouched(p)'
    BY <1>3, <1>4, <1>5 DEF Untouched, Alone, OthersStay, WorksOn, Working, Counting, Dropping, Freeing
<1>9. ListInv'
    BY <1>4, <1>5, <1>6, <1>7, <1>8, Bystanders DEF ListInv
<1>10. AllocInv'
    BY <1>3, <1>4, <1>6, AllocKept DEF OthersStay, Allocating
<1>11. OwnInv'
  <2>1. \A e \in Cpus : \A d \in Cpus : Receives(e, d) => page[e].num \notin refs'[d]
      BY <1>3 DEF Receives
  <2>2. pc'[c] # "free_swap" /\ pc'[c] \notin Freeing /\ pc'[c] \notin Counting
      BY <1>4 DEF Freeing, Counting
  <2> QED
      BY <1>3, <1>4, <1>7, <2>1, <2>2, HandOver
<1>12. CountsReferences'
  <2>1. \A q : Holders(q)' = Holders(q)
      BY <1>3 DEF Holders
  <2>2. \A q : Droppers(q)' = Droppers(q)
      BY <1>3, <1>4 DEF Droppers, OthersStay, Dropping
  <2> QED
      BY <1>1, <1>3, <2>1, <2>2, CountsAs
<1>13. SafeRole'
    BY <1>1, <1>3 DEF SafeRole
<1> QED
    BY <1>2, <1>6, <1>9, <1>10, <1>11, <1>12, <1>13 DEF IInv

(* The list is none of a reference count's business. *)
LEMMA CountKeepsList ==
    ASSUME IInv, TypeInv', NEW c \in Cpus, NEW p, OthersStay(c), OnlyAbout(c, p), Known(c, p),
           p \notin Listed, role' = role, head' = head, next' = next, pc'[c] \notin Allocating
    PROVE  ListInv' /\ AllocInv' /\ SafeRole' /\ Listed' = Listed
<1>1. TypeInv /\ SafeRole /\ ListInv
    BY DEF IInv
<1>2. walk' = walk /\ Listed' = Listed
    BY <1>1, SameList
<1>3. ListInv'
    BY <1>1, <1>2, Bystanders DEF ListInv, Stops, Once
<1>4. AllocInv'
    BY <1>2, AllocKept DEF OthersStay
<1>5. SafeRole'
    BY <1>1 DEF SafeRole
<1> QED
    BY <1>2, <1>3, <1>4, <1>5

LEMMA ReferenceStep ==
    ASSUME IInv, TypeInv', NEW c \in Cpus, NEW p \in refs[c], NEW d \in Cpus, Reference(c, p, d)
    PROVE  IInv'
<1>1. TypeInv /\ ListInv /\ CountsReferences
    BY DEF IInv
<1> DEFINE g == [num |-> p, to |-> {d}]
<1>2. /\ pc[c] = "idle" /\ p \notin refs[d] /\ \A e \in Cpus : page[e] # g
      /\ page' = [page EXCEPT ![c] = g] /\ pc' = [pc EXCEPT ![c] = "increment"]
      /\ UNCHANGED <<role, head, next, refcount, refs, seen, link>>
    BY DEF Reference, Goto
<1>3. OthersStay(c) /\ pc'[c] = "increment" /\ page'[c].num = p /\ page'[c].to = {d} /\ page'[c] = g
  <2>1. /\ g.num = p /\ g.to = {d} /\ seen' = [seen EXCEPT ![c] = seen[c]]
        /\ link' = [link EXCEPT ![c] = link[c]]
        /\ page' = [page EXCEPT ![c] = g] /\ pc' = [pc EXCEPT ![c] = "increment"]
      BY <1>1, <1>2, Kept
  <2> HIDE DEF g
  <2>2. OthersStay(c) /\ pc'[c] = "increment" /\ page'[c] = g
      BY <1>1, <2>1, StayEffect
  <2> QED
      BY <2>1, <2>2
<1> HIDE DEF g
<1>4. p \notin Listed /\ Known(c, p) /\ OnlyAbout(c, p)
    BY <1>1, <1>2, <1>3 DEF ListInv, Untouched, Known, OnlyAbout
<1>5. ListInv' /\ AllocInv' /\ SafeRole'
    BY <1>2, <1>3, <1>4, CountKeepsList DEF Allocating
<1>6. OwnInv'
  <2>1. \A e \in Cpus : \A f \in Cpus : Receives(e, f) => page[e].num \notin refs'[f]
      BY <1>2 DEF Receives
  <2>2. pc'[c] # "free_swap" /\ pc'[c] \notin Freeing
      BY <1>3 DEF Freeing
  <2>3. Receives(c, d)'
      BY <1>2, <1>3 DEF Receives
  <2>4. \A e \in Cpus : page[e] # page'[c]
      BY <1>2, <1>3
  <2> QED
      BY <1>2, <1>3, <1>4, <2>1, <2>2, <2>3, <2>4, HandOver
<1>7. CountsReferences'
  <2>1. \A q : Holders(q)' = Holders(q)
      BY <1>2 DEF Holders
  <2>2. \A q : Droppers(q)' = Droppers(q)
      BY <1>2, <1>3 DEF Droppers, OthersStay, Dropping
  <2> QED
      BY <1>1, <1>2, <2>1, <2>2, CountsAs
<1> QED
    BY <1>5, <1>6, <1>7 DEF IInv

(* Processors can be counted. *)
LEMMA CpuCount ==
    /\ \A S \in SUBSET Cpus :
          IsFiniteSet(S) /\ Cardinality(S) \in Nat /\ Cardinality(S) <= Cardinality(Cpus)
    /\ Cardinality(Cpus) \in Nat /\ 2 * Cardinality(Cpus) < RefMod /\ RefMod \in Nat \ {0}
<1>1. IsFiniteSet(Cpus) /\ 2 * Cardinality(Cpus) < RefMod /\ RefMod \in Nat \ {0}
    BY RefcountAssumption, PageAllocAssumption
<1>2. \A S \in SUBSET Cpus : IsFiniteSet(S) /\ Cardinality(S) <= Cardinality(Cpus)
    BY <1>1, FS_Subset
<1> QED
    BY <1>1, <1>2, FS_CardinalityType

LEMMA OneMore ==
    ASSUME NEW S \in SUBSET Cpus, NEW c \in Cpus, c \notin S, NEW T, T = S \cup {c}
    PROVE  Cardinality(T) = Cardinality(S) + 1
BY CpuCount, FS_AddElement

LEMMA OneLess ==
    ASSUME NEW S \in SUBSET Cpus, NEW c \in S, NEW T, T = S \ {c}
    PROVE  Cardinality(T) = Cardinality(S) - 1
BY CpuCount, FS_RemoveElement

LEMMA CountSets ==
    \A p : /\ Holders(p) \in SUBSET Cpus /\ Droppers(p) \in SUBSET Cpus
           /\ Holders(p)' \in SUBSET Cpus /\ Droppers(p)' \in SUBSET Cpus
           /\ Cardinality(Holders(p)) \in Nat /\ Cardinality(Droppers(p)) \in Nat
           /\ Cardinality(Holders(p)') \in Nat /\ Cardinality(Droppers(p)') \in Nat
<1>1. \A p : /\ Holders(p) \in SUBSET Cpus /\ Droppers(p) \in SUBSET Cpus
             /\ Holders(p)' \in SUBSET Cpus /\ Droppers(p)' \in SUBSET Cpus
    BY DEF Holders, Droppers
<1> QED
    BY <1>1, CpuCount

(* A reference that is dropped is counted until its decrement. *)
LEMMA DropStep ==
    ASSUME IInv, TypeInv', NEW c \in Cpus, NEW p \in refs[c], drop_page_reference(c, p)
    PROVE  IInv'
<1>1. TypeInv /\ ListInv /\ CountsReferences /\ refs \in [Cpus -> SUBSET Pages]
    BY TypeParts DEF IInv
<1> DEFINE g == [num |-> p, to |-> {}]
<1>2. /\ pc[c] = "idle" /\ refs' = [refs EXCEPT ![c] = @ \ {p}]
      /\ page' = [page EXCEPT ![c] = g] /\ pc' = [pc EXCEPT ![c] = "decrement"]
      /\ UNCHANGED <<role, head, next, refcount, seen, link>>
    BY DEF drop_page_reference, Goto
<1>3. OthersStay(c) /\ pc'[c] = "decrement" /\ page'[c].num = p
  <2>1. /\ g.num = p /\ seen' = [seen EXCEPT ![c] = seen[c]] /\ link' = [link EXCEPT ![c] = link[c]]
        /\ page' = [page EXCEPT ![c] = g] /\ pc' = [pc EXCEPT ![c] = "decrement"]
      BY <1>1, <1>2, Kept
  <2> HIDE DEF g
  <2>2. OthersStay(c) /\ pc'[c] = "decrement" /\ page'[c] = g
      BY <1>1, <2>1, StayEffect
  <2> QED
      BY <2>1, <2>2
<1>4. refs'[c] = refs[c] \ {p} /\ \A e \in Cpus : e # c => refs'[e] = refs[e]
    BY <1>1, <1>2
<1> HIDE DEF g
<1>5. p \notin Listed /\ Known(c, p) /\ OnlyAbout(c, p)
    BY <1>1, <1>3, <1>4 DEF ListInv, Untouched, Known, OnlyAbout
<1>6. ListInv' /\ AllocInv' /\ SafeRole'
    BY <1>2, <1>3, <1>5, CountKeepsList DEF Allocating
<1>7. OwnInv'
  <2>1. \A e \in Cpus : \A d \in Cpus : Receives(e, d) => page[e].num \notin refs'[d]
      BY <1>4 DEF Receives
  <2>2. pc'[c] # "free_swap" /\ pc'[c] \notin Freeing /\ pc'[c] \notin Counting
      BY <1>3 DEF Freeing, Counting
  <2>3. \A e \in Cpus : e # c => (page[e].num \in refs[e] => page[e].num \in refs'[e])
      BY <1>4
  <2> QED
      BY <1>2, <1>3, <1>5, <2>1, <2>2, <2>3, HandOver
<1>8. CountsReferences'
  <2> SUFFICES ASSUME NEW q \in Pages
               PROVE  refcount'[q] = Cardinality(Holders(q)') + Cardinality(Droppers(q)')
      BY CountsAs
  <2>1. refcount'[q] = Cardinality(Holders(q)) + Cardinality(Droppers(q))
      BY <1>1, <1>2, CountsAs
  <2>2. CASE q # p
    <3>1. Holders(q)' = Holders(q)
        BY <1>4, <2>2 DEF Holders
    <3>2. Droppers(q)' = Droppers(q)
        BY <1>2, <1>3, <2>2 DEF Droppers, OthersStay, Dropping
    <3> QED
        BY <2>1, <3>1, <3>2
  <2>3. CASE q = p
    <3>1. Holders(q)' = Holders(q) \ {c} /\ c \in Holders(q)
        BY <1>4, <2>3 DEF Holders
    <3>2. Droppers(q)' = Droppers(q) \cup {c} /\ c \notin Droppers(q)
        BY <1>2, <1>3, <2>3 DEF Droppers, OthersStay, Dropping
    <3>3. Cardinality(Holders(q)') = Cardinality(Holders(q)) - 1
        BY <3>1, CountSets, OneLess
    <3>4. Cardinality(Droppers(q)') = Cardinality(Droppers(q)) + 1
        BY <3>2, CountSets, OneMore
    <3>5. Cardinality(Holders(q)) \in Nat /\ Cardinality(Droppers(q)) \in Nat
        BY CountSets
    <3> QED
        BY <2>1, <3>3, <3>4, <3>5
  <2> QED
      BY <2>2, <2>3
<1> QED
    BY <1>6, <1>7, <1>8 DEF IInv

LEMMA IncrementStep ==
    ASSUME IInv, TypeInv', NEW c \in Cpus, IncrementSwap(c)
    PROVE  IInv'
<1>1. /\ TypeInv /\ ListInv /\ OwnInv /\ CountsReferences /\ refs \in [Cpus -> SUBSET Pages]
      /\ refcount \in [Pages -> 0 .. (RefMod - 1)] /\ page \in [Cpus -> [num : Links, to : SUBSET Cpus]]
    BY TypeParts DEF IInv
<1>2. PICK p : p = page[c].num
    OBVIOUS
<1>3. /\ pc[c] = "increment_swap" /\ refcount' = [refcount EXCEPT ![p] = (@ + 1) % RefMod]
      /\ refs' = [d \in Cpus |-> IF d \in page[c].to THEN refs[d] \cup {p} ELSE refs[d]]
      /\ Return(c) /\ UNCHANGED <<role, head, next>>
    BY <1>2 DEF IncrementSwap
<1>4. OthersStay(c) /\ pc'[c] = "idle"
    BY <1>1, <1>3, ReturnEffect
<1>5. PICK d \in Cpus : Receives(c, d)
    BY <1>1, <1>3 DEF OwnInv, Counting
<1>6. page[c].to = {d} /\ p \notin refs[d]
    BY <1>2, <1>5 DEF Receives
<1>7. refs'[d] = refs[d] \cup {p} /\ \A e \in Cpus : e # d => refs'[e] = refs[e]
    BY <1>3, <1>6
<1>8. p \in Pages /\ WorksOn(c, p)
    BY <1>1, <1>2, <1>3 DEF TypeInv, Local, WorksOn, Working, Counting
<1>9. p \notin Listed /\ Known(c, p) /\ OnlyAbout(c, p)
  <2>1. \A q : q # p => ~(pc'[c] \in Working /\ page'[c].num = q)
      BY <1>4, LabelFacts DEF Ends
  <2>2. \A e \in Cpus : \A q : q # p => (q \in refs'[e] <=> q \in refs[e])
      BY <1>7
  <2> QED
      BY <1>1, <1>8, <2>1, <2>2 DEF ListInv, Untouched, Known, OnlyAbout
<1>10. ListInv' /\ AllocInv' /\ SafeRole'
    BY <1>3, <1>4, <1>9, CountKeepsList DEF Allocating
<1>11. OwnInv'
  <2>1. ASSUME NEW e \in Cpus, e # c, pc[e] \in Counting, NEW f \in Cpus, Receives(e, f)
        PROVE  page[e].num \notin refs'[f]
    <3>1. page[e].num \notin refs[f] /\ page[e].to = {f}
        BY <2>1 DEF Receives
    <3>2. ASSUME f = d, page[e].num = p PROVE FALSE
      <4>1. page[e].num = page[c].num /\ page[e].to = page[c].to
          BY <1>2, <1>6, <3>1, <3>2
      <4>2. page[e] \in [num : Links, to : SUBSET Cpus] /\ page[c] \in [num : Links, to : SUBSET Cpus]
          BY <1>1
      <4>3. page[e] = page[c]
          BY <4>1, <4>2
      <4> QED
          BY <4>3, <2>1, <1>1, <1>3 DEF OwnInv, Counting
    <3> QED
        BY <3>1, <3>2, <1>7
  <2>2. pc'[c] # "free_swap" /\ pc'[c] \notin Freeing /\ pc'[c] \notin Counting
      BY <1>4 DEF Freeing, Counting
  <2>3. \A e \in Cpus : page[e].num \in refs[e] => page[e].num \in refs'[e]
      BY <1>7
  <2> QED
      BY <1>3, <1>4, <1>9, <2>1, <2>2, <2>3, HandOver
<1>12. CountsReferences'
  <2> SUFFICES ASSUME NEW q \in Pages
               PROVE  refcount'[q] = Cardinality(Holders(q)') + Cardinality(Droppers(q)')
      BY CountsAs
  <2>1. refcount[q] = Cardinality(Holders(q)) + Cardinality(Droppers(q))
      BY <1>1, CountsAs
  <2>2. Droppers(q)' = Droppers(q)
      BY <1>3, <1>4 DEF Droppers, OthersStay, Dropping
  <2>3. CASE q # p
    <3>1. Holders(q)' = Holders(q)
        BY <1>7, <2>3 DEF Holders
    <3>2. refcount'[q] = refcount[q]
        BY <1>1, <1>3, <2>3
    <3> QED
        BY <2>1, <2>2, <3>1, <3>2
  <2>4. CASE q = p
    <3>1. Holders(q)' = Holders(q) \cup {d} /\ d \notin Holders(q)
        BY <1>6, <1>7, <2>4 DEF Holders
    <3>2. Cardinality(Holders(q)') = Cardinality(Holders(q)) + 1
        BY <3>1, CountSets, OneMore
    <3>3. /\ Cardinality(Holders(q)') <= Cardinality(Cpus) /\ Cardinality(Droppers(q)) <= Cardinality(Cpus)
          /\ Cardinality(Cpus) \in Nat /\ 2 * Cardinality(Cpus) < RefMod /\ RefMod \in Nat \ {0}
        BY CpuCount, CountSets
    <3>4. Cardinality(Holders(q)) \in Nat /\ Cardinality(Droppers(q)) \in Nat /\ Cardinality(Holders(q)') \in Nat
        BY CountSets
    <3>5. refcount[q] + 1 \in 0 .. (RefMod - 1)
        BY <2>1, <3>2, <3>3, <3>4
    <3>6. (refcount[q] + 1) % RefMod = refcount[q] + 1
        BY <3>3, <3>5
    <3>7. refcount'[q] = refcount[q] + 1
        BY <1>1, <1>3, <2>4, <3>6
    <3> QED
        BY <2>1, <2>2, <3>2, <3>4, <3>7
  <2> QED
      BY <2>3, <2>4
<1> QED
    BY <1>10, <1>11, <1>12 DEF IInv

(* A reference count is positive while one of its references is dropped. *)
LEMMA CountFalls ==
    ASSUME IInv, NEW c \in Cpus, NEW p \in Pages, pc[c] \in Dropping, page[c].num = p
    PROVE  /\ c \in Droppers(p) /\ refcount[p] \in Nat /\ refcount[p] >= 1
           /\ (refcount[p] - 1) % RefMod = refcount[p] - 1
<1>1. TypeInv /\ CountsReferences /\ refcount \in [Pages -> 0 .. (RefMod - 1)]
    BY TypeParts DEF IInv
<1>2. c \in Droppers(p)
    BY DEF Droppers
<1>3. refcount[p] = Cardinality(Holders(p)) + Cardinality(Droppers(p))
    BY <1>1, CountsAs
<1>4. Cardinality(Holders(p)) \in Nat /\ Cardinality(Droppers(p)) \in Nat /\ Droppers(p) \in SUBSET Cpus
    BY CountSets
<1>5. Cardinality(Droppers(p)) # 0
    BY <1>2, <1>4, CpuCount, FS_EmptySet
<1>6. refcount[p] \in 0 .. (RefMod - 1) /\ RefMod \in Nat \ {0}
    BY <1>1, CpuCount
<1>7. refcount[p] \in Nat /\ refcount[p] >= 1
    BY <1>3, <1>4, <1>5, <1>6
<1>8. refcount[p] - 1 \in 0 .. (RefMod - 1)
    BY <1>6, <1>7
<1> QED
    BY <1>2, <1>6, <1>7, <1>8

LEMMA DecrementStep ==
    ASSUME IInv, TypeInv', NEW c \in Cpus, DecrementSwap(c)
    PROVE  IInv'
<1>1. /\ TypeInv /\ ListInv /\ OwnInv /\ CountsReferences
      /\ refcount \in [Pages -> 0 .. (RefMod - 1)]
    BY TypeParts DEF IInv
<1>2. PICK p : p = page[c].num
    OBVIOUS
<1>3. /\ pc[c] = "decrement_swap" /\ refcount' = [refcount EXCEPT ![p] = (@ - 1) % RefMod]
      /\ UNCHANGED <<role, head, next, refs>>
    BY <1>2 DEF DecrementSwap
<1>4. \/ Return(c)
      \/ /\ refcount'[p] = 0 /\ role.frees /\ pc' = [pc EXCEPT ![c] = "free"]
         /\ seen' = [seen EXCEPT ![c] = NULL] /\ UNCHANGED <<link, page>>
    BY <1>2 DEF DecrementSwap, Goto, See
<1>5. p \in Pages /\ WorksOn(c, p)
    BY <1>1, <1>2, <1>3 DEF TypeInv, Local, WorksOn, Working, Dropping
<1>6. OthersStay(c) /\ (pc'[c] = "idle" \/ (pc'[c] = "free" /\ page'[c] = page[c] /\ refcount'[p] = 0 /\ role.frees))
  <2>1. CASE Return(c)
      BY <2>1, <1>1, ReturnEffect
  <2>2. CASE ~Return(c)
    <3>1. /\ pc' = [pc EXCEPT ![c] = "free"] /\ page' = [page EXCEPT ![c] = page[c]]
          /\ seen' = [seen EXCEPT ![c] = NULL] /\ link' = [link EXCEPT ![c] = link[c]]
        BY <2>2, <1>1, <1>4, Kept
    <3>2. OthersStay(c) /\ pc'[c] = "free" /\ page'[c] = page[c]
        BY <3>1, <1>1, StayEffect
    <3> QED
        BY <3>2, <2>2, <1>4
  <2> QED
      BY <2>1, <2>2
<1>7. p \notin Listed /\ Known(c, p) /\ OnlyAbout(c, p)
    BY <1>1, <1>2, <1>3, <1>5, <1>6 DEF ListInv, Untouched, Known, OnlyAbout, Working, Counting, Dropping, Freeing
<1>8. ListInv' /\ AllocInv' /\ SafeRole'
    BY <1>3, <1>6, <1>7, CountKeepsList DEF Allocating
<1>9. /\ c \in Droppers(p) /\ refcount[p] \in Nat /\ refcount[p] >= 1
      /\ (refcount[p] - 1) % RefMod = refcount[p] - 1
    BY <1>2, <1>3, <1>5, CountFalls DEF Dropping
<1>10. refcount'[p] = refcount[p] - 1
    BY <1>1, <1>3, <1>5, <1>9
<1>11. \A q : Holders(q)' = Holders(q)
    BY <1>3 DEF Holders
<1>12. Droppers(p)' = Droppers(p) \ {c} /\ \A q : q # p => Droppers(q)' = Droppers(q)
    BY <1>2, <1>3, <1>6 DEF Droppers, OthersStay, Dropping
<1>13. CountsReferences'
  <2> SUFFICES ASSUME NEW q \in Pages
               PROVE  refcount'[q] = Cardinality(Holders(q)') + Cardinality(Droppers(q)')
      BY CountsAs
  <2>1. refcount[q] = Cardinality(Holders(q)) + Cardinality(Droppers(q))
      BY <1>1, CountsAs
  <2>2. CASE q # p
    <3>1. refcount'[q] = refcount[q]
        BY <1>1, <1>3, <2>2
    <3> QED
        BY <2>1, <2>2, <3>1, <1>11, <1>12
  <2>3. CASE q = p
    <3>1. Cardinality(Droppers(q)') = Cardinality(Droppers(q)) - 1
        BY <1>9, <1>12, <2>3, CountSets, OneLess
    <3>2. Cardinality(Holders(q)) \in Nat /\ Cardinality(Droppers(q)) \in Nat
        BY CountSets
    <3>3. Holders(q)' = Holders(q) /\ refcount'[q] = refcount[q] - 1
        BY <1>10, <1>11, <2>3
    <3> QED
        BY <2>1, <3>1, <3>2, <3>3
  <2> QED
      BY <2>2, <2>3
<1>14. ASSUME refcount'[p] = 0, pc'[c] = "free" PROVE Alone(c, p)'
  <2>1. refcount'[p] = Cardinality(Holders(p)') + Cardinality(Droppers(p)')
      BY <1>5, <1>13, CountsAs
  <2>2. Cardinality(Holders(p)') = 0 /\ Cardinality(Droppers(p)') = 0
      BY <1>14, <2>1, CountSets
  <2>3. Holders(p)' = {} /\ Droppers(p)' = {}
      BY <2>2, CountSets, CpuCount, FS_EmptySet
  <2>4. \A e \in Cpus : p \notin refs[e] /\ p \notin refs'[e]
      BY <1>3, <2>3 DEF Holders
  <2>5. ASSUME NEW e \in Cpus, e # c, WorksOn(e, p)' PROVE FALSE
    <3>1. pc'[e] = pc[e] /\ page'[e] = page[e] /\ pc[e] \in Working /\ page[e].num = p
        BY <1>6, <2>5 DEF OthersStay, WorksOn
    <3>2. ASSUME pc[e] \in Dropping PROVE FALSE
        BY <3>1, <3>2, <2>3 DEF Droppers
    <3>3. ASSUME pc[e] \in Counting PROVE FALSE
      <4>1. PICK d \in Cpus : Receives(e, d)
          BY <1>1, <3>3 DEF OwnInv
      <4>2. Alone(e, p)
          BY <3>1, <4>1, <2>4 DEF Receives
      <4> QED
          BY <4>2, <1>5, <2>5 DEF Alone
    <3>4. ASSUME pc[e] \in Freeing PROVE FALSE
      <4>1. Alone(e, p)
          BY <1>1, <3>1, <3>4 DEF OwnInv
      <4> QED
          BY <4>1, <1>5, <2>5 DEF Alone
    <3> QED
        BY <3>1, <3>2, <3>3, <3>4 DEF Working
  <2> QED
      BY <2>4, <2>5 DEF Alone
<1>15. OwnInv'
  <2>1. \A e \in Cpus : \A d \in Cpus : Receives(e, d) => page[e].num \notin refs'[d]
      BY <1>3 DEF Receives
  <2>2. pc'[c] # "free_swap" /\ pc'[c] \notin Counting
      BY <1>6 DEF Counting
  <2>3. pc'[c] \in Freeing => role.frees /\ Alone(c, page[c].num)'
    <3>1. ASSUME pc'[c] \in Freeing PROVE role.frees /\ Alone(c, p)' /\ page'[c].num = p
        BY <3>1, <1>2, <1>6, <1>14 DEF Freeing
    <3> QED
        BY <3>1 DEF Alone
  <2> QED
      BY <1>3, <1>6, <1>7, <2>1, <2>2, <2>3, HandOver
<1> QED
    BY <1>8, <1>13, <1>15 DEF IInv

-----------------------------------------------------------------------------
(***************************************************************************)
(* The list at start-up: the low pages, the pages after the kernel, and    *)
(* the page where the buddy allocator's region starts.                     *)
(***************************************************************************)

LastLow == DMA_ZONE_BEGIN - 1

(* The page i links behind the head. *)
At(i) ==
    IF i < LastLow THEN i + 1
    ELSE IF UpperPages = {} THEN NULL
    ELSE IF last_kernel_page + 1 + (i - LastLow) <= buddy_start THEN last_kernel_page + 1 + (i - LastLow)
    ELSE NULL

LEMMA InitialWalk ==
    ASSUME Init
    PROVE  \A i \in 0 .. buddy_start : walk[i] = At(i)
<1> DEFINE g == [i \in 0 .. buddy_start |-> At(i)]
<1>1. head = 1 /\ next = InitialNext /\ TypeInv
    BY InitTypes DEF Init
<1>2. /\ buddy_start \in Nat /\ buddy_start >= last_kernel_page + 1 /\ last_kernel_page \in Nat
      /\ LastLow \in Nat /\ LastLow >= 1 /\ LastLow < last_kernel_page
    BY Start DEF LastLow
<1>3. At(0) = 1
    BY <1>2 DEF At
<1>4. ASSUME NEW i \in 1 .. buddy_start
      PROVE  At(i) = IF At(i - 1) = NULL THEN NULL ELSE InitialNext[At(i - 1)]
  <2>1. \A p \in Pages : InitialNext[p] =
            IF p = LastLow THEN IF UpperPages = {} THEN NULL ELSE last_kernel_page + 1
            ELSE IF p \in LowPages \cup UpperPages THEN p + 1 ELSE NULL
      BY DEF InitialNext, LastLow
  <2>2. CASE i <= LastLow
    <3>1. At(i - 1) = i /\ i \in Pages /\ i # NULL
        BY <1>2, <2>2 DEF At, Pages, NULL
    <3>2. CASE i = LastLow
        BY <1>2, <2>1, <3>1, <3>2 DEF At
    <3>3. CASE i # LastLow
      <4>1. i < LastLow /\ i \in LowPages
          BY <1>2, <2>2, <3>3 DEF LowPages, LastLow
      <4> QED
          BY <2>1, <3>1, <3>3, <4>1 DEF At
    <3> QED
        BY <3>2, <3>3
  <2>3. CASE i > LastLow
    <3>1. PICK k \in Nat : k = last_kernel_page + 1 + ((i - 1) - LastLow)
        BY <1>2, <2>3
    <3>2. /\ At(i - 1) = IF UpperPages = {} THEN NULL ELSE IF k <= buddy_start THEN k ELSE NULL
          /\ At(i) = IF UpperPages = {} THEN NULL ELSE IF k + 1 <= buddy_start THEN k + 1 ELSE NULL
        BY <1>2, <2>3, <3>1 DEF At
    <3>3. CASE UpperPages = {} \/ k > buddy_start
        BY <1>2, <3>1, <3>2, <3>3
    <3>4. CASE UpperPages # {} /\ k <= buddy_start
      <4>1. At(i - 1) = k /\ k \in Pages /\ k # NULL /\ k # LastLow /\ k \notin LowPages
          BY <1>2, <2>3, <3>1, <3>2, <3>4 DEF Pages, NULL, LowPages, LastLow
      <4>2. k \in UpperPages <=> k + 1 <= buddy_start
          BY <1>2, <2>3, <3>1 DEF UpperPages
      <4> QED
          BY <2>1, <3>2, <3>4, <4>1, <4>2
    <3> QED
        BY <1>2, <3>1, <3>3, <3>4
  <2> QED
      BY <1>2, <2>2, <2>3
<1>5. Along(g, head, next, NULL, buddy_start)
  <2>1. \A i \in 0 .. buddy_start : g[i] = At(i)
      OBVIOUS
  <2>2. 0 \in 0 .. buddy_start /\ \A i \in 1 .. buddy_start : i \in 0 .. buddy_start /\ i - 1 \in 0 .. buddy_start
      BY <1>2
  <2> HIDE DEF g
  <2> QED
      BY <1>1, <1>3, <1>4, <2>1, <2>2 DEF Along
<1>6. Follows(walk, head, next, Pages, NULL, buddy_start)
    BY <1>1, TheWalk DEF TypeInv
<1>7. \A i \in 0 .. buddy_start : g[i] = walk[i]
  <2> HIDE DEF g
  <2> QED
      BY <1>5, <1>6, IsWalk, PageCount
<1> QED
    BY <1>7

LEMMA InitialList ==
    ASSUME Init
    PROVE  Stops(walk, NULL, buddy_start) /\ Once(walk, NULL, buddy_start) /\ LowPages \cup UpperPages \subseteq Listed
<1>1. /\ buddy_start \in Nat /\ buddy_start >= last_kernel_page + 1 /\ last_kernel_page \in Nat
      /\ LastLow \in Nat /\ LastLow >= 1 /\ LastLow < last_kernel_page
    BY Start DEF LastLow
<1>2. \A i \in 0 .. buddy_start : walk[i] = At(i)
    BY InitialWalk
<1>3. Stops(walk, NULL, buddy_start)
    BY <1>1, <1>2 DEF Stops, At
<1>4. Once(walk, NULL, buddy_start)
  <2> SUFFICES ASSUME NEW i \in 0 .. buddy_start, NEW j \in 0 .. buddy_start, i # j, At(i) = At(j)
               PROVE  At(i) = NULL
      BY <1>2 DEF Once
  <2> QED
      BY <1>1 DEF At
<1>5. ASSUME NEW p \in LowPages PROVE p \in Listed
  <2>1. p - 1 \in 0 .. buddy_start /\ At(p - 1) = p /\ p # NULL
      BY <1>1 DEF LowPages, LastLow, At, NULL
  <2> QED
      BY <1>2, <2>1 DEF Listed
<1>6. ASSUME NEW p \in UpperPages PROVE p \in Listed
  <2>1. PICK i \in 0 .. buddy_start : i = p - (last_kernel_page + 1) + LastLow
      BY <1>1 DEF UpperPages
  <2>2. /\ UpperPages # {} /\ ~(i < LastLow) /\ last_kernel_page + 1 + (i - LastLow) = p
        /\ p <= buddy_start /\ p # NULL
      BY <1>1, <2>1 DEF UpperPages, NULL
  <2>3. At(i) = p
      BY <2>2 DEF At
  <2> QED
      BY <1>2, <2>2, <2>3 DEF Listed
<1> QED
    BY <1>3, <1>4, <1>5, <1>6

LEMMA InitInv ==
    ASSUME Init, SafeRole
    PROVE  IInv
<1>1. /\ refs = [c \in Cpus |-> {}] /\ pc = [c \in Cpus |-> "idle"] /\ refcount = [p \in Pages |-> 0]
    BY DEF Init
<1>2. \A c \in Cpus : refs[c] = {} /\ pc[c] = "idle"
    BY <1>1
<1>3. \A c \in Cpus : pc[c] \notin Working /\ pc[c] \notin Allocating
    BY <1>2, LabelFacts DEF Ends
<1>4. ListInv
    BY <1>2, <1>3, InitialList DEF ListInv, Untouched, WorksOn
<1>5. AllocInv
    BY <1>3 DEF AllocInv, Allocating
<1>6. OwnInv
    BY <1>3 DEF OwnInv, Working, Counting, Freeing
<1>7. CountsReferences
  <2>1. \A p : Holders(p) = {} /\ Droppers(p) = {}
      BY <1>2, <1>3 DEF Holders, Droppers, Working
  <2>2. Cardinality({}) = 0
      BY FS_EmptySet
  <2>3. \A p \in Pages : refcount[p] = Cardinality(Holders(p)) + Cardinality(Droppers(p))
      BY <1>1, <2>1, <2>2
  <2> QED
      BY <2>3, CountsAs
<1> QED
    BY InitTypes, <1>4, <1>5, <1>6, <1>7 DEF IInv

LEMMA StutterInv ==
    ASSUME IInv, UNCHANGED vars
    PROVE  IInv'
<1>1. walk' = walk
    BY DEF walk, vars
<1>2. Listed' = Listed
    BY <1>1 DEF Listed
<1>3. TypeInv /\ SafeRole /\ ListInv /\ AllocInv /\ OwnInv /\ CountsReferences
    BY DEF IInv
<1>4. TypeInv' /\ SafeRole' /\ CountsReferences'
    BY <1>3 DEF vars, TypeInv, TypeOK, SafeRole, CountsReferences
<1>5. ListInv'
    BY <1>1, <1>2, <1>3 DEF vars, ListInv, Stops, Once, Untouched, WorksOn
<1>6. AllocInv' /\ OwnInv'
    BY <1>2, <1>3 DEF vars, AllocInv, OwnInv, Receives, Alone, WorksOn
<1> QED
    BY <1>4, <1>5, <1>6 DEF IInv

LEMMA NextInv == IInv /\ [Next]_vars => IInv'
<1> SUFFICES ASSUME IInv, [Next]_vars PROVE IInv'
    OBVIOUS
<1>1. TypeInv'
    BY NextTypes DEF IInv
<1>2. CASE Next
  <2>1. PICK c \in Cpus : Call(c) \/ Running(c)
      BY <1>2 DEF Next
  <2>2. CASE Call(c)
      BY <2>2, <1>1, AllocSteps, ReferenceStep, DropStep DEF Call
  <2>3. CASE Running(c)
      BY <2>3, <1>1, AllocSteps, AllocSwapStep, CountSteps, IncrementStep, DecrementStep,
         FreeLinkStep, FreeSwapStep DEF Running
  <2> QED
      BY <2>1, <2>2, <2>3
<1>3. CASE UNCHANGED vars
    BY <1>3, StutterInv
<1> QED
    BY <1>2, <1>3

LEMMA Invariance == Spec /\ SafeRole => []IInv
<1>1. Init /\ SafeRole => IInv
    BY InitInv
<1> QED
    BY <1>1, NextInv, PTL DEF Spec

-----------------------------------------------------------------------------
(***************************************************************************)
(* The theorems.  Their hypothesis SafeRole is about the initial state:    *)
(* role never changes.                                                     *)
(***************************************************************************)

(***************************************************************************)
(* A page is handed out to one caller: as long as no page comes back or    *)
(* one processor allocates, the list of pfa_alloc_page and _pfa_free_page  *)
(* ends, has no page that is in use, and nobody has a page that another    *)
(* processor treats as its own, however many processors and pages.         *)
(***************************************************************************)
THEOREM PagesHaveOneOwner == Spec /\ SafeRole => []OneOwner
<1>1. ASSUME IInv PROVE OneOwner
  <2>1. ListInv /\ OwnInv
      BY <1>1 DEF IInv
  <2>2. ASSUME NEW c \in Cpus, NEW p \in Private(c) PROVE WorksOn(c, p) /\ Alone(c, p)
    <3>1. p = page[c].num
        BY DEF Private
    <3>2. CASE pc[c] \in Freeing
        BY <3>1, <3>2, <2>1 DEF OwnInv, WorksOn, Working
    <3>3. CASE pc[c] \notin Freeing
      <4>1. pc[c] \in Counting /\ p \notin UNION {refs[d] : d \in Cpus}
          BY <3>1, <3>3 DEF Private, Freeing, Counting
      <4>2. PICK d \in Cpus : Receives(c, d)
          BY <2>1, <4>1 DEF OwnInv
      <4>3. Alone(c, p)
          BY <3>1, <4>1, <4>2 DEF Receives
      <4> QED
          BY <3>1, <4>1, <4>3 DEF WorksOn, Working
    <3> QED
        BY <3>2, <3>3
  <2>3. walk[buddy_start] = NULL
      BY <2>1 DEF ListInv, Stops
  <2>4. Listed \cap InUse = {}
      BY <2>1, <2>2 DEF ListInv, Untouched, InUse
  <2>5. \A c, d \in Cpus : c # d => Private(c) \cap (Private(d) \cup refs[d]) = {}
      BY <2>2 DEF Alone
  <2> QED
      BY <2>3, <2>4, <2>5 DEF OneOwner
<1> QED
    BY <1>1, Invariance, PTL

(***************************************************************************)
(* No update of a reference count is lost: whatever the interleaving of    *)
(* the compare-and-swap loops of reference_page and drop_page_reference,   *)
(* the count is the number of references, those being dropped included,    *)
(* and it never wraps.                                                     *)
(***************************************************************************)
THEOREM CountsAreExact == Spec /\ SafeRole => []CountsReferences
<1>1. IInv => CountsReferences
    BY DEF IInv
<1> QED
    BY <1>1, Invariance, PTL

(* Page p is on the list, referenced, or worked on. *)
Present(p) == p \in Listed \/ ~Untouched(p)

BooksExact == \A p : p \in OnBooks <=> Present(p)

LEMMA OnBooksPresent == BooksExact
<1> SUFFICES ASSUME NEW p PROVE p \in OnBooks <=> Present(p)
    BY DEF BooksExact
<1>1. ASSUME p \in OnBooks PROVE Present(p)
  <2>1. CASE p \in Listed
      BY <2>1 DEF Present
  <2>2. ASSUME NEW c \in Cpus, p \in refs[c] PROVE Present(p)
      BY <2>2 DEF Present, Untouched
  <2>3. ASSUME NEW c \in Cpus, p \in Private(c) PROVE Present(p)
      BY <2>3 DEF Present, Untouched, Private, WorksOn, Working, Counting, Freeing
  <2>4. ASSUME NEW c \in Cpus, pc[c] \in Dropping, page[c].num = p PROVE Present(p)
      BY <2>4 DEF Present, Untouched, WorksOn, Working
  <2> QED
      BY <1>1, <2>1, <2>2, <2>3, <2>4 DEF OnBooks, InUse, Dropping
<1>2. ASSUME Present(p), p \notin Listed, p \notin InUse
      PROVE  \E c \in Cpus : pc[c] \in Dropping /\ page[c].num = p
  <2>1. ~Untouched(p)
      BY <1>2 DEF Present
  <2>2. \A c \in Cpus : p \notin refs[c] /\ p \notin Private(c)
      BY <1>2 DEF InUse
  <2>3. PICK c \in Cpus : WorksOn(c, p)
      BY <2>1, <2>2 DEF Untouched
  <2>4. pc[c] \notin Freeing
      BY <2>2, <2>3 DEF Private, Freeing, WorksOn
  <2>5. pc[c] \notin Counting
      BY <2>2, <2>3 DEF Private, Counting, WorksOn
  <2> QED
      BY <2>3, <2>4, <2>5 DEF WorksOn, Working
<1> QED
    BY <1>1, <1>2 DEF OnBooks, Dropping

(* A step about q loses no other page. *)
LEMMA OthersPresent ==
    ASSUME NEW c \in Cpus, NEW q, OthersStay(c), Listed \subseteq Listed' \cup {q},
           \A e \in Cpus : refs[e] \subseteq refs'[e] \cup {q},
           \A p : WorksOn(c, p) => p = q
    PROVE  \A p : p # q => (Present(p) => Present(p)')
<1> SUFFICES ASSUME NEW p, Present(p), p # q PROVE Present(p)'
    OBVIOUS
<1>1. CASE p \in Listed
    BY <1>1 DEF Present
<1>2. ASSUME NEW e \in Cpus, p \in refs[e] PROVE Present(p)'
    BY <1>2 DEF Present, Untouched
<1>3. ASSUME NEW e \in Cpus, WorksOn(e, p) PROVE Present(p)'
  <2>1. e # c
      BY <1>3
  <2>2. WorksOn(e, p)'
      BY <1>3, <2>1 DEF WorksOn, OthersStay
  <2> QED
      BY <2>2 DEF Present, Untouched
<1> QED
    BY <1>1, <1>2, <1>3 DEF Present, Untouched

(* A step that works on the same pages with the same list loses none. *)
LEMMA SamePresent ==
    ASSUME Listed' = Listed, SameWork, page' = page, refs' = refs
    PROVE  \A p : Present(p) => Present(p)'
BY SameWorkFacts DEF Present

(* c takes the count of p to zero, and nobody frees the page. *)
LastDrop(c, p) ==
    pc[c] = "decrement_swap" /\ page[c].num = p /\ refcount'[p] = 0 /\ ~role.frees

LEMMA PresentKept ==
    ASSUME IInv, TypeInv', NEW c \in Cpus, Call(c) \/ Running(c)
    PROVE  \A p : Present(p) => Present(p)' \/ LastDrop(c, p)
<1>1. TypeInv /\ OwnInv /\ refs \in [Cpus -> SUBSET Pages]
    BY TypeParts DEF IInv
<1>2. CASE AllocStart(c) \/ AllocNext(c) \/ AllocNullHead(c) \/ AllocRetry(c)
  <2>1. UNCHANGED <<head, next, refs, page>>
      BY <1>2 DEF AllocStart, AllocNext, AllocNullHead, AllocRetry
  <2>2. PICK l \in Ends \cup Allocating : pc' = [pc EXCEPT ![c] = l]
      BY <1>2, LabelFacts DEF AllocStart, AllocNext, AllocNullHead, AllocRetry, Goto
  <2>3. pc'[c] = l /\ (\A e \in Cpus : e # c => pc'[e] = pc[e]) /\ pc[c] \in Ends \cup Allocating
      BY <1>1, <1>2, <2>2, Moved, LabelFacts DEF AllocStart, AllocNext, AllocNullHead, AllocRetry
  <2>4. SameWork
      BY <2>2, <2>3 DEF SameWork, Ends, Allocating, Counting, Dropping, Freeing
  <2> QED
      BY <1>1, <2>1, <2>4, SameList, SamePresent
<1>3. CASE AllocSwap(c)
  <2>1. PICK q : q = seen[c] /\ q = seen'[c]
      BY <1>3 DEF AllocSwap
  <2>2. Listed' = Listed \ {q} /\ WorksOn(c, q)'
      BY <1>3, <2>1, AllocSwapStep DEF WorksOn
  <2>3. pc[c] = "alloc_swap" /\ refs' = refs
      BY <1>3 DEF AllocSwap
  <2>4. OthersStay(c)
    <3>1. PICK g : /\ page' = [page EXCEPT ![c] = g] /\ pc' = [pc EXCEPT ![c] = "increment"]
                   /\ seen' = [seen EXCEPT ![c] = seen[c]] /\ link' = [link EXCEPT ![c] = NULL]
        BY <1>1, <1>3, Kept DEF AllocSwap, Goto
    <3> QED
        BY <1>1, <3>1, StayEffect
  <2>5. Present(q)'
      BY <2>2 DEF Present, Untouched
  <2>6. \A p : ~WorksOn(c, p)
      BY <2>3, LabelFacts DEF WorksOn
  <2> QED
      BY <2>2, <2>3, <2>4, <2>5, <2>6, OthersPresent
<1>4. ASSUME NEW q \in refs[c], NEW d \in Cpus, Reference(c, q, d) PROVE \A p : Present(p) => Present(p)'
  <2>1. pc[c] = "idle" /\ UNCHANGED <<head, next, refs>>
      BY <1>4 DEF Reference
  <2>2. OthersStay(c)
    <3>1. PICK g : /\ page' = [page EXCEPT ![c] = g] /\ pc' = [pc EXCEPT ![c] = "increment"]
                   /\ seen' = [seen EXCEPT ![c] = seen[c]] /\ link' = [link EXCEPT ![c] = link[c]]
        BY <1>1, <1>4, Kept DEF Reference, Goto
    <3> QED
        BY <1>1, <3>1, StayEffect
  <2>3. Listed' = Listed
      BY <1>1, <2>1, SameList
  <2>4. Present(q)'
      BY <2>1 DEF Present, Untouched
  <2>5. \A p : ~WorksOn(c, p)
      BY <2>1, LabelFacts DEF WorksOn
  <2> QED
      BY <2>1, <2>2, <2>3, <2>4, <2>5, OthersPresent
<1>5. ASSUME NEW q \in refs[c], drop_page_reference(c, q) PROVE \A p : Present(p) => Present(p)'
  <2>1. pc[c] = "idle" /\ UNCHANGED <<head, next>> /\ refs' = [refs EXCEPT ![c] = @ \ {q}]
      BY <1>5 DEF drop_page_reference
  <2>2. OthersStay(c) /\ WorksOn(c, q)'
    <3> DEFINE g == [num |-> q, to |-> {}]
    <3>1. /\ page' = [page EXCEPT ![c] = g] /\ pc' = [pc EXCEPT ![c] = "decrement"] /\ g.num = q
          /\ seen' = [seen EXCEPT ![c] = seen[c]] /\ link' = [link EXCEPT ![c] = link[c]]
        BY <1>1, <1>5, Kept DEF drop_page_reference, Goto
    <3> HIDE DEF g
    <3>2. OthersStay(c) /\ pc'[c] = "decrement" /\ page'[c] = g
        BY <1>1, <3>1, StayEffect
    <3> QED
        BY <3>1, <3>2, LabelFacts DEF WorksOn
  <2>3. Listed' = Listed
      BY <1>1, <2>1, SameList
  <2>4. Present(q)'
      BY <2>2 DEF Present, Untouched
  <2>5. \A p : ~WorksOn(c, p)
      BY <2>1, LabelFacts DEF WorksOn
  <2>6. \A e \in Cpus : refs[e] \subseteq refs'[e] \cup {q}
      BY <1>1, <2>1
  <2> QED
      BY <2>2, <2>3, <2>4, <2>5, <2>6, OthersPresent
<1>6. CASE CountRead(c) \/ CountRetry(c) \/ FreeStart(c) \/ FreeRetry(c) \/ FreeLink(c)
  <2>1. PICK l : /\ pc' = [pc EXCEPT ![c] = l]
                 /\ \/ l \in Counting /\ pc[c] \in Counting
                    \/ l \in Dropping /\ pc[c] \in Dropping
                    \/ l \in Freeing /\ pc[c] \in Freeing
      BY <1>1, <1>6, Kept DEF CountRead, CountRetry, FreeStart, FreeRetry, FreeLink, Goto, Counting, Dropping, Freeing
  <2>2. pc'[c] = l /\ \A e \in Cpus : e # c => pc'[e] = pc[e]
      BY <1>1, <2>1, Moved
  <2>3. SameWork
      BY <2>1, <2>2 DEF SameWork, Counting, Dropping, Freeing
  <2>4. Listed' = Listed
    <3>1. CASE FreeLink(c)
        BY <3>1, FreeLinkStep
    <3>2. CASE ~FreeLink(c)
      <4>1. UNCHANGED <<head, next>>
          BY <1>6, <3>2 DEF CountRead, CountRetry, FreeStart, FreeRetry
      <4> QED
          BY <1>1, <4>1, SameList
    <3> QED
        BY <3>1, <3>2
  <2>5. page' = page /\ refs' = refs
      BY <1>6 DEF CountRead, CountRetry, FreeStart, FreeRetry, FreeLink
  <2> QED
      BY <2>3, <2>4, <2>5, SamePresent
<1>7. CASE IncrementSwap(c)
  <2>1. PICK q : q = page[c].num
      OBVIOUS
  <2>2. /\ pc[c] = "increment_swap" /\ Return(c) /\ UNCHANGED <<head, next>>
        /\ refs' = [d \in Cpus |-> IF d \in page[c].to THEN refs[d] \cup {q} ELSE refs[d]]
      BY <1>7, <2>1 DEF IncrementSwap
  <2>3. PICK d \in Cpus : page[c].to = {d}
      BY <1>1, <2>2 DEF OwnInv, Counting, Receives
  <2>4. q \in refs'[d] /\ \A e \in Cpus : refs[e] \subseteq refs'[e] \cup {q}
      BY <2>2, <2>3
  <2>5. Present(q)'
      BY <2>4 DEF Present, Untouched
  <2> QED
      BY <1>1, <2>1, <2>2, <2>4, <2>5, ReturnEffect, SameList, OthersPresent DEF WorksOn
<1>8. ASSUME DecrementSwap(c) PROVE \A p : Present(p) => Present(p)' \/ LastDrop(c, p)
  <2>1. PICK q : q = page[c].num
      OBVIOUS
  <2>2. /\ pc[c] = "decrement_swap" /\ UNCHANGED <<role, head, next, refs>>
        /\ \/ Return(c) /\ (refcount'[q] # 0 \/ ~role.frees)
           \/ /\ pc' = [pc EXCEPT ![c] = "free"] /\ seen' = [seen EXCEPT ![c] = NULL]
              /\ UNCHANGED <<link, page>>
      BY <1>8, <2>1 DEF DecrementSwap, Goto, See
  <2>3. q \in Pages
      BY <1>1, <2>1, <2>2 DEF TypeInv, Local, Working, Dropping
  <2>4. /\ OthersStay(c)
        /\ refcount'[q] # 0 \/ ~role.frees \/ (pc'[c] = "free" /\ page'[c] = page[c])
    <3>1. CASE Return(c) /\ (refcount'[q] # 0 \/ ~role.frees)
        BY <1>1, <3>1, ReturnEffect
    <3>2. CASE ~(Return(c) /\ (refcount'[q] # 0 \/ ~role.frees))
      <4>1. /\ pc' = [pc EXCEPT ![c] = "free"] /\ page' = [page EXCEPT ![c] = page[c]]
            /\ seen' = [seen EXCEPT ![c] = NULL] /\ link' = [link EXCEPT ![c] = link[c]]
          BY <1>1, <2>2, <3>2, Kept
      <4> QED
          BY <1>1, <4>1, StayEffect
    <3> QED
        BY <3>1, <3>2
  <2>5. Present(q)' \/ LastDrop(c, q)
    <3>1. CASE refcount'[q] # 0
      <4>1. CountsReferences'
          BY <1>8, DecrementStep DEF IInv
      <4>2. refcount'[q] = Cardinality(Holders(q)') + Cardinality(Droppers(q)')
          BY <2>3, <4>1, CountsAs
      <4>3. ~(Holders(q)' = {} /\ Droppers(q)' = {})
          BY <3>1, <4>2, FS_EmptySet
      <4> QED
          BY <4>3 DEF Holders, Droppers, Present, Untouched, WorksOn, Working
    <3>2. CASE pc'[c] = "free" /\ page'[c] = page[c]
        BY <2>1, <3>2 DEF Present, Untouched, WorksOn, Working, Freeing
    <3>3. CASE refcount'[q] = 0 /\ ~role.frees
        BY <2>1, <2>2, <3>3 DEF LastDrop
    <3> QED
        BY <2>4, <3>1, <3>2, <3>3
  <2>6. \A p : WorksOn(c, p) => p = q
      BY <2>1 DEF WorksOn
  <2>7. Listed' = Listed
      BY <1>1, <2>2, SameList
  <2>8. \A p : p # q => (Present(p) => Present(p)')
      BY <2>2, <2>4, <2>6, <2>7, OthersPresent
  <2> QED
      BY <2>5, <2>8
<1>9. CASE FreeSwap(c)
  <2>1. PICK q : q = page[c].num
      OBVIOUS
  <2>2. Listed' = Listed \cup {q}
      BY <1>9, <2>1, FreeSwapStep
  <2>3. OthersStay(c) /\ refs' = refs
      BY <1>1, <1>9, ReturnEffect DEF FreeSwap
  <2>4. Present(q)'
      BY <2>2 DEF Present
  <2> QED
      BY <2>1, <2>2, <2>3, <2>4, OthersPresent DEF WorksOn
<1> QED
    BY <1>2, <1>3, <1>4, <1>5, <1>6, <1>7, <1>8, <1>9 DEF Call, Running

(***************************************************************************)
(* No interleaving of the allocation, counting and freeing loops loses a   *)
(* page: a page that is on the list, in use or being dropped stays so,     *)
(* unless drop_page_reference takes its count to zero where nobody frees   *)
(* it, which is how page.c is wired.                                       *)
(***************************************************************************)
THEOREM PagesLeaveByLastDrop == Spec /\ SafeRole => LeavesByLastDropOnly
<1>0. BooksExact /\ BooksExact'
    BY OnBooksPresent, PTL
<1>1. ASSUME IInv, [Next]_vars
      PROVE  [ \A p \in OnBooks :
                  \/ p \in OnBooks'
                  \/ /\ ~role.frees
                     /\ refcount'[p] = 0
                     /\ \E c \in Cpus : pc[c] = "decrement_swap" /\ page[c].num = p ]_vars
  <2> SUFFICES ASSUME Next, NEW p \in OnBooks, p \notin OnBooks'
               PROVE  /\ ~role.frees
                      /\ refcount'[p] = 0
                      /\ \E c \in Cpus : pc[c] = "decrement_swap" /\ page[c].num = p
      BY <1>1
  <2>1. PICK c \in Cpus : Call(c) \/ Running(c)
      BY DEF Next
  <2>2. TypeInv'
      BY <1>1, NextTypes DEF IInv
  <2>3. Present(p)
      BY <1>0 DEF BooksExact
  <2>5. ~Present(p)'
      BY <1>0 DEF BooksExact
  <2>6. Present(p)' \/ LastDrop(c, p)
      BY <1>1, <2>1, <2>2, <2>3, PresentKept
  <2> QED
      BY <2>5, <2>6 DEF LastDrop
<1> QED
    BY <1>1, Invariance, PTL DEF Spec, LeavesByLastDropOnly

=============================================================================
