------------------------------ MODULE PageAlloc ------------------------------
(***************************************************************************)
(* The lock-free page allocator of the general region                      *)
(* (kernel/src/mm/page_alloc.c) with the reference counts of page.c, on    *)
(* the compare-and-swap of kernel/include/cpu/atomic.h.                    *)
(*                                                                         *)
(* A step is one access to shared memory: a read of the list head, a read  *)
(* or a write of a next_free pointer, a lock cmpxchg.  The processors      *)
(* interleave freely between them; the code disables no interrupts and     *)
(* takes no lock.  A page is its index in global_page_map; NULL is 0,      *)
(* which is never the index of a page on the list.                         *)
(*                                                                         *)
(* _pfa_free_page has no caller in the repository: drop_page_reference     *)
(* takes the count to zero and returns.  role.frees = FALSE is that code.  *)
(* With role.frees = TRUE the one who dropped the last reference goes on   *)
(* to free the page, as the header says, so that _pfa_free_page is checked *)
(* too.  Pages of the buddy allocator, which drop_page_reference gives     *)
(* back to it by their PAGE_BUDDY flag, are left out: nothing in the       *)
(* repository sets that flag.                                              *)
(*                                                                         *)
(* RetryStale, SwapUnconditional and the other operators named for what    *)
(* they get wrong are faulty variants of the definition after them, used   *)
(* to check that a property notices the fault.                             *)
(***************************************************************************)
EXTENDS Integers, FiniteSets

CONSTANTS
    Cpus,               \* processors
    Roles,              \* what the processors do: [allocators : SUBSET Cpus, frees : BOOLEAN]
    DMA_ZONE_BEGIN,     \* first page of the DMA zone: the low general pages end here
    last_kernel_page,   \* last page of the kernel and the page map
    BlockPages,         \* 2^MAX_ORDER, the alignment of the buddy allocator's region
    RefMod              \* refcount is a u16_t: it wraps here

ASSUME PageAllocAssumption ==
    /\ Roles \subseteq [allocators : SUBSET Cpus, frees : BOOLEAN]
    /\ DMA_ZONE_BEGIN \in Nat \ {0, 1}
    /\ last_kernel_page \in Nat /\ last_kernel_page >= DMA_ZONE_BEGIN
    /\ BlockPages \in Nat \ {0}
    /\ RefMod \in Nat \ {0}

(***************************************************************************)
(* A processor has at most one reference on a page and is dropping at most *)
(* one more, so that the 16 bits of refcount suffice for 32767 processors. *)
(***************************************************************************)
ASSUME RefcountAssumption == IsFiniteSet(Cpus) /\ 2 * Cardinality(Cpus) < RefMod

NULL == 0

(* page_alloc_init: the buddy region starts at the next block boundary. *)
buddy_start == ((last_kernel_page + BlockPages) \div BlockPages) * BlockPages

Pages == 1 .. buddy_start

(* The two parts of the general region. *)
LowPages == 1 .. (DMA_ZONE_BEGIN - 1)
UpperPages == (last_kernel_page + 1) .. (buddy_start - 1)

LinksOnePageMore ==
    [p \in Pages |->
        IF p = DMA_ZONE_BEGIN - 1
        THEN IF UpperPages = {} THEN NULL ELSE last_kernel_page + 1
        ELSE IF p \in LowPages \cup UpperPages \cup {buddy_start} THEN p + 1 ELSE NULL]

(***************************************************************************)
(* __init_general_pages: every page points to the next one, the last low   *)
(* page to the first page after the kernel, if there is one.               *)
(***************************************************************************)
InitialNext ==
    [p \in Pages |->
        IF p = DMA_ZONE_BEGIN - 1
        THEN IF UpperPages = {} THEN NULL ELSE last_kernel_page + 1
        ELSE IF p \in LowPages \cup UpperPages THEN p + 1 ELSE NULL]

VARIABLES
    role,       \* how this system uses the allocator
    head,       \* __freelist_head
    next,       \* next[p]: freelist_info.next_free of page p
    refcount,   \* refcount[p]
    refs,       \* refs[c]: pages on which the code running on c has a reference
    pc,         \* pc[c]: where c is
    seen,       \* seen[c]: head, current_head or current_value of the running loop
    link,       \* link[c]: next_head
    page        \* page[c]: the page c works on; for a reference also its receiver

vars == <<role, head, next, refcount, refs, pc, seen, link, page>>

Idle == [num |-> NULL, to |-> {}]

Init ==
    /\ role \in Roles
    /\ head = 1
    /\ next = InitialNext
    /\ refcount = [p \in Pages |-> 0]
    /\ refs = [c \in Cpus |-> {}]
    /\ pc = [c \in Cpus |-> "idle"]
    /\ seen = [c \in Cpus |-> NULL]
    /\ link = [c \in Cpus |-> NULL]
    /\ page = [c \in Cpus |-> Idle]

Goto(c, l) == pc' = [pc EXCEPT ![c] = l]
See(c, v) == seen' = [seen EXCEPT ![c] = v]

(* The call returns: its local variables are gone. *)
Return(c) ==
    /\ Goto(c, "idle")
    /\ See(c, NULL)
    /\ link' = [link EXCEPT ![c] = NULL]
    /\ page' = [page EXCEPT ![c] = Idle]

-----------------------------------------------------------------------------
(***************************************************************************)
(* pfa_alloc_page.  With an empty list it returns NULL at once, which      *)
(* changes nothing.                                                        *)
(***************************************************************************)

AllocStart(c) ==
    /\ pc[c] = "idle"
    /\ c \in role.allocators
    /\ head # NULL
    /\ See(c, head)
    /\ Goto(c, "alloc_next")
    /\ UNCHANGED <<role, head, next, refcount, refs, link, page>>

(* next_head = head->freelist_info.next_free *)
AllocNext(c) ==
    /\ pc[c] = "alloc_next"
    /\ seen[c] # NULL
    /\ link' = [link EXCEPT ![c] = next[seen[c]]]
    /\ Goto(c, "alloc_swap")
    /\ UNCHANGED <<role, head, next, refcount, refs, seen, page>>

(* After a failed swap head is not compared with NULL again. *)
AllocNullHead(c) ==
    /\ pc[c] = "alloc_next"
    /\ seen[c] = NULL
    /\ Goto(c, "null_head")
    /\ UNCHANGED <<role, head, next, refcount, refs, seen, link, page>>

SwapUnconditional(c) ==
    /\ pc[c] = "alloc_swap"
    /\ head' = link[c]
    /\ page' = [page EXCEPT ![c] = [num |-> seen[c], to |-> {c}]]
    /\ link' = [link EXCEPT ![c] = NULL]
    /\ Goto(c, "increment")
    /\ UNCHANGED <<role, next, refcount, refs, seen>>

AllocSwap(c) ==
    /\ pc[c] = "alloc_swap"
    /\ head = seen[c]
    /\ head' = link[c]
    /\ page' = [page EXCEPT ![c] = [num |-> seen[c], to |-> {c}]]
    /\ link' = [link EXCEPT ![c] = NULL]
    /\ Goto(c, "increment")
    /\ UNCHANGED <<role, next, refcount, refs, seen>>

RetryStale(c) ==
    /\ pc[c] = "alloc_swap"
    /\ head # seen[c]
    /\ Goto(c, "alloc_next")
    /\ UNCHANGED <<role, head, next, refcount, refs, seen, link, page>>

(* Another processor was faster: go on with the head that cmpxchg returned. *)
AllocRetry(c) ==
    /\ pc[c] = "alloc_swap"
    /\ head # seen[c]
    /\ See(c, head)
    /\ Goto(c, "alloc_next")
    /\ UNCHANGED <<role, head, next, refcount, refs, link, page>>

-----------------------------------------------------------------------------
(***************************************************************************)
(* reference_page and drop_page_reference.  pfa_alloc_page ends with the   *)
(* first.  A processor that has a reference may take another one and hand  *)
(* it to d; it drops only references it has.                               *)
(***************************************************************************)

Reference(c, p, d) ==
    /\ pc[c] = "idle"
    /\ p \in refs[c] /\ p \notin refs[d]
    /\ \A e \in Cpus : page[e] # [num |-> p, to |-> {d}]
    /\ page' = [page EXCEPT ![c] = [num |-> p, to |-> {d}]]
    /\ Goto(c, "increment")
    /\ UNCHANGED <<role, head, next, refcount, refs, seen, link>>

drop_page_reference(c, p) ==
    /\ pc[c] = "idle"
    /\ p \in refs[c]
    /\ refs' = [refs EXCEPT ![c] = @ \ {p}]
    /\ page' = [page EXCEPT ![c] = [num |-> p, to |-> {}]]
    /\ Goto(c, "decrement")
    /\ UNCHANGED <<role, head, next, refcount, seen, link>>

(* counter16_increment_atomic: current_value = *counter *)
CountRead(c) ==
    /\ pc[c] \in {"increment", "decrement"}
    /\ See(c, refcount[page[c].num])
    /\ Goto(c, IF pc[c] = "increment" THEN "increment_swap" ELSE "decrement_swap")
    /\ UNCHANGED <<role, head, next, refcount, refs, link, page>>

IncrementLost(c) ==
    /\ pc[c] = "increment_swap"
    /\ refcount' = [refcount EXCEPT ![page[c].num] = (seen[c] + 1) % RefMod]
    /\ refs' = [d \in Cpus |-> IF d \in page[c].to THEN refs[d] \cup {page[c].num} ELSE refs[d]]
    /\ Return(c)
    /\ UNCHANGED <<role, head, next>>

IncrementSwap(c) ==
    /\ pc[c] = "increment_swap"
    /\ refcount[page[c].num] = seen[c]
    /\ refcount' = [refcount EXCEPT ![page[c].num] = (@ + 1) % RefMod]
    /\ refs' = [d \in Cpus |-> IF d \in page[c].to THEN refs[d] \cup {page[c].num} ELSE refs[d]]
    /\ Return(c)
    /\ UNCHANGED <<role, head, next>>

DropTestsOldCount(c) ==
    /\ pc[c] = "decrement_swap"
    /\ refcount[page[c].num] = seen[c]
    /\ refcount' = [refcount EXCEPT ![page[c].num] = (@ - 1) % RefMod]
    /\ IF refcount[page[c].num] = 0 /\ role.frees
       THEN /\ Goto(c, "free")
            /\ See(c, NULL)
            /\ UNCHANGED <<link, page>>
       ELSE Return(c)
    /\ UNCHANGED <<role, head, next, refs>>

(***************************************************************************)
(* The decrement ends drop_page_reference.  Going on to free the page is   *)
(* the caller's doing, where callers do.                                   *)
(***************************************************************************)
DecrementSwap(c) ==
    /\ pc[c] = "decrement_swap"
    /\ refcount[page[c].num] = seen[c]
    /\ refcount' = [refcount EXCEPT ![page[c].num] = (@ - 1) % RefMod]
    /\ IF refcount'[page[c].num] = 0 /\ role.frees
       THEN /\ Goto(c, "free")
            /\ See(c, NULL)
            /\ UNCHANGED <<link, page>>
       ELSE Return(c)
    /\ UNCHANGED <<role, head, next, refs>>

CountRetry(c) ==
    /\ pc[c] \in {"increment_swap", "decrement_swap"}
    /\ refcount[page[c].num] # seen[c]
    /\ See(c, refcount[page[c].num])
    /\ UNCHANGED <<role, head, next, refcount, refs, pc, link, page>>

-----------------------------------------------------------------------------
(* _pfa_free_page *)

FreeStart(c) ==
    /\ pc[c] = "free"
    /\ See(c, head)
    /\ Goto(c, "free_link")
    /\ UNCHANGED <<role, head, next, refcount, refs, link, page>>

(* new_head->freelist_info.next_free = current_head *)
FreeLink(c) ==
    /\ pc[c] = "free_link"
    /\ next' = [next EXCEPT ![page[c].num] = seen[c]]
    /\ Goto(c, "free_swap")
    /\ UNCHANGED <<role, head, refcount, refs, seen, link, page>>

FreeSwap(c) ==
    /\ pc[c] = "free_swap"
    /\ head = seen[c]
    /\ head' = page[c].num
    /\ Return(c)
    /\ UNCHANGED <<role, next, refcount, refs>>

FreeRetry(c) ==
    /\ pc[c] = "free_swap"
    /\ head # seen[c]
    /\ See(c, head)
    /\ Goto(c, "free_link")
    /\ UNCHANGED <<role, head, next, refcount, refs, link, page>>

-----------------------------------------------------------------------------

Running(c) ==
    \/ AllocNext(c) \/ AllocNullHead(c) \/ AllocSwap(c) \/ AllocRetry(c)
    \/ CountRead(c) \/ IncrementSwap(c) \/ DecrementSwap(c) \/ CountRetry(c)
    \/ FreeStart(c) \/ FreeLink(c) \/ FreeSwap(c) \/ FreeRetry(c)

Call(c) ==
    \/ AllocStart(c)
    \/ \E p \in refs[c], d \in Cpus : Reference(c, p, d)
    \/ \E p \in refs[c] : drop_page_reference(c, p)

Next == \E c \in Cpus : Call(c) \/ Running(c)

(* A processor that has started a call keeps executing instructions. *)
Spec == Init /\ [][Next]_vars /\ \A c \in Cpus : WF_vars(Running(c))

-----------------------------------------------------------------------------
(***************************************************************************)
(* Properties.                                                             *)
(***************************************************************************)

Ends == {"idle", "null_head"}

(* Pointers point into the page map and counts keep their width. *)
TypeOK ==
    /\ role \in Roles
    /\ head \in Pages \cup {NULL}
    /\ next \in [Pages -> Pages \cup {NULL}]
    /\ refcount \in [Pages -> 0 .. (RefMod - 1)]
    /\ refs \in [Cpus -> SUBSET Pages]
    /\ pc \in [Cpus -> Ends \cup {"alloc_next", "alloc_swap", "increment", "increment_swap",
                  "decrement", "decrement_swap", "free", "free_link", "free_swap"}]
    /\ seen \in [Cpus -> Nat]
    /\ link \in [Cpus -> Pages \cup {NULL}]
    /\ page \in [Cpus -> [num : Pages \cup {NULL}, to : SUBSET Cpus]]

(* walk[i] is the page i links behind the head, NULL past the end. *)
walk[i \in 0 .. buddy_start] ==
    IF i = 0 THEN head
    ELSE IF walk[i - 1] = NULL THEN NULL ELSE next[walk[i - 1]]

Listed == {walk[i] : i \in 0 .. buddy_start} \ {NULL}

(***************************************************************************)
(* The page c alone may touch: it has unlinked it and not yet returned it, *)
(* or it is putting it back.                                               *)
(***************************************************************************)
Private(c) ==
    IF \/ pc[c] \in {"increment", "increment_swap"} /\ page[c].num \notin UNION {refs[d] : d \in Cpus}
       \/ pc[c] \in {"free", "free_link", "free_swap"}
    THEN {page[c].num} ELSE {}

InUse == UNION {refs[c] \cup Private(c) : c \in Cpus}

(***************************************************************************)
(* The list ends, no page on it is in use, and no processor works on a     *)
(* page as its own that another one has too: however the reads and swaps   *)
(* of the processors interleave, a page is handed out to one caller.       *)
(***************************************************************************)
OneOwner ==
    /\ walk[buddy_start] = NULL
    /\ Listed \cap InUse = {}
    /\ \A c, d \in Cpus : c # d => Private(c) \cap (Private(d) \cup refs[d]) = {}

(***************************************************************************)
(* No increment or decrement of a reference count is lost to a concurrent  *)
(* one: the count is the number of references that exist, those being      *)
(* dropped included until their decrement.                                 *)
(***************************************************************************)
CountsReferences ==
    \A p \in Pages :
        refcount[p] = Cardinality({c \in Cpus : p \in refs[c]})
                        + Cardinality({c \in Cpus : /\ pc[c] \in {"decrement", "decrement_swap"}
                                                    /\ page[c].num = p})

(* Pages on the list, in use, or with a reference being dropped *)
OnBooks ==
    Listed \cup InUse \cup
        {page[c].num : c \in {d \in Cpus : pc[d] \in {"decrement", "decrement_swap"}}}

(***************************************************************************)
(* A page leaves the books in one way only: a drop takes its count to zero *)
(* and nobody frees it.  No interleaving of allocations, references, drops *)
(* and frees loses a page otherwise, and none at all where the last holder *)
(* frees.                                                                  *)
(***************************************************************************)
LeavesByLastDropOnly ==
    [][ \A p \in OnBooks :
            \/ p \in OnBooks'
            \/ /\ ~role.frees
               /\ refcount'[p] = 0
               /\ \E c \in Cpus : pc[c] = "decrement_swap" /\ page[c].num = p ]_vars

(***************************************************************************)
(* page_alloc.h, of the free functions: they "will be called if refcount = *)
(* 0 in the drop reference routine".  Then no page of the general region   *)
(* is ever lost.                                                           *)
(***************************************************************************)
NothingLost == LowPages \cup UpperPages \subseteq OnBooks

(***************************************************************************)
(* While no page comes back every allocation ends: a swap fails only       *)
(* because another processor took a page, and the pages are finite.        *)
(***************************************************************************)
AllocEnds == \A c \in Cpus : (~role.frees /\ pc[c] = "alloc_next") ~> pc[c] \in Ends

=============================================================================
