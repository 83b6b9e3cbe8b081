------------------------------ MODULE PagePool ------------------------------
(***************************************************************************)
(* What a page allocator promises its callers: every page of the pool is   *)
(* either free or in use, pages enter the pool only while it is being      *)
(* filled, and from then on a page changes hands but is never lost and     *)
(* never comes from nowhere.                                               *)
(***************************************************************************)
EXTENDS Integers

VARIABLES
    free,   \* pages nobody uses
    used,   \* pages callers own
    open    \* the pool is filled and serves callers

poolVars == <<free, used, open>>

Init == free = {} /\ used = {} /\ open = FALSE

(* Fresh pages enter the pool. *)
Fill ==
    /\ ~open /\ ~open'
    /\ free \subseteq free'
    /\ (free' \ free) \cap used = {}
    /\ used' = used

Open == ~open /\ open' /\ UNCHANGED <<free, used>>

(* A caller gets free pages, or gives some of its pages back. *)
Take == open /\ open' /\ free' \subseteq free /\ used' = used \cup (free \ free')
Give == open /\ open' /\ used' \subseteq used /\ free' = free \cup (used \ used')

Next == Fill \/ Open \/ Take \/ Give

Spec == Init /\ [][Next]_poolVars

=============================================================================
