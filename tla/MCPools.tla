------------------------------- MODULE MCPools -------------------------------
(***************************************************************************)
(* The two allocators that keep linked lists, the page allocator and an    *)
(* object cache, for TLC.  They share no state, so each is explored with   *)
(* the other in its initial state.                                         *)
(***************************************************************************)
EXTENDS MCPageAlloc, SlabCache

poolVars == <<vars, slabVars>>

PoolInit == Init /\ SlabInit

PoolNext ==
    \/ SlabInit /\ Next /\ UNCHANGED slabVars
    \/ Init /\ SlabNext /\ UNCHANGED vars

(* A processor that has started a call keeps executing instructions. *)
PoolSpec ==
    /\ PoolInit
    /\ [][PoolNext]_poolVars
    /\ \A c \in Cpus : WF_poolVars(Running(c) /\ UNCHANGED slabVars)

=============================================================================
