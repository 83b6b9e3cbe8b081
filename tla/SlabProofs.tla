----------------------------- MODULE SlabProofs ------------------------------
(***************************************************************************)
(* Proofs about SlabCache: for every number of slabs and every number of   *)
(* objects in a slab the lists stay sound, the chain inside a slab is      *)
(* exactly what the callers do not have, and free slabs are opened last.   *)
(*                                                                         *)
(* A call goes through states that break the invariant (a slab is taken    *)
(* off one list and put on the next, a free slab sits on the partial list  *)
(* before its first object is taken), so the invariant SInv is stated of a *)
(* cache value, and its parts are followed through the helpers of the      *)
(* code: PlacedBut says where a slab in transit is.                        *)
(***************************************************************************)
EXTENDS SlabCache, ListLemmas

Links == Slabs \cup {NoSlab}

(* The walk along the list that starts at h. *)
ListFrom(h, next) == CHOOSE g : Follows(g, h, next, Slabs, NoSlab, MaxSlabs)
OnFrom(h, next) == Met(ListFrom(h, next), NoSlab, MaxSlabs)

(* The lists end, share no slab, and prev is the inverse of next on them. *)
Sound(h, next) ==
    /\ Stops(ListFrom(h, next), NoSlab, MaxSlabs)
    /\ Once(ListFrom(h, next), NoSlab, MaxSlabs)

TwoWay(h, prev, next) ==
    \A s \in OnFrom(h, next) :
        /\ prev[s] = NoSlab <=> s = h
        /\ next[s] # NoSlab => prev[next[s]] = s

Linked(head, prev, next) ==
    /\ \A l \in Lists : Sound(head[l], next) /\ TwoWay(head[l], prev, next)
    /\ \A l, m \in Lists : l # m => OnFrom(head[l], next) \cap OnFrom(head[m], next) = {}

LEMMA SlabCount ==
    /\ MaxSlabs \in Nat \ {0} /\ NoSlab \notin Slabs /\ Slabs \subseteq Nat
    /\ IsFiniteSet(Slabs) /\ Cardinality(Slabs) = MaxSlabs
<1>1. MaxSlabs \in Nat \ {0} /\ NoSlab \notin Slabs /\ Slabs \subseteq Nat
    BY SlabAssumption DEF Slabs, NoSlab
<1>2. 1 \in Int /\ MaxSlabs \in Int
    BY <1>1
<1>3. /\ IsFiniteSet(1 .. MaxSlabs)
      /\ Cardinality(1 .. MaxSlabs) = IF 1 > MaxSlabs THEN 0 ELSE MaxSlabs - 1 + 1
    BY <1>2, FS_Interval
<1> QED
    BY <1>1, <1>3 DEF Slabs

LEMMA TheList ==
    ASSUME NEW h \in Links, NEW next \in [Slabs -> Links]
    PROVE  /\ Follows(ListFrom(h, next), h, next, Slabs, NoSlab, MaxSlabs)
           /\ \A g : Follows(g, h, next, Slabs, NoSlab, MaxSlabs) => g = ListFrom(h, next)
<1> DEFINE P(g) == Follows(g, h, next, Slabs, NoSlab, MaxSlabs)
<1>1. \E g : P(g)
    BY SlabCount, FollowsExists DEF Links
<1>2. ListFrom(h, next) = CHOOSE g : P(g)
    BY DEF ListFrom
<1> HIDE DEF P
<1>3. P(ListFrom(h, next))
    BY <1>1, <1>2
<1>4. ASSUME NEW g, P(g) PROVE g = ListFrom(h, next)
  <2>1. /\ Follows(ListFrom(h, next), h, next, Slabs, NoSlab, MaxSlabs)
        /\ Follows(g, h, next, Slabs, NoSlab, MaxSlabs)
      BY <1>3, <1>4 DEF P
  <2>2. \A p \in Met(ListFrom(h, next), NoSlab, MaxSlabs) : next[p] = next[p]
      OBVIOUS
  <2> QED
      BY <2>1, <2>2, SlabCount, SameWalk
<1> QED
    BY <1>3, <1>4 DEF P

(* What is on a list is a slab, and so is every successor that is one.     *)
LEMMA OnFacts ==
    ASSUME NEW h \in Links, NEW next \in [Slabs -> Links]
    PROVE  /\ OnFrom(h, next) \subseteq Slabs
           /\ h # NoSlab => h \in OnFrom(h, next)
           /\ h = NoSlab => OnFrom(h, next) = {}
           /\ Stops(ListFrom(h, next), NoSlab, MaxSlabs) =>
                \A s \in OnFrom(h, next) : next[s] # NoSlab => next[s] \in OnFrom(h, next)
<1> DEFINE g == ListFrom(h, next)
<1>1. Follows(g, h, next, Slabs, NoSlab, MaxSlabs) /\ MaxSlabs \in Nat \ {0}
    BY TheList, SlabCount
<1>2. OnFrom(h, next) = Met(g, NoSlab, MaxSlabs)
    BY DEF OnFrom
<1> HIDE DEF g
<1>3. g[0] = h /\ 0 \in 0 .. MaxSlabs /\ g \in [0 .. MaxSlabs -> Slabs \cup {NoSlab}]
    BY <1>1 DEF Follows, Along
<1>4. OnFrom(h, next) \subseteq Slabs
    BY <1>2, <1>3 DEF Met
<1>5. h # NoSlab => h \in OnFrom(h, next)
    BY <1>2, <1>3 DEF Met
<1>6. ASSUME h = NoSlab PROVE OnFrom(h, next) = {}
  <2>1. \A j \in 0 .. MaxSlabs : 0 <= j => g[j] = NoSlab
      BY <1>1, <1>3, <1>6, NullStays
  <2> QED
      BY <1>2, <2>1 DEF Met
<1>7. ASSUME Stops(g, NoSlab, MaxSlabs), NEW s \in OnFrom(h, next), next[s] # NoSlab PROVE next[s] \in OnFrom(h, next)
  <2>1. PICK i \in 0 .. MaxSlabs : g[i] = s /\ s # NoSlab
      BY <1>2 DEF Met
  <2>2. i # MaxSlabs
      BY <1>7, <2>1 DEF Stops
  <2>3. i + 1 \in 1 .. MaxSlabs /\ i + 1 \in 0 .. MaxSlabs /\ (i + 1) - 1 = i
      BY <1>1, <2>2
  <2>4. g[i + 1] = IF g[(i + 1) - 1] = NoSlab THEN NoSlab ELSE next[g[(i + 1) - 1]]
      BY <1>1, <2>3 DEF Follows, Along
  <2>5. g[i + 1] = next[s]
      BY <2>1, <2>3, <2>4
  <2> QED
      BY <1>2, <1>7, <2>3, <2>5 DEF Met
<1> QED
    BY <1>4, <1>5, <1>6, <1>7 DEF g

(* A list none of whose slabs has a new successor is what it was. *)
LEMMA ListStays ==
    ASSUME NEW h \in Links, NEW next \in [Slabs -> Links], NEW next2 \in [Slabs -> Links],
           \A s \in OnFrom(h, next) : next2[s] = next[s]
    PROVE  ListFrom(h, next2) = ListFrom(h, next) /\ OnFrom(h, next2) = OnFrom(h, next)
<1>1. /\ Follows(ListFrom(h, next), h, next, Slabs, NoSlab, MaxSlabs)
      /\ Follows(ListFrom(h, next2), h, next2, Slabs, NoSlab, MaxSlabs)
    BY TheList
<1>2. \A p \in Met(ListFrom(h, next), NoSlab, MaxSlabs) : next2[p] = next[p]
    BY DEF OnFrom
<1>3. ListFrom(h, next2) = ListFrom(h, next)
    BY <1>1, <1>2, SlabCount, SameWalk
<1> QED
    BY <1>3 DEF OnFrom

(* The predecessor on the list is the one prev names. *)
LEMMA Predecessor ==
    ASSUME NEW h \in Links, NEW prev, NEW next \in [Slabs -> Links], Sound(h, next), TwoWay(h, prev, next),
           NEW s \in OnFrom(h, next), s # h
    PROVE  \E i \in 1 .. MaxSlabs : /\ ListFrom(h, next)[i] = s /\ ListFrom(h, next)[i - 1] = prev[s]
                                    /\ prev[s] \in OnFrom(h, next) /\ next[prev[s]] = s
<1> DEFINE g == ListFrom(h, next)
<1>1. Follows(g, h, next, Slabs, NoSlab, MaxSlabs) /\ MaxSlabs \in Nat \ {0}
    BY TheList, SlabCount
<1>2. OnFrom(h, next) = Met(g, NoSlab, MaxSlabs)
    BY DEF OnFrom
<1> HIDE DEF g
<1>3. PICK i \in 0 .. MaxSlabs : g[i] = s /\ s # NoSlab
    BY <1>2 DEF Met
<1>4. i # 0
    BY <1>1, <1>3 DEF Follows, Along
<1>5. i \in 1 .. MaxSlabs /\ i - 1 \in 0 .. MaxSlabs
    BY <1>1, <1>4
<1>6. s = IF g[i - 1] = NoSlab THEN NoSlab ELSE next[g[i - 1]]
    BY <1>1, <1>3, <1>5 DEF Follows, Along
<1>7. g[i - 1] # NoSlab /\ next[g[i - 1]] = s /\ g[i - 1] \in OnFrom(h, next)
    BY <1>2, <1>3, <1>5, <1>6 DEF Met
<1>8. prev[s] = g[i - 1]
    BY <1>3, <1>7 DEF TwoWay
<1> QED
    BY <1>3, <1>5, <1>7, <1>8 DEF g

-----------------------------------------------------------------------------
(***************************************************************************)
(* __link_slab and __unlink_slab on the heads and the pointers.            *)
(***************************************************************************)

(* s is linked before h. *)
LEMMA ListPushed ==
    ASSUME NEW h \in Links, NEW next \in [Slabs -> Links], NEW s \in Slabs, next[s] = h,
           Sound(h, next), s \notin OnFrom(h, next)
    PROVE  Sound(s, next) /\ OnFrom(s, next) = OnFrom(h, next) \cup {s}
<1> DEFINE g == ListFrom(h, next)
           w == ListFrom(s, next)
<1>1. Follows(g, h, next, Slabs, NoSlab, MaxSlabs) /\ Follows(w, s, next, Slabs, NoSlab, MaxSlabs)
    BY TheList DEF Links
<1>2. Stops(g, NoSlab, MaxSlabs) /\ Once(g, NoSlab, MaxSlabs) /\ s \notin Met(g, NoSlab, MaxSlabs)
    BY DEF Sound, OnFrom
<1> HIDE DEF g, w
<1>3. /\ Stops(w, NoSlab, MaxSlabs) /\ Once(w, NoSlab, MaxSlabs)
      /\ Met(w, NoSlab, MaxSlabs) = Met(g, NoSlab, MaxSlabs) \cup {s}
    BY <1>1, <1>2, SlabCount, PushWalk
<1> QED
    BY <1>3 DEF Sound, OnFrom, g, w

(* The head s is unlinked. *)
LEMMA ListPopped ==
    ASSUME NEW next \in [Slabs -> Links], NEW s \in Slabs, Sound(s, next)
    PROVE  Sound(next[s], next) /\ OnFrom(next[s], next) = OnFrom(s, next) \ {s}
<1> DEFINE g == ListFrom(s, next)
           w == ListFrom(next[s], next)
<1>1. Follows(g, s, next, Slabs, NoSlab, MaxSlabs) /\ Follows(w, next[s], next, Slabs, NoSlab, MaxSlabs)
    BY TheList DEF Links
<1>2. Stops(g, NoSlab, MaxSlabs) /\ Once(g, NoSlab, MaxSlabs)
    BY DEF Sound
<1> HIDE DEF g, w
<1>3. /\ Stops(w, NoSlab, MaxSlabs) /\ Once(w, NoSlab, MaxSlabs)
      /\ Met(w, NoSlab, MaxSlabs) = Met(g, NoSlab, MaxSlabs) \ {s}
    BY <1>1, <1>2, SlabCount, PopWalk
<1> QED
    BY <1>3 DEF Sound, OnFrom, g, w

(* s, which follows p, is unlinked. *)
LEMMA ListSkipped ==
    ASSUME NEW h \in Links, NEW next \in [Slabs -> Links], NEW next2 \in [Slabs -> Links],
           Sound(h, next), NEW s \in Slabs, NEW p \in Slabs, NEW i \in 1 .. MaxSlabs,
           ListFrom(h, next)[i] = s, ListFrom(h, next)[i - 1] = p, next2[p] = next[s],
           \A t \in Slabs : t # p => next2[t] = next[t]
    PROVE  Sound(h, next2) /\ OnFrom(h, next2) = OnFrom(h, next) \ {s}
<1> DEFINE g == ListFrom(h, next)
           w == ListFrom(h, next2)
<1>1. Follows(g, h, next, Slabs, NoSlab, MaxSlabs) /\ Follows(w, h, next2, Slabs, NoSlab, MaxSlabs)
    BY TheList
<1>2. Stops(g, NoSlab, MaxSlabs) /\ Once(g, NoSlab, MaxSlabs) /\ Met(g, NoSlab, MaxSlabs) \subseteq Slabs
    BY OnFacts DEF Sound, OnFrom
<1>3. g[i] = s /\ g[i - 1] = p
    OBVIOUS
<1> HIDE DEF g, w
<1>4. g[i] # NoSlab /\ \A q \in Met(g, NoSlab, MaxSlabs) : next2[q] = IF q = g[i - 1] THEN next[g[i]] ELSE next[q]
    BY <1>2, <1>3, SlabCount
<1>5. /\ Stops(w, NoSlab, MaxSlabs) /\ Once(w, NoSlab, MaxSlabs)
      /\ Met(w, NoSlab, MaxSlabs) = Met(g, NoSlab, MaxSlabs) \ {g[i]}
    BY <1>1, <1>2, <1>4, SlabCount, SkipWalk
<1> QED
    BY <1>3, <1>5 DEF Sound, OnFrom, g, w

(* The heads and pointers after s is linked into l, and after it is unlinked. *)
LinksIn(head, prev, next, s, l, head2, prev2, next2) ==
    /\ head2 = [head EXCEPT ![l] = s]
    /\ next2 = [next EXCEPT ![s] = head[l]]
    /\ prev2[s] = NoSlab
    /\ head[l] # NoSlab => prev2[head[l]] = s
    /\ \A t \in Slabs : t # s /\ t # head[l] => prev2[t] = prev[t]

Unlinks(head, prev, next, s, l, head2, prev2, next2) ==
    /\ head2 = IF prev[s] = NoSlab THEN [head EXCEPT ![l] = next[s]] ELSE head
    /\ next2 = IF prev[s] = NoSlab THEN next ELSE [next EXCEPT ![prev[s]] = next[s]]
    /\ prev2 = IF next[s] = NoSlab THEN prev ELSE [prev EXCEPT ![next[s]] = prev[s]]

LEMMA LinkLists ==
    ASSUME NEW head \in [Lists -> Links], NEW prev \in [Slabs -> Links], NEW next \in [Slabs -> Links],
           Linked(head, prev, next), NEW s \in Slabs, NEW l \in Lists,
           \A m \in Lists : s \notin OnFrom(head[m], next),
           NEW head2, NEW prev2, NEW next2, LinksIn(head, prev, next, s, l, head2, prev2, next2)
    PROVE  /\ Linked(head2, prev2, next2)
           /\ OnFrom(head2[l], next2) = OnFrom(head[l], next) \cup {s}
           /\ \A m \in Lists : m # l => OnFrom(head2[m], next2) = OnFrom(head[m], next)
<1>0. /\ head2 = [head EXCEPT ![l] = s]
      /\ next2 = [next EXCEPT ![s] = head[l]]
      /\ prev2[s] = NoSlab
      /\ head[l] # NoSlab => prev2[head[l]] = s
      /\ \A t \in Slabs : t # s /\ t # head[l] => prev2[t] = prev[t]
    BY DEF LinksIn
<1>1. /\ next2 \in [Slabs -> Links] /\ next2[s] = head[l] /\ \A t \in Slabs : t # s => next2[t] = next[t]
      /\ head2[l] = s /\ \A m \in Lists : m # l => head2[m] = head[m]
      /\ s \in Links /\ s # NoSlab /\ \A m \in Lists : head[m] \in Links
    BY <1>0, SlabCount DEF Links
<1>2. ASSUME NEW m \in Lists
      PROVE  /\ OnFrom(head[m], next) \subseteq Slabs
             /\ ListFrom(head[m], next2) = ListFrom(head[m], next)
             /\ OnFrom(head[m], next2) = OnFrom(head[m], next)
             /\ \A t \in OnFrom(head[m], next) :
                    /\ t \in Slabs /\ t # s /\ next2[t] = next[t]
                    /\ next[t] # NoSlab => next[t] \in OnFrom(head[m], next)
  <2>1. OnFrom(head[m], next) \subseteq Slabs /\ Stops(ListFrom(head[m], next), NoSlab, MaxSlabs)
      BY <1>1, OnFacts DEF Linked, Sound
  <2>2. \A t \in OnFrom(head[m], next) : t \in Slabs /\ t # s /\ next2[t] = next[t]
      BY <1>1, <2>1
  <2>3. \A t \in OnFrom(head[m], next) : next[t] # NoSlab => next[t] \in OnFrom(head[m], next)
      BY <1>1, <2>1, OnFacts
  <2>4. head[m] \in Links /\ next2 \in [Slabs -> Links] /\ \A t \in OnFrom(head[m], next) : next2[t] = next[t]
      BY <1>1, <2>2
  <2>5. ListFrom(head[m], next2) = ListFrom(head[m], next) /\ OnFrom(head[m], next2) = OnFrom(head[m], next)
      BY <2>4, ListStays
  <2> QED
      BY <2>1, <2>2, <2>3, <2>5
<1>3. Sound(s, next2) /\ OnFrom(s, next2) = OnFrom(head[l], next) \cup {s}
  <2>1. Sound(head[l], next2) /\ s \notin OnFrom(head[l], next2) /\ OnFrom(head[l], next2) = OnFrom(head[l], next)
      BY <1>2 DEF Linked, Sound
  <2>2. PICK h : h = head[l]
      OBVIOUS
  <2>3. PICK n : n = next2
      OBVIOUS
  <2>4. /\ h \in Links /\ n \in [Slabs -> Links] /\ s \in Slabs /\ n[s] = h
        /\ Sound(h, n) /\ s \notin OnFrom(h, n)
      BY <1>1, <2>1, <2>2, <2>3
  <2>5. Sound(s, n) /\ OnFrom(s, n) = OnFrom(h, n) \cup {s}
      BY ONLY <2>4, ListPushed
  <2> QED
      BY <2>1, <2>2, <2>3, <2>5
<1>4. \A m \in Lists : m # l => OnFrom(head2[m], next2) = OnFrom(head[m], next)
    BY <1>1, <1>2
<1>5. \A m \in Lists : Sound(head2[m], next2)
    BY <1>1, <1>2, <1>3 DEF Linked, Sound
<1>6. head[l] # NoSlab => head[l] \in OnFrom(head[l], next)
    BY <1>1, OnFacts
<1>7. ASSUME NEW m \in Lists, m # l PROVE TwoWay(head2[m], prev2, next2)
  <2>1. TwoWay(head[m], prev, next) /\ OnFrom(head[l], next) \cap OnFrom(head[m], next) = {}
      BY <1>7 DEF Linked
  <2>2. ASSUME NEW t \in OnFrom(head[m], next) PROVE prev2[t] = prev[t]
    <3>1. t \in Slabs /\ t # s /\ t # NoSlab
        BY <1>2, SlabCount
    <3>2. t # head[l]
        BY <1>6, <2>1, <3>1
    <3> QED
        BY <1>0, <3>1, <3>2
  <2> SUFFICES ASSUME NEW t \in OnFrom(head[m], next)
               PROVE  (prev2[t] = NoSlab <=> t = head[m]) /\ (next2[t] # NoSlab => prev2[next2[t]] = t)
      BY <1>1, <1>4, <1>7 DEF TwoWay
  <2> QED
      BY <1>2, <2>1, <2>2 DEF TwoWay
<1>8. TwoWay(s, prev2, next2)
  <2>1. TwoWay(head[l], prev, next)
      BY DEF Linked
  <2> SUFFICES ASSUME NEW t \in OnFrom(head[l], next) \cup {s}
               PROVE  (prev2[t] = NoSlab <=> t = s) /\ (next2[t] # NoSlab => prev2[next2[t]] = t)
      BY <1>3 DEF TwoWay
  <2>2. CASE t = s
      BY <2>2, <1>0, <1>1
  <2>3. CASE t # s
    <3>1. t \in OnFrom(head[l], next) /\ t \in Slabs /\ next2[t] = next[t]
        BY <2>3, <1>2
    <3>2. prev2[t] # NoSlab
      <4>1. CASE t = head[l]
          BY <1>0, <1>1, <3>1, <4>1, SlabCount
      <4>2. CASE t # head[l]
          BY <1>0, <2>1, <2>3, <3>1, <4>2 DEF TwoWay
      <4> QED
          BY <4>1, <4>2
    <3>3. ASSUME next[t] # NoSlab PROVE prev2[next[t]] = t
      <4>1. /\ next[t] \in OnFrom(head[l], next) /\ next[t] \in Slabs /\ next[t] # s
            /\ prev[next[t]] = t /\ t # NoSlab
          BY <1>2, <2>1, <3>1, <3>3, SlabCount DEF TwoWay
      <4>2. next[t] # head[l]
          BY <2>1, <4>1 DEF TwoWay
      <4> QED
          BY <1>0, <4>1, <4>2
    <3> QED
        BY <2>3, <3>1, <3>2, <3>3
  <2> QED
      BY <2>2, <2>3
<1>9. \A m, k \in Lists : m # k => OnFrom(head2[m], next2) \cap OnFrom(head2[k], next2) = {}
  <2> SUFFICES ASSUME NEW m \in Lists, NEW k \in Lists, m # k
               PROVE  OnFrom(head2[m], next2) \cap OnFrom(head2[k], next2) = {}
      OBVIOUS
  <2>1. OnFrom(head[m], next) \cap OnFrom(head[k], next) = {}
      BY DEF Linked
  <2>2. /\ OnFrom(head2[m], next2) = IF m = l THEN OnFrom(head[m], next) \cup {s} ELSE OnFrom(head[m], next)
        /\ OnFrom(head2[k], next2) = IF k = l THEN OnFrom(head[k], next) \cup {s} ELSE OnFrom(head[k], next)
      BY <1>1, <1>3, <1>4
  <2>3. s \notin OnFrom(head[m], next) /\ s \notin OnFrom(head[k], next)
      OBVIOUS
  <2> QED
      BY <2>1, <2>2, <2>3
<1> QED
    BY <1>1, <1>3, <1>4, <1>5, <1>7, <1>8, <1>9 DEF Linked

(* s has left list l. *)
OffList(head, next, s, l, head2, next2) ==
    /\ OnFrom(head2[l], next2) = OnFrom(head[l], next) \ {s}
    /\ \A m \in Lists : m # l => OnFrom(head2[m], next2) = OnFrom(head[m], next)

LEMMA UnlinkLists ==
    ASSUME NEW head \in [Lists -> Links], NEW prev \in [Slabs -> Links], NEW next \in [Slabs -> Links],
           Linked(head, prev, next), NEW l \in Lists, NEW s, s \in OnFrom(head[l], next),
           NEW head2, NEW prev2, NEW next2, Unlinks(head, prev, next, s, l, head2, prev2, next2)
    PROVE  Linked(head2, prev2, next2) /\ OffList(head, next, s, l, head2, next2)
<1>1. /\ Sound(head[l], next) /\ TwoWay(head[l], prev, next) /\ \A m \in Lists : head[m] \in Links
      /\ OnFrom(head[l], next) \subseteq Slabs /\ s \in Slabs /\ prev[s] \in Links /\ next[s] \in Links
      /\ s # NoSlab
  <2>1. Sound(head[l], next) /\ TwoWay(head[l], prev, next) /\ \A m \in Lists : head[m] \in Links
      BY DEF Linked
  <2>2. OnFrom(head[l], next) \subseteq Slabs
      BY <2>1, OnFacts
  <2>3. s \in Slabs
      BY <2>2
  <2> QED
      BY <2>1, <2>2, <2>3, SlabCount
<1>2. PICK x : x = next[s]
    OBVIOUS
<1>3. PICK p : p = prev[s]
    OBVIOUS
<1>4. p = NoSlab <=> s = head[l]
    BY <1>1, <1>3 DEF TwoWay
<1>5. ASSUME p # NoSlab
      PROVE  /\ p \in OnFrom(head[l], next) /\ p \in Slabs /\ p # s
             /\ \E i \in 1 .. MaxSlabs : ListFrom(head[l], next)[i] = s /\ ListFrom(head[l], next)[i - 1] = p
  <2>1. PICK i \in 1 .. MaxSlabs : /\ ListFrom(head[l], next)[i] = s /\ ListFrom(head[l], next)[i - 1] = prev[s]
                                   /\ prev[s] \in OnFrom(head[l], next)
      BY <1>1, <1>3, <1>4, <1>5, Predecessor
  <2>2. i \in 0 .. MaxSlabs /\ i - 1 \in 0 .. MaxSlabs /\ i # i - 1
      BY SlabCount
  <2>3. p # s
      BY <1>1, <1>3, <2>1, <2>2 DEF Sound, Once
  <2> QED
      BY <1>1, <1>3, <2>1, <2>3
<1>6. x # NoSlab => x \in OnFrom(head[l], next) /\ x \in Slabs /\ prev[x] = s
    BY <1>1, <1>2, OnFacts DEF Sound, TwoWay
<1>0. /\ head2 = IF p = NoSlab THEN [head EXCEPT ![l] = x] ELSE head
      /\ next2 = IF p = NoSlab THEN next ELSE [next EXCEPT ![p] = x]
      /\ prev2 = IF x = NoSlab THEN prev ELSE [prev EXCEPT ![x] = p]
    BY <1>2, <1>3 DEF Unlinks
<1>7. /\ next2 \in [Slabs -> Links]
      /\ p # NoSlab => next2[p] = x
      /\ \A t \in Slabs : t # p => next2[t] = next[t]
      /\ p = NoSlab => next2 = next
    BY <1>0, <1>1, <1>2, <1>3, <1>5 DEF Links
<1>8. /\ x # NoSlab => prev2[x] = p
      /\ \A t \in Slabs : t # x => prev2[t] = prev[t]
    BY <1>0, <1>2, <1>3, <1>6
<1>9. /\ head2[l] = IF p = NoSlab THEN x ELSE head[l]
      /\ \A m \in Lists : m # l => head2[m] = head[m]
    BY <1>0
<1>10. x # s
    BY <1>1, <1>3, <1>5, <1>6
<1>11. Sound(head2[l], next2) /\ OnFrom(head2[l], next2) = OnFrom(head[l], next) \ {s}
  <2>1. CASE p = NoSlab
    <3>1. head[l] = s /\ head2[l] = next[s] /\ next2 = next /\ s \in Slabs /\ Sound(s, next)
        BY <2>1, <1>1, <1>2, <1>4, <1>7, <1>9
    <3>2. Sound(next[s], next) /\ OnFrom(next[s], next) = OnFrom(s, next) \ {s}
        BY <3>1, ListPopped
    <3> QED
        BY <3>1, <3>2
  <2>2. CASE p # NoSlab
    <3>1. PICK i \in 1 .. MaxSlabs : ListFrom(head[l], next)[i] = s /\ ListFrom(head[l], next)[i - 1] = p
        BY <1>5, <2>2
    <3>2. /\ head2[l] = head[l] /\ next2 \in [Slabs -> Links] /\ next2[p] = next[s] /\ p \in Slabs /\ s \in Slabs
          /\ head[l] \in Links /\ Sound(head[l], next)
          /\ \A t \in Slabs : t # p => next2[t] = next[t]
        BY <2>2, <1>1, <1>2, <1>5, <1>7, <1>9
    <3>3. PICK h : h = head[l]
        OBVIOUS
    <3>4. PICK n : n = next2
        OBVIOUS
    <3>5. /\ h \in Links /\ next \in [Slabs -> Links] /\ n \in [Slabs -> Links] /\ Sound(h, next)
          /\ s \in Slabs /\ p \in Slabs /\ i \in 1 .. MaxSlabs
          /\ ListFrom(h, next)[i] = s /\ ListFrom(h, next)[i - 1] = p /\ n[p] = next[s]
          /\ \A t \in Slabs : t # p => n[t] = next[t]
        BY <3>1, <3>2, <3>3, <3>4
    <3>6. Sound(h, n) /\ OnFrom(h, n) = OnFrom(h, next) \ {s}
        BY ONLY <3>5, ListSkipped
    <3> QED
        BY <3>2, <3>3, <3>4, <3>6
  <2> QED
      BY <2>1, <2>2
<1>12. ASSUME NEW m \in Lists, m # l
       PROVE  /\ OnFrom(head2[m], next2) = OnFrom(head[m], next) /\ Sound(head2[m], next2)
              /\ TwoWay(head2[m], prev2, next2)
  <2>1. /\ head2[m] = head[m] /\ Sound(head[m], next) /\ TwoWay(head[m], prev, next)
        /\ OnFrom(head[l], next) \cap OnFrom(head[m], next) = {}
        /\ OnFrom(head[m], next) \subseteq Slabs
        /\ \A t \in OnFrom(head[m], next) : next[t] # NoSlab => next[t] \in OnFrom(head[m], next)
      BY <1>1, <1>9, <1>12, OnFacts DEF Linked, Sound
  <2>2. \A t \in OnFrom(head[m], next) : t # NoSlab /\ t # p /\ t # x /\ next2[t] = next[t] /\ prev2[t] = prev[t]
    <3>1. ASSUME NEW t \in OnFrom(head[m], next) PROVE t # NoSlab /\ t # p /\ t # x
        BY <1>5, <1>6, <2>1, SlabCount
    <3> QED
        BY <1>7, <1>8, <2>1, <3>1
  <2>3. ListFrom(head[m], next2) = ListFrom(head[m], next) /\ OnFrom(head[m], next2) = OnFrom(head[m], next)
    <3>1. head[m] \in Links /\ next2 \in [Slabs -> Links] /\ \A t \in OnFrom(head[m], next) : next2[t] = next[t]
        BY <1>1, <1>7, <2>2
    <3> QED
        BY <3>1, ListStays
  <2>4. TwoWay(head[m], prev2, next2)
      BY <2>1, <2>2, <2>3 DEF TwoWay
  <2> QED
      BY <2>1, <2>3, <2>4 DEF Sound
<1>13. TwoWay(head2[l], prev2, next2)
  <2> SUFFICES ASSUME NEW t \in OnFrom(head[l], next), t # s
               PROVE  (prev2[t] = NoSlab <=> t = head2[l]) /\ (next2[t] # NoSlab => prev2[next2[t]] = t)
      BY <1>11 DEF TwoWay
  <2>1. t \in Slabs /\ t # NoSlab /\ (prev[t] = NoSlab <=> t = head[l]) /\ (next[t] # NoSlab => prev[next[t]] = t)
        /\ next[t] \in Links
      BY <1>1, SlabCount DEF TwoWay
  <2>2. prev2[t] = NoSlab <=> t = head2[l]
    <3>1. CASE t = x
        BY <3>1, <1>1, <1>4, <1>6, <1>8, <1>9, <2>1
    <3>2. CASE t # x
        BY <3>2, <1>4, <1>8, <1>9, <2>1
    <3> QED
        BY <3>1, <3>2
  <2>3. ASSUME next2[t] # NoSlab PROVE prev2[next2[t]] = t
    <3>1. CASE t = p
        BY <3>1, <2>1, <2>3, <1>7, <1>8
    <3>2. CASE t # p
      <4>1. next2[t] = next[t] /\ next[t] \in Slabs /\ prev[next[t]] = t
          BY <3>2, <2>1, <2>3, <1>7 DEF Links
      <4>2. next[t] # x
          BY <4>1, <1>6, SlabCount
      <4> QED
          BY <4>1, <4>2, <1>8
    <3> QED
        BY <3>1, <3>2
  <2> QED
      BY <2>2, <2>3
<1>14. \A m, k \in Lists : m # k => OnFrom(head2[m], next2) \cap OnFrom(head2[k], next2) = {}
  <2> SUFFICES ASSUME NEW m \in Lists, NEW k \in Lists, m # k
               PROVE  OnFrom(head2[m], next2) \cap OnFrom(head2[k], next2) = {}
      OBVIOUS
  <2>1. OnFrom(head[m], next) \cap OnFrom(head[k], next) = {}
      BY DEF Linked
  <2>2. /\ OnFrom(head2[m], next2) \subseteq OnFrom(head[m], next)
        /\ OnFrom(head2[k], next2) \subseteq OnFrom(head[k], next)
      BY <1>11, <1>12
  <2> QED
      BY <2>1, <2>2
<1> QED
    BY <1>11, <1>12, <1>13, <1>14 DEF Linked, OffList

-----------------------------------------------------------------------------
(***************************************************************************)
(* The invariant, of a cache c with slabs 1 .. m and the objects h handed  *)
(* out: it is also what holds between the steps of a call.                 *)
(***************************************************************************)

Wanted(k) == IF k = 0 THEN "full" ELSE IF k = objs_per_slab THEN "free" ELSE "partial"

ListOf(c, l) == OnFrom(c.head[l], c.next)

(* Every slab of M is on the list its count calls for, except that s is on list k. *)
PlacedBut(c, M, s, k) ==
    \A l \in Lists : ListOf(c, l) = {t \in M : (IF t = s THEN k ELSE Wanted(c.count[t])) = l}

Placed(c, M) == \A l \in Lists : ListOf(c, l) = {t \in M : Wanted(c.count[t]) = l}

Chain(first, link) == CHOOSE g : Follows(g, first, link, Cells, NoCell, objs_per_slab)

(* The chain from first along link has k cells, which are those of F. *)
Chains(first, link, k, F) ==
    /\ EndsAfter(Chain(first, link), k, NoCell, objs_per_slab)
    /\ Once(Chain(first, link), NoCell, objs_per_slab)
    /\ Met(Chain(first, link), NoCell, objs_per_slab) = F

FreeCells(s, h) == {i \in Cells : <<s, i>> \notin h}

Celled(c, s, h) == Chains(c.first[s], c.link[s], c.count[s], FreeCells(s, h))

SInv(c, m, h) ==
    /\ c \in Caches
    /\ m \in 0 .. MaxSlabs
    /\ h \subseteq (1 .. m) \X Cells
    /\ Linked(c.head, c.prev, c.next)
    /\ Placed(c, 1 .. m)
    /\ \A s \in 1 .. m : Celled(c, s, h)

-----------------------------------------------------------------------------
(***************************************************************************)
(* What the helpers of the code leave alone.                               *)
(***************************************************************************)

SameCells(c, d) == d.first = c.first /\ d.count = c.count /\ d.link = c.link
SameLists(c, d) == d.head = c.head /\ d.prev = c.prev /\ d.next = c.next

LEMMA Fields ==
    ASSUME NEW c \in Caches
    PROVE  /\ c.head \in [Lists -> Links] /\ c.prev \in [Slabs -> Links] /\ c.next \in [Slabs -> Links]
           /\ c.first \in [Slabs -> Cells \cup {NoCell}] /\ c.count \in [Slabs -> 0 .. objs_per_slab]
           /\ c.link \in [Slabs -> [Cells -> Cells \cup {NoCell}]]
           /\ c.total \in [Lists -> 0 .. (Mod16 - 1)]
           /\ c.freeObjects \in 0 .. (Mod32 - 1) /\ c.allocated \in 0 .. (Mod32 - 1)
    BY DEF Caches, Links

LEMMA Widths ==
    ASSUME NEW x \in Int
    PROVE  x % Mod16 \in 0 .. (Mod16 - 1) /\ x % Mod32 \in 0 .. (Mod32 - 1)
    BY SlabAssumption

LEMMA CountKeeps ==
    ASSUME NEW c \in Caches, NEW l \in Lists, NEW n \in Int
    PROVE  Count(c, l, n) \in Caches /\ SameCells(c, Count(c, l, n)) /\ SameLists(c, Count(c, l, n))
<1>1. c.total[l] + n \in Int
    BY SlabAssumption DEF Caches
<1>2. (c.total[l] + n) % Mod16 \in 0 .. (Mod16 - 1)
    BY <1>1, Widths
<1> QED
    BY <1>2 DEF Count, Caches, SameCells, SameLists

LEMMA LinkFields ==
    ASSUME NEW c \in Caches, NEW s \in Slabs, NEW l \in Lists, NEW d, d = link_slab(c, s, l)
    PROVE  /\ d \in Caches /\ SameCells(c, d)
           /\ c.head[l] # s => LinksIn(c.head, c.prev, c.next, s, l, d.head, d.prev, d.next)
<1>1. c.head[l] \in Slabs \cup {NoSlab} /\ NoSlab \in Slabs \cup {NoSlab} /\ NoSlab \notin Slabs
    BY SlabCount DEF Caches
<1>2. CASE c.head[l] = NoSlab
    BY <1>1, <1>2 DEF link_slab, Caches, SameCells, LinksIn
<1>3. CASE c.head[l] # NoSlab
    BY <1>1, <1>3 DEF link_slab, Caches, SameCells, LinksIn
<1> QED
    BY <1>2, <1>3

LEMMA UnlinkFields ==
    ASSUME NEW c \in Caches, NEW s \in Slabs, NEW l \in Lists, NEW d, d = unlink_slab(c, s, l)
    PROVE  /\ d \in Caches /\ SameCells(c, d)
           /\ Unlinks(c.head, c.prev, c.next, s, l, d.head, d.prev, d.next)
<1>1. c.prev[s] \in Slabs \cup {NoSlab} /\ c.next[s] \in Slabs \cup {NoSlab}
    BY DEF Caches
<1>2. CASE c.prev[s] = NoSlab /\ c.next[s] = NoSlab
    BY <1>1, <1>2 DEF unlink_slab, Caches, SameCells, Unlinks
<1>3. CASE c.prev[s] # NoSlab /\ c.next[s] = NoSlab
    BY <1>1, <1>3 DEF unlink_slab, Caches, SameCells, Unlinks
<1>4. CASE c.prev[s] = NoSlab /\ c.next[s] # NoSlab
    BY <1>1, <1>4 DEF unlink_slab, Caches, SameCells, Unlinks
<1>5. CASE c.prev[s] # NoSlab /\ c.next[s] # NoSlab
    BY <1>1, <1>5 DEF unlink_slab, Caches, SameCells, Unlinks
<1> QED
    BY <1>2, <1>3, <1>4, <1>5

(* A slab that is on no list is linked into l. *)
LEMMA LinkKeeps ==
    ASSUME NEW c \in Caches, Linked(c.head, c.prev, c.next), NEW s \in Slabs, NEW l \in Lists,
           \A m \in Lists : s \notin ListOf(c, m), NEW d, d = link_slab(c, s, l)
    PROVE  /\ d \in Caches /\ SameCells(c, d) /\ Linked(d.head, d.prev, d.next)
           /\ ListOf(d, l) = ListOf(c, l) \cup {s}
           /\ \A m \in Lists : m # l => ListOf(d, m) = ListOf(c, m)
<1>1. PICK head, prev, next : head = c.head /\ prev = c.prev /\ next = c.next
    OBVIOUS
<1>2. PICK head2, prev2, next2 : head2 = d.head /\ prev2 = d.prev /\ next2 = d.next
    OBVIOUS
<1>3. /\ head \in [Lists -> Links] /\ prev \in [Slabs -> Links] /\ next \in [Slabs -> Links]
      /\ Linked(head, prev, next)
      /\ \A m \in Lists : s \notin OnFrom(head[m], next)
    BY <1>1, Fields DEF ListOf
<1>4. head[l] # s
  <2>1. head[l] \in Links
      BY <1>3
  <2>2. s # NoSlab
      BY SlabCount
  <2>3. head[l] # NoSlab => head[l] \in OnFrom(head[l], next)
      BY <1>3, <2>1, OnFacts
  <2> QED
      BY <1>3, <2>2, <2>3
<1>5. LinksIn(head, prev, next, s, l, head2, prev2, next2) /\ d \in Caches /\ SameCells(c, d)
    BY <1>1, <1>2, <1>4, LinkFields
<1>6. /\ Linked(head2, prev2, next2)
      /\ OnFrom(head2[l], next2) = OnFrom(head[l], next) \cup {s}
      /\ \A m \in Lists : m # l => OnFrom(head2[m], next2) = OnFrom(head[m], next)
  <2>1. s \in Slabs /\ l \in Lists
      OBVIOUS
  <2> QED
      BY ONLY <1>3, <1>5, <2>1, LinkLists
<1> QED
    BY <1>1, <1>2, <1>5, <1>6 DEF ListOf

LEMMA UnlinkKeeps ==
    ASSUME NEW c \in Caches, Linked(c.head, c.prev, c.next), NEW l \in Lists, NEW s \in ListOf(c, l),
           NEW d, d = unlink_slab(c, s, l)
    PROVE  /\ d \in Caches /\ SameCells(c, d) /\ Linked(d.head, d.prev, d.next)
           /\ ListOf(d, l) = ListOf(c, l) \ {s}
           /\ \A m \in Lists : m # l => ListOf(d, m) = ListOf(c, m)
<1>1. PICK head, prev, next : head = c.head /\ prev = c.prev /\ next = c.next
    OBVIOUS
<1>2. PICK head2, prev2, next2 : head2 = d.head /\ prev2 = d.prev /\ next2 = d.next
    OBVIOUS
<1>3. /\ head \in [Lists -> Links] /\ prev \in [Slabs -> Links] /\ next \in [Slabs -> Links]
      /\ Linked(head, prev, next) /\ s \in OnFrom(head[l], next)
    BY <1>1, Fields DEF ListOf
<1>4. s \in Slabs
  <2>1. head[l] \in Links
      BY <1>3
  <2> QED
      BY <1>3, <2>1, OnFacts
<1>5. /\ Unlinks(head, prev, next, s, l, head2, prev2, next2) /\ d \in Caches /\ SameCells(c, d)
    BY <1>1, <1>2, <1>4, UnlinkFields
<1>6. Linked(head2, prev2, next2) /\ OffList(head, next, s, l, head2, next2)
  <2>1. l \in Lists /\ Unlinks(head, prev, next, s, l, head2, prev2, next2)
      BY <1>5
  <2> QED
      BY ONLY <1>3, <2>1, UnlinkLists
<1> QED
    BY <1>1, <1>2, <1>5, <1>6 DEF ListOf, OffList

(* A move takes s from one list to the other and leaves the cells alone. *)
LEMMA MoveKeeps ==
    ASSUME NEW c \in Caches, Linked(c.head, c.prev, c.next), NEW M, NEW s \in M, s \in Slabs,
           NEW from \in Lists, NEW to \in Lists, PlacedBut(c, M, s, from),
           NEW d, d = Move(c, s, from, to)
    PROVE  /\ d \in Caches /\ SameCells(c, d) /\ Linked(d.head, d.prev, d.next)
           /\ PlacedBut(d, M, s, to)
<1>1. PICK e : e = unlink_slab(c, s, from)
    OBVIOUS
<1>2. d = link_slab(e, s, to)
    BY <1>1 DEF Move
<1>3. \A l \in Lists : s \in ListOf(c, l) <=> l = from
    BY DEF PlacedBut
<1>4. /\ e \in Caches /\ SameCells(c, e) /\ Linked(e.head, e.prev, e.next)
      /\ ListOf(e, from) = ListOf(c, from) \ {s}
      /\ \A m \in Lists : m # from => ListOf(e, m) = ListOf(c, m)
    BY <1>1, <1>3, UnlinkKeeps
<1>5. \A l \in Lists : s \notin ListOf(e, l)
    BY <1>3, <1>4
<1>6. /\ d \in Caches /\ SameCells(e, d) /\ Linked(d.head, d.prev, d.next)
      /\ ListOf(d, to) = ListOf(e, to) \cup {s}
      /\ \A m \in Lists : m # to => ListOf(d, m) = ListOf(e, m)
    BY <1>2, <1>4, <1>5, LinkKeeps
<1>7. SameCells(c, d)
    BY <1>4, <1>6 DEF SameCells
<1>8. \A l \in Lists : ListOf(e, l) = ListOf(c, l) \ {s}
    BY <1>3, <1>4
<1>9. \A l \in Lists : ListOf(d, l) = IF l = to THEN (ListOf(c, l) \ {s}) \cup {s} ELSE ListOf(c, l) \ {s}
    BY <1>6, <1>8
<1>10. ASSUME NEW l \in Lists
       PROVE  ListOf(d, l) = {t \in M : (IF t = s THEN to ELSE Wanted(d.count[t])) = l}
  <2>1. ListOf(c, l) = {t \in M : (IF t = s THEN from ELSE Wanted(c.count[t])) = l}
      BY DEF PlacedBut
  <2>2. d.count = c.count
      BY <1>7 DEF SameCells
  <2>3. ListOf(d, l) = IF l = to THEN (ListOf(c, l) \ {s}) \cup {s} ELSE ListOf(c, l) \ {s}
      BY <1>9
  <2> QED
      BY <2>1, <2>2, <2>3
<1> QED
    BY <1>6, <1>7, <1>10 DEF PlacedBut

(* The same when the slab counters are then adjusted. *)
LEMMA MoveCounted ==
    ASSUME NEW c \in Caches, Linked(c.head, c.prev, c.next), NEW M, NEW s \in M, s \in Slabs,
           NEW from \in Lists, NEW to \in Lists, PlacedBut(c, M, s, from), NEW k \in Lists, NEW l \in Lists,
           NEW d, d = Count(Count(Move(c, s, from, to), k, -1), l, 1)
    PROVE  /\ d \in Caches /\ SameCells(c, d) /\ Linked(d.head, d.prev, d.next)
           /\ PlacedBut(d, M, s, to)
<1>1. PICK e : e = Move(c, s, from, to)
    OBVIOUS
<1>2. PICK f : f = Count(e, k, -1)
    OBVIOUS
<1>3. /\ e \in Caches /\ SameCells(c, e) /\ Linked(e.head, e.prev, e.next) /\ PlacedBut(e, M, s, to)
    BY <1>1, MoveKeeps
<1>4. f \in Caches /\ SameCells(e, f) /\ SameLists(e, f)
    BY <1>2, <1>3, CountKeeps
<1>5. d \in Caches /\ SameCells(f, d) /\ SameLists(f, d)
    BY <1>1, <1>2, <1>4, CountKeeps
<1>6. SameCells(c, d) /\ SameCells(e, d) /\ SameLists(e, d)
    BY <1>3, <1>4, <1>5 DEF SameCells, SameLists
<1>7. \A m \in Lists : ListOf(d, m) = ListOf(e, m)
    BY <1>6 DEF SameLists, ListOf
<1>8. PlacedBut(d, M, s, to)
    BY <1>3, <1>6, <1>7 DEF SameCells, PlacedBut
<1> QED
    BY <1>3, <1>5, <1>6, <1>8 DEF SameLists

-----------------------------------------------------------------------------
(***************************************************************************)
(* The chain of free cells of a slab.                                      *)
(***************************************************************************)

CellLinks == Cells \cup {NoCell}

LEMMA CellCount ==
    /\ objs_per_slab \in Nat \ {0} /\ NoCell \notin Cells
    /\ IsFiniteSet(Cells) /\ Cardinality(Cells) = objs_per_slab
<1>1. objs_per_slab \in Nat \ {0} /\ NoCell \notin Cells /\ 0 \in Int /\ objs_per_slab - 1 \in Int
      /\ ~(0 > objs_per_slab - 1) /\ (objs_per_slab - 1) - 0 + 1 = objs_per_slab
    BY SlabAssumption DEF Cells, NoCell
<1>2. /\ IsFiniteSet(0 .. (objs_per_slab - 1))
      /\ Cardinality(0 .. (objs_per_slab - 1)) =
            IF 0 > objs_per_slab - 1 THEN 0 ELSE (objs_per_slab - 1) - 0 + 1
    BY <1>1, FS_Interval
<1> QED
    BY <1>1, <1>2 DEF Cells

LEMMA TheChain ==
    ASSUME NEW first \in CellLinks, NEW link \in [Cells -> CellLinks]
    PROVE  /\ Follows(Chain(first, link), first, link, Cells, NoCell, objs_per_slab)
           /\ \A g : Follows(g, first, link, Cells, NoCell, objs_per_slab) => g = Chain(first, link)
<1> DEFINE P(g) == Follows(g, first, link, Cells, NoCell, objs_per_slab)
<1>1. \E g : P(g)
    BY CellCount, FollowsExists DEF CellLinks
<1>2. Chain(first, link) = CHOOSE g : P(g)
    BY DEF Chain
<1> HIDE DEF P
<1>3. P(Chain(first, link))
    BY <1>1, <1>2
<1>4. ASSUME NEW g, P(g) PROVE g = Chain(first, link)
  <2>1. /\ Follows(Chain(first, link), first, link, Cells, NoCell, objs_per_slab)
        /\ Follows(g, first, link, Cells, NoCell, objs_per_slab)
      BY <1>3, <1>4 DEF P
  <2>2. \A p \in Met(Chain(first, link), NoCell, objs_per_slab) : link[p] = link[p]
      OBVIOUS
  <2> QED
      BY <2>1, <2>2, CellCount, SameWalk
<1> QED
    BY <1>3, <1>4 DEF P

(* Taking the first cell of a chain leaves the rest of it. *)
LEMMA ChainTaken ==
    ASSUME NEW first \in CellLinks, NEW link \in [Cells -> CellLinks], NEW F,
           NEW k \in 1 .. objs_per_slab, Chains(first, link, k, F)
    PROVE  first \in Cells /\ first \in F /\ Chains(link[first], link, k - 1, F \ {first})
<1> DEFINE g == Chain(first, link)
           w == Chain(link[first], link)
           L == objs_per_slab
<1>1. Follows(g, first, link, Cells, NoCell, L)
    BY TheChain
<1>2. EndsAfter(g, k, NoCell, L) /\ Once(g, NoCell, L) /\ Met(g, NoCell, L) = F
    BY DEF Chains
<1>3. L \in Nat \ {0} /\ NoCell \notin Cells /\ 0 \in 0 .. L /\ L \in 0 .. L /\ ~(0 >= k) /\ L >= k
    BY CellCount
<1>4. g[0] # NoCell /\ Stops(g, NoCell, L)
    BY <1>2, <1>3 DEF EndsAfter, Stops
<1>5. first \in Cells
    BY <1>1, <1>4 DEF Follows, Along, CellLinks
<1>6. link[first] \in CellLinks
    BY <1>5
<1>7. Follows(w, link[first], link, Cells, NoCell, L)
    BY <1>6, TheChain
<1> HIDE DEF g, w, L
<1>8. /\ Stops(w, NoCell, L) /\ Once(w, NoCell, L) /\ Met(w, NoCell, L) = Met(g, NoCell, L) \ {first}
      /\ first \in Met(g, NoCell, L)
      /\ \A i \in 0 .. L : w[i] = IF i = L THEN NoCell ELSE g[i + 1]
    BY <1>1, <1>2, <1>3, <1>4, <1>5, <1>7, PopWalk
<1>9. ASSUME NEW i \in 0 .. L PROVE w[i] = NoCell <=> i >= k - 1
  <2>1. CASE i = L
      BY <1>3, <1>8, <2>1
  <2>2. CASE i # L
    <3>1. i + 1 \in 0 .. L /\ w[i] = g[i + 1] /\ (i + 1 >= k <=> i >= k - 1)
        BY <1>3, <1>8, <2>2
    <3> QED
        BY <1>2, <3>1 DEF EndsAfter
  <2> QED
      BY <2>1, <2>2
<1>10. EndsAfter(w, k - 1, NoCell, L)
    BY <1>9 DEF EndsAfter
<1> QED
    BY <1>2, <1>5, <1>8, <1>10 DEF Chains, g, w, L

(* A cell that is not on the chain is put in front of it: there was room. *)
LEMMA ChainGiven ==
    ASSUME NEW first \in CellLinks, NEW link \in [Cells -> CellLinks], NEW F,
           NEW k \in 0 .. objs_per_slab, Chains(first, link, k, F), NEW i \in Cells, i \notin F,
           NEW link2, link2 = [link EXCEPT ![i] = first]
    PROVE  k < objs_per_slab /\ Chains(i, link2, k + 1, F \cup {i})
<1> DEFINE g == Chain(first, link)
           v == Chain(first, link2)
           w == Chain(i, link2)
           L == objs_per_slab
<1>1. link2 \in [Cells -> CellLinks] /\ link2[i] = first /\ \A j \in Cells : j # i => link2[j] = link[j]
    BY DEF CellLinks
<1>2. /\ Follows(g, first, link, Cells, NoCell, L) /\ Follows(v, first, link2, Cells, NoCell, L)
      /\ Follows(w, i, link2, Cells, NoCell, L)
    BY <1>1, TheChain DEF CellLinks
<1>3. EndsAfter(g, k, NoCell, L) /\ Once(g, NoCell, L) /\ Met(g, NoCell, L) = F
    BY DEF Chains
<1>4. /\ L \in Nat \ {0} /\ NoCell \notin Cells /\ IsFiniteSet(Cells) /\ Cardinality(Cells) = L
      /\ L \in 0 .. L /\ L - 1 \in 0 .. L /\ L >= k /\ k \in Int /\ k >= 0
    BY CellCount
<1> HIDE DEF g, v, w, L
<1>5. Stops(g, NoCell, L)
    BY <1>3, <1>4 DEF EndsAfter, Stops
<1>6. g[L - 1] = NoCell
    BY <1>2, <1>3, <1>4, <1>5, RoomForOne
<1>7. k < L
    BY <1>3, <1>4, <1>6 DEF EndsAfter
<1>8. v = g
  <2>1. \A j \in Met(g, NoCell, L) : link2[j] = link[j]
    <3>1. \A j \in Met(g, NoCell, L) : j \in Cells /\ j # i
        BY <1>2, <1>3 DEF Met, Follows
    <3> QED
        BY <1>1, <3>1
  <2>2. L \in Nat /\ Follows(g, first, link, Cells, NoCell, L) /\ Follows(v, first, link2, Cells, NoCell, L)
      BY <1>2, <1>4
  <2> QED
      BY ONLY <2>1, <2>2, SameWalk
<1>9. /\ Stops(w, NoCell, L) /\ Once(w, NoCell, L) /\ Met(w, NoCell, L) = Met(g, NoCell, L) \cup {i}
      /\ \A j \in 0 .. L : w[j] = IF j = 0 THEN i ELSE g[j - 1]
  <2>1. /\ L \in Nat \ {0} /\ NoCell \notin Cells /\ IsFiniteSet(Cells) /\ Cardinality(Cells) = L
        /\ i \in Cells /\ link2[i] = first
        /\ Follows(g, first, link2, Cells, NoCell, L) /\ Follows(w, i, link2, Cells, NoCell, L)
        /\ Stops(g, NoCell, L) /\ Once(g, NoCell, L) /\ i \notin Met(g, NoCell, L)
      BY <1>1, <1>2, <1>3, <1>4, <1>5, <1>8
  <2> QED
      BY ONLY <2>1, PushWalk
<1>10. ASSUME NEW j \in 0 .. L PROVE w[j] = NoCell <=> j >= k + 1
  <2>1. CASE j = 0
      BY <1>4, <1>9, <2>1
  <2>2. CASE j # 0
    <3>1. j - 1 \in 0 .. L /\ w[j] = g[j - 1] /\ (j - 1 >= k <=> j >= k + 1)
        BY <1>4, <1>9, <2>2
    <3> QED
        BY <1>3, <3>1 DEF EndsAfter
  <2> QED
      BY <2>1, <2>2
<1>11. EndsAfter(w, k + 1, NoCell, L)
    BY <1>10 DEF EndsAfter
<1> QED
    BY <1>3, <1>7, <1>9, <1>11 DEF Chains, w, L

(* A new slab chains all its cells. *)
NewLink == [i \in Cells |-> IF i < objs_per_slab - 1 THEN i + 1 ELSE NoCell]

LEMMA ChainNew ==
    /\ NewLink \in [Cells -> CellLinks] /\ 0 \in CellLinks
    /\ Chains(0, NewLink, objs_per_slab, Cells)
<1>0. PICK link : link = NewLink /\ link = [i \in Cells |-> IF i < objs_per_slab - 1 THEN i + 1 ELSE NoCell]
    BY DEF NewLink
<1> DEFINE L == objs_per_slab
           g == [i \in 0 .. L |-> IF i < L THEN i ELSE NoCell]
<1>1. L \in Nat \ {0} /\ NoCell = -1 /\ Cells = 0 .. (L - 1)
    BY CellCount DEF NoCell, Cells
<1>2. link \in [Cells -> CellLinks] /\ 0 \in CellLinks
    BY <1>0, <1>1 DEF CellLinks
<1>3. Follows(g, 0, link, Cells, NoCell, L)
  <2>1. g \in [0 .. L -> Cells \cup {NoCell}]
      BY <1>1
  <2>2. g[0] = 0
      BY <1>1
  <2>3. ASSUME NEW i \in 1 .. L PROVE g[i] = IF g[i - 1] = NoCell THEN NoCell ELSE link[g[i - 1]]
    <3>1. i \in 0 .. L /\ i - 1 \in 0 .. L /\ i - 1 < L /\ i - 1 \in Cells /\ i - 1 # NoCell
        BY <1>1
    <3>2. g[i - 1] = i - 1
        BY <3>1
    <3>3. link[i - 1] = IF i - 1 < L - 1 THEN (i - 1) + 1 ELSE NoCell
        BY <1>0, <3>1
    <3> QED
        BY <1>1, <3>1, <3>2, <3>3
  <2> HIDE DEF g
  <2> QED
      BY <2>1, <2>2, <2>3 DEF Follows, Along
<1>4. g = Chain(0, link)
    BY <1>2, <1>3, TheChain
<1>5. EndsAfter(g, L, NoCell, L)
    BY <1>1 DEF EndsAfter
<1>6. Once(g, NoCell, L)
    BY <1>1 DEF Once
<1>7. Met(g, NoCell, L) = Cells
    BY <1>1 DEF Met
<1> QED
    BY <1>0, <1>2, <1>4, <1>5, <1>6, <1>7 DEF Chains

-----------------------------------------------------------------------------
(***************************************************************************)
(* The calls.                                                              *)
(***************************************************************************)

(* slab_alloc's step on the header of s, before s may have to move. *)
Taken(c, s) ==
    [c EXCEPT !.first[s] = c.link[s][c.first[s]],
              !.count[s] = @ - 1,
              !.allocated = (@ + 1) % Mod32,
              !.freeObjects = (@ - 1) % Mod32]

LEMMA TakenFields ==
    ASSUME NEW c \in Caches, NEW s \in Slabs, c.first[s] \in Cells, c.count[s] # 0, NEW d, d = Taken(c, s)
    PROVE  /\ d \in Caches /\ SameLists(c, d) /\ d.link = c.link
           /\ d.first = [c.first EXCEPT ![s] = c.link[s][c.first[s]]]
           /\ d.count = [c.count EXCEPT ![s] = c.count[s] - 1]
<1>1. /\ c.link[s][c.first[s]] \in Cells \cup {NoCell} /\ c.count[s] - 1 \in 0 .. objs_per_slab
      /\ c.allocated + 1 \in Int /\ c.freeObjects - 1 \in Int
  <2>1. c.link[s] \in [Cells -> Cells \cup {NoCell}]
      BY Fields
  <2>2. c.count[s] \in 0 .. objs_per_slab /\ objs_per_slab \in Nat /\ Mod32 \in Nat
      BY Fields, SlabAssumption
  <2>3. c.allocated \in 0 .. (Mod32 - 1) /\ c.freeObjects \in 0 .. (Mod32 - 1)
      BY Fields
  <2>4. c.count[s] - 1 \in 0 .. objs_per_slab
      BY <2>2
  <2> QED
      BY <2>1, <2>2, <2>3, <2>4
<1>2. (c.allocated + 1) % Mod32 \in 0 .. (Mod32 - 1) /\ (c.freeObjects - 1) % Mod32 \in 0 .. (Mod32 - 1)
    BY <1>1, Widths
<1> QED
    BY <1>1, <1>2 DEF Taken, Caches, SameLists

(* A slab goes where its count says when the lists already have it there. *)
LEMMA PlacedAt ==
    ASSUME NEW c, NEW M, NEW s, NEW k, PlacedBut(c, M, s, k), Wanted(c.count[s]) = k
    PROVE  Placed(c, M)
<1> SUFFICES ASSUME NEW l \in Lists PROVE ListOf(c, l) = {t \in M : Wanted(c.count[t]) = l}
    BY DEF Placed
<1>1. ListOf(c, l) = {t \in M : (IF t = s THEN k ELSE Wanted(c.count[t])) = l}
    BY DEF PlacedBut
<1> QED
    BY <1>1

(* Where the lists have s does not depend on its own count. *)
LEMMA PlacedStill ==
    ASSUME NEW c, NEW d, NEW M, NEW s, NEW k, PlacedBut(c, M, s, k), SameLists(c, d),
           \A t \in M : t # s => d.count[t] = c.count[t]
    PROVE  PlacedBut(d, M, s, k)
<1> SUFFICES ASSUME NEW l \in Lists
             PROVE  ListOf(d, l) = {t \in M : (IF t = s THEN k ELSE Wanted(d.count[t])) = l}
    BY DEF PlacedBut
<1>1. ListOf(c, l) = {t \in M : (IF t = s THEN k ELSE Wanted(c.count[t])) = l}
    BY DEF PlacedBut
<1>2. ListOf(d, l) = ListOf(c, l)
    BY DEF SameLists, ListOf
<1> QED
    BY <1>1, <1>2

OneLess(c, d, m, s) ==
    /\ \A t \in 1 .. m : t # s => d.count[t] = c.count[t]
    /\ d.count[s] = c.count[s] - 1

LEMMA TakeKeeps ==
    ASSUME NEW c \in Caches, Linked(c.head, c.prev, c.next), NEW m \in 0 .. MaxSlabs,
           NEW h, h \subseteq (1 .. m) \X Cells, NEW s \in 1 .. m, PlacedBut(c, 1 .. m, s, "partial"),
           c.count[s] # 0, \A t \in 1 .. m : Celled(c, t, h),
           NEW d, d = TakeCell(c, s)
    PROVE  /\ SInv(d, m, h \cup {<<s, c.first[s]>>}) /\ <<s, c.first[s]>> \notin h
           /\ OneLess(c, d, m, s)
<1> DEFINE M == 1 .. m
           f == c.first[s]
           h2 == h \cup {<<s, f>>}
<1>1. M \subseteq Slabs /\ s \in Slabs
    BY SlabCount DEF Slabs
<1>2. /\ c.first[s] \in CellLinks /\ c.link[s] \in [Cells -> CellLinks] /\ c.count[s] \in 1 .. objs_per_slab
  <2>1. c.count[s] \in 0 .. objs_per_slab
      BY <1>1, Fields
  <2>2. c.count[s] \in 1 .. objs_per_slab
      BY <2>1, SlabAssumption
  <2> QED
      BY <1>1, <2>2, Fields DEF CellLinks
<1>3. Chains(c.first[s], c.link[s], c.count[s], FreeCells(s, h))
    BY DEF Celled
<1>4. f \in Cells /\ f \in FreeCells(s, h)
      /\ Chains(c.link[s][f], c.link[s], c.count[s] - 1, FreeCells(s, h) \ {f})
    BY <1>2, <1>3, ChainTaken
<1>5. PICK e : e = Taken(c, s)
    OBVIOUS
<1>6. /\ e \in Caches /\ SameLists(c, e) /\ e.link = c.link
      /\ e.first = [c.first EXCEPT ![s] = c.link[s][c.first[s]]]
      /\ e.count = [c.count EXCEPT ![s] = c.count[s] - 1]
    BY <1>1, <1>4, <1>5, TakenFields
<1>7. /\ e.first[s] = c.link[s][f] /\ e.count[s] = c.count[s] - 1 /\ e.link[s] = c.link[s]
      /\ \A t \in M : t # s => e.first[t] = c.first[t] /\ e.count[t] = c.count[t] /\ e.link[t] = c.link[t]
    BY <1>1, <1>6, Fields
<1>8. <<s, f>> \notin h /\ h2 \subseteq M \X Cells
    BY <1>4 DEF FreeCells
<1>9. ASSUME NEW t \in M PROVE Celled(e, t, h2)
  <2>1. CASE t = s
    <3>1. FreeCells(s, h2) = FreeCells(s, h) \ {f}
        BY DEF FreeCells
    <3> QED
        BY <1>4, <1>7, <2>1, <3>1 DEF Celled
  <2>2. CASE t # s
    <3>1. FreeCells(t, h2) = FreeCells(t, h)
        BY <2>2 DEF FreeCells
    <3>2. Celled(c, t, h)
        OBVIOUS
    <3> QED
        BY <1>7, <2>2, <3>1, <3>2 DEF Celled
  <2> QED
      BY <2>1, <2>2
<1>10. Linked(e.head, e.prev, e.next)
    BY <1>6 DEF SameLists
<1>11. PlacedBut(e, M, s, "partial")
  <2>1. \A t \in M : t # s => e.count[t] = c.count[t]
      BY <1>7
  <2> HIDE DEF M
  <2>2. PlacedBut(c, M, s, "partial")
      BY DEF M
  <2> QED
      BY <1>6, <2>1, <2>2, PlacedStill
<1>12. TakeCell(c, s) = IF e.count[s] = 0
                        THEN Count(Count(Move(e, s, "partial", "full"), "partial", -1), "full", 1)
                        ELSE e
    BY <1>5 DEF TakeCell, Taken
<1>13. d \in Caches /\ SameCells(e, d) /\ Linked(d.head, d.prev, d.next) /\ Placed(d, M)
  <2>1. CASE e.count[s] = 0
    <3>1. d = Count(Count(Move(e, s, "partial", "full"), "partial", -1), "full", 1)
        BY <1>12, <2>1
    <3>2. "partial" \in Lists /\ "full" \in Lists /\ s \in M
        BY DEF Lists
    <3> HIDE DEF M
    <3>3. /\ d \in Caches /\ SameCells(e, d) /\ Linked(d.head, d.prev, d.next)
          /\ PlacedBut(d, M, s, "full")
        BY <1>1, <1>6, <1>10, <1>11, <3>1, <3>2, MoveCounted
    <3>4. Wanted(d.count[s]) = "full"
        BY <2>1, <3>3 DEF SameCells, Wanted
    <3> QED
        BY <3>3, <3>4, PlacedAt
  <2>2. CASE e.count[s] # 0
    <3>1. d = e
        BY <1>12, <2>2
    <3>2. Wanted(e.count[s]) = "partial"
        BY <1>2, <1>7, <2>2, SlabAssumption DEF Wanted
    <3> HIDE DEF M
    <3>3. Placed(e, M)
        BY <1>11, <3>2, PlacedAt
    <3> QED
        BY <1>6, <1>10, <3>1, <3>3 DEF SameCells
  <2> QED
      BY <2>1, <2>2
<1>14. \A t \in M : Celled(d, t, h2)
    BY <1>9, <1>13 DEF SameCells, Celled
<1>15. SInv(d, m, h2)
    BY <1>8, <1>13, <1>14 DEF SInv
<1> QED
    BY <1>7, <1>8, <1>13, <1>15 DEF SameCells, OneLess

LEMMA InitFields ==
    ASSUME NEW c \in Caches, NEW s \in Slabs, NEW e, e = slab_init(c, s)
    PROVE  /\ e \in Caches /\ SameLists(c, e) /\ e.link = [c.link EXCEPT ![s] = NewLink]
           /\ e.first = [c.first EXCEPT ![s] = 0] /\ e.count = [c.count EXCEPT ![s] = objs_per_slab]
<1>1. e = [c EXCEPT !.first[s] = 0, !.count[s] = objs_per_slab, !.link[s] = NewLink]
    BY DEF slab_init, NewLink
<1>2. NewLink \in [Cells -> Cells \cup {NoCell}] /\ 0 \in Cells \cup {NoCell} /\ objs_per_slab \in 0 .. objs_per_slab
    BY ChainNew, SlabAssumption DEF CellLinks
<1>3. PICK n : n = NewLink
    OBVIOUS
<1>4. /\ e = [c EXCEPT !.first[s] = 0, !.count[s] = objs_per_slab, !.link[s] = n]
      /\ n \in [Cells -> Cells \cup {NoCell}] /\ 0 \in Cells \cup {NoCell} /\ objs_per_slab \in 0 .. objs_per_slab
      /\ c \in Caches /\ s \in Slabs
    BY <1>1, <1>2, <1>3
<1>5. /\ e \in Caches /\ SameLists(c, e) /\ e.link = [c.link EXCEPT ![s] = n]
      /\ e.first = [c.first EXCEPT ![s] = 0] /\ e.count = [c.count EXCEPT ![s] = objs_per_slab]
    BY ONLY <1>4 DEF Caches, SameLists
<1> QED
    BY <1>3, <1>5

(* A new slab: it is initialized and linked into l. *)
LEMMA NewKeeps ==
    ASSUME NEW c, NEW m, NEW h, SInv(c, m, h), m < MaxSlabs, NEW s, s = m + 1, NEW l \in Lists,
           NEW d, d = link_slab(slab_init(c, s), s, l)
    PROVE  /\ d \in Caches /\ Linked(d.head, d.prev, d.next) /\ s \in 0 .. MaxSlabs /\ s \in 1 .. s
           /\ h \subseteq (1 .. s) \X Cells /\ PlacedBut(d, 1 .. s, s, l)
           /\ d.count[s] = objs_per_slab /\ \A t \in 1 .. s : Celled(d, t, h)
<1>1. /\ c \in Caches /\ m \in 0 .. MaxSlabs /\ h \subseteq (1 .. m) \X Cells
      /\ Linked(c.head, c.prev, c.next) /\ Placed(c, 1 .. m) /\ \A t \in 1 .. m : Celled(c, t, h)
    BY DEF SInv
<1>2. /\ s \in Slabs /\ s \in 0 .. MaxSlabs /\ s \in 1 .. s /\ s \notin 1 .. m
      /\ 1 .. s = (1 .. m) \cup {s} /\ 1 .. m \subseteq Slabs
    BY <1>1, SlabCount DEF Slabs
<1>3. PICK link : link = NewLink
    OBVIOUS
<1>4. link \in [Cells -> CellLinks] /\ 0 \in CellLinks /\ Chains(0, link, objs_per_slab, Cells)
    BY <1>3, ChainNew
<1>5. PICK e : e = slab_init(c, s)
    OBVIOUS
<1>6. /\ e \in Caches /\ SameLists(c, e) /\ e.link = [c.link EXCEPT ![s] = link]
      /\ e.first = [c.first EXCEPT ![s] = 0] /\ e.count = [c.count EXCEPT ![s] = objs_per_slab]
    BY <1>1, <1>2, <1>3, <1>5, InitFields
<1>7. /\ e.link[s] = link /\ e.first[s] = 0 /\ e.count[s] = objs_per_slab
      /\ \A t \in 1 .. m : e.link[t] = c.link[t] /\ e.first[t] = c.first[t] /\ e.count[t] = c.count[t]
    BY <1>1, <1>2, <1>6, Fields
<1>8. \A k \in Lists : ListOf(e, k) = ListOf(c, k) /\ s \notin ListOf(e, k)
  <2>1. \A k \in Lists : ListOf(e, k) = ListOf(c, k)
      BY <1>6 DEF SameLists, ListOf
  <2>2. \A k \in Lists : ListOf(c, k) \subseteq 1 .. m
      BY <1>1 DEF Placed
  <2> QED
      BY <1>2, <2>1, <2>2
<1>9. Linked(e.head, e.prev, e.next)
    BY <1>1, <1>6 DEF SameLists
<1>10. /\ d \in Caches /\ SameCells(e, d) /\ Linked(d.head, d.prev, d.next)
       /\ ListOf(d, l) = ListOf(e, l) \cup {s}
       /\ \A k \in Lists : k # l => ListOf(d, k) = ListOf(e, k)
    BY <1>2, <1>5, <1>6, <1>8, <1>9, LinkKeeps
<1>11. /\ d.link[s] = link /\ d.first[s] = 0 /\ d.count[s] = objs_per_slab
       /\ \A t \in 1 .. m : d.link[t] = c.link[t] /\ d.first[t] = c.first[t] /\ d.count[t] = c.count[t]
    BY <1>7, <1>10 DEF SameCells
<1>12. PlacedBut(d, 1 .. s, s, l)
  <2> SUFFICES ASSUME NEW k \in Lists
               PROVE  ListOf(d, k) = {t \in 1 .. s : (IF t = s THEN l ELSE Wanted(d.count[t])) = k}
      BY DEF PlacedBut
  <2>1. ListOf(c, k) = {t \in 1 .. m : Wanted(c.count[t]) = k}
      BY <1>1 DEF Placed
  <2>2. ListOf(d, k) = IF k = l THEN ListOf(c, k) \cup {s} ELSE ListOf(c, k)
      BY <1>8, <1>10
  <2>3. {t \in 1 .. s : (IF t = s THEN l ELSE Wanted(d.count[t])) = k}
          = {t \in 1 .. m : Wanted(c.count[t]) = k} \cup (IF k = l THEN {s} ELSE {})
      BY <1>2, <1>11
  <2> QED
      BY <2>1, <2>2, <2>3
<1>13. ASSUME NEW t \in 1 .. s PROVE Celled(d, t, h)
  <2>1. CASE t = s
    <3>1. FreeCells(s, h) = Cells
        BY <1>1, <1>2 DEF FreeCells
    <3> QED
        BY <1>4, <1>11, <2>1, <3>1 DEF Celled
  <2>2. CASE t # s
    <3>1. t \in 1 .. m /\ Celled(c, t, h)
        BY <1>1, <1>2, <2>2
    <3> QED
        BY <1>11, <3>1 DEF Celled
  <2> QED
      BY <2>1, <2>2
<1>14. h \subseteq (1 .. s) \X Cells
    BY <1>1, <1>2
<1> QED
    BY <1>2, <1>10, <1>11, <1>12, <1>13, <1>14

LEMMA AddFreeKeeps ==
    ASSUME NEW c, NEW m, NEW h, SInv(c, m, h), m < MaxSlabs
    PROVE  SInv(AddFree(c, m + 1), m + 1, h)
<1>1. PICK s : s = m + 1
    OBVIOUS
<1>2. PICK e : e = link_slab(slab_init(c, s), s, "free")
    OBVIOUS
<1>3. PICK d : d = AddFree(c, s)
    OBVIOUS
<1>4. /\ e \in Caches /\ Linked(e.head, e.prev, e.next) /\ s \in 0 .. MaxSlabs /\ s \in 1 .. s
      /\ h \subseteq (1 .. s) \X Cells /\ PlacedBut(e, 1 .. s, s, "free")
      /\ e.count[s] = objs_per_slab /\ \A t \in 1 .. s : Celled(e, t, h)
  <2>1. "free" \in Lists
      BY DEF Lists
  <2> QED
      BY <1>1, <1>2, <2>1, NewKeeps
<1>5. d = [e EXCEPT !.freeObjects = (e.freeObjects + objs_per_slab) % Mod32]
    BY <1>2, <1>3 DEF AddFree
<1>6. d \in Caches /\ SameCells(e, d) /\ SameLists(e, d)
  <2>1. e.freeObjects \in 0 .. (Mod32 - 1)
      BY <1>4, Fields
  <2>2. e.freeObjects + objs_per_slab \in Int
      BY <2>1, SlabAssumption
  <2>3. (e.freeObjects + objs_per_slab) % Mod32 \in 0 .. (Mod32 - 1)
      BY <2>2, Widths
  <2> QED
      BY <1>4, <1>5, <2>3 DEF Caches, SameCells, SameLists
<1>7. Placed(e, 1 .. s)
  <2>1. Wanted(e.count[s]) = "free"
      BY <1>4, SlabAssumption DEF Wanted
  <2> QED
      BY <1>4, <2>1, PlacedAt
<1>8. Placed(d, 1 .. s)
  <2>1. \A l \in Lists : ListOf(d, l) = ListOf(e, l)
      BY <1>6 DEF SameLists, ListOf
  <2> QED
      BY <1>6, <1>7, <2>1 DEF SameCells, Placed
<1>9. \A t \in 1 .. s : Celled(d, t, h)
    BY <1>4, <1>6 DEF SameCells, Celled
<1>10. SInv(d, s, h)
    BY <1>4, <1>6, <1>8, <1>9 DEF SameLists, SInv
<1> QED
    BY <1>1, <1>3, <1>10

(* The counters of slabs are no part of the invariant. *)
LEMMA CountInv ==
    ASSUME NEW c, NEW m, NEW h, SInv(c, m, h), NEW l \in Lists, NEW n \in Int
    PROVE  SInv(Count(c, l, n), m, h)
<1>1. PICK d : d = Count(c, l, n)
    OBVIOUS
<1>2. c \in Caches
    BY DEF SInv
<1>3. d \in Caches /\ SameCells(c, d) /\ SameLists(c, d)
    BY <1>1, <1>2, CountKeeps
<1>4. \A k \in Lists : ListOf(d, k) = ListOf(c, k)
    BY <1>3 DEF SameLists, ListOf
<1>5. Placed(d, 1 .. m)
    BY <1>3, <1>4 DEF SInv, SameCells, Placed
<1>6. \A t \in 1 .. m : Celled(d, t, h)
    BY <1>3 DEF SInv, SameCells, Celled
<1> QED
    BY <1>1, <1>3, <1>5, <1>6 DEF SInv, SameLists

LEMMA PlacedSplit ==
    ASSUME NEW c, NEW M, NEW s, Placed(c, M), NEW k, Wanted(c.count[s]) = k
    PROVE  PlacedBut(c, M, s, k)
<1> SUFFICES ASSUME NEW l \in Lists
             PROVE  ListOf(c, l) = {t \in M : (IF t = s THEN k ELSE Wanted(c.count[t])) = l}
    BY DEF PlacedBut
<1>1. ListOf(c, l) = {t \in M : Wanted(c.count[t]) = l}
    BY DEF Placed
<1> QED
    BY <1>1

(* The slab at the head of a list has the count that list is for. *)
LEMMA HeadFacts ==
    ASSUME NEW c, NEW m, NEW h, SInv(c, m, h), NEW l \in Lists
    PROVE  /\ c.head[l] = NoSlab => ListOf(c, l) = {}
           /\ c.head[l] # NoSlab => /\ c.head[l] \in 1 .. m /\ c.head[l] \in Slabs
                                  /\ Wanted(c.count[c.head[l]]) = l
                                  /\ PlacedBut(c, 1 .. m, c.head[l], l)
<1>1. c \in Caches /\ Placed(c, 1 .. m)
    BY DEF SInv
<1>2. c.head \in [Lists -> Links] /\ c.next \in [Slabs -> Links]
    BY <1>1, Fields
<1>3. c.head[l] \in Links
    BY <1>2
<1>4. /\ c.head[l] # NoSlab => c.head[l] \in ListOf(c, l)
      /\ c.head[l] = NoSlab => ListOf(c, l) = {}
    BY <1>2, <1>3, OnFacts DEF ListOf
<1>5. ListOf(c, l) = {t \in 1 .. m : Wanted(c.count[t]) = l}
    BY <1>1 DEF Placed
<1>6. ASSUME c.head[l] # NoSlab PROVE c.head[l] \in 1 .. m /\ c.head[l] \in Slabs /\ Wanted(c.count[c.head[l]]) = l
    BY <1>3, <1>4, <1>5, <1>6 DEF Links
<1>7. ASSUME c.head[l] # NoSlab PROVE PlacedBut(c, 1 .. m, c.head[l], l)
  <2>1. PICK M : M = 1 .. m
      OBVIOUS
  <2>2. PICK s : s = c.head[l]
      OBVIOUS
  <2>3. Placed(c, M) /\ Wanted(c.count[s]) = l
      BY <1>1, <1>6, <1>7, <2>1, <2>2
  <2>4. PlacedBut(c, M, s, l)
      BY ONLY <2>3, PlacedSplit
  <2> QED
      BY <2>1, <2>2, <2>4
<1> QED
    BY <1>4, <1>6, <1>7

(* slab_alloc from a partial slab. *)
LEMMA AllocPartialKeeps ==
    ASSUME NEW c, NEW m, NEW h, SInv(c, m, h), NEW s, s = c.head["partial"], s # NoSlab,
           NEW d, d = TakeCell(c, s)
    PROVE  /\ SInv(d, m, h \cup {<<s, c.first[s]>>}) /\ <<s, c.first[s]>> \notin h
           /\ ListOf(d, "free") = ListOf(c, "free")
<1>1. "partial" \in Lists /\ "free" \in Lists
    BY DEF Lists
<1>2. s \in 1 .. m /\ s \in Slabs /\ Wanted(c.count[s]) = "partial" /\ PlacedBut(c, 1 .. m, s, "partial")
    BY <1>1, HeadFacts
<1>3. c.count[s] # 0 /\ c.count[s] # objs_per_slab
    BY <1>2 DEF Wanted
<1>4. /\ c \in Caches /\ Linked(c.head, c.prev, c.next) /\ m \in 0 .. MaxSlabs
      /\ h \subseteq (1 .. m) \X Cells /\ Placed(c, 1 .. m) /\ \A t \in 1 .. m : Celled(c, t, h)
    BY DEF SInv
<1>5. /\ SInv(d, m, h \cup {<<s, c.first[s]>>}) /\ <<s, c.first[s]>> \notin h
      /\ OneLess(c, d, m, s)
  <2>1. d = TakeCell(c, s)
      OBVIOUS
  <2> QED
      BY ONLY <1>2, <1>3, <1>4, <2>1, TakeKeeps
<1>6. c.count[s] \in 0 .. objs_per_slab /\ objs_per_slab \in Nat
    BY <1>2, <1>4, Fields, SlabAssumption
<1>7. \A t \in 1 .. m : Wanted(d.count[t]) = "free" <=> Wanted(c.count[t]) = "free"
    BY <1>3, <1>5, <1>6, SlabAssumption DEF Wanted, OneLess
<1>8. ListOf(d, "free") = {t \in 1 .. m : Wanted(d.count[t]) = "free"}
    BY <1>1, <1>5 DEF SInv, Placed
<1>9. ListOf(c, "free") = {t \in 1 .. m : Wanted(c.count[t]) = "free"}
    BY <1>1, <1>4 DEF Placed
<1> QED
    BY <1>5, <1>7, <1>8, <1>9

(* Clearing the pointers of a slab that is alone on its list changes nothing. *)
LEMMA AloneSame ==
    ASSUME NEW c \in Caches, Linked(c.head, c.prev, c.next), NEW s \in Slabs, NEW l \in Lists,
           ListOf(c, l) = {s}
    PROVE  Alone(c, s) = c
<1>1. c.head \in [Lists -> Links] /\ c.next \in [Slabs -> Links] /\ c.prev \in [Slabs -> Links]
    BY Fields
<1>2. c.head[l] \in Links
    BY <1>1
<1>3. Sound(c.head[l], c.next) /\ TwoWay(c.head[l], c.prev, c.next)
    BY DEF Linked
<1>4. OnFrom(c.head[l], c.next) = {s}
    BY DEF ListOf
<1>5. c.head[l] = s
    BY <1>1, <1>2, <1>4, OnFacts
<1>6. c.prev[s] = NoSlab
    BY <1>3, <1>4, <1>5 DEF TwoWay
<1>7. c.next[s] = NoSlab
  <2>1. ASSUME c.next[s] # NoSlab PROVE FALSE
    <3>1. c.next[s] \in OnFrom(c.head[l], c.next)
        BY <1>1, <1>2, <1>3, <1>4, <2>1, OnFacts DEF Sound
    <3>2. c.next[s] = s /\ c.prev[c.next[s]] = s
        BY <1>3, <1>4, <2>1, <3>1 DEF TwoWay
    <3> QED
        BY <1>6, <3>2, SlabCount
  <2> QED
      BY <2>1
<1> QED
    BY <1>6, <1>7 DEF Alone, Caches

(* slab_alloc from a free slab. *)
LEMMA AllocFreeKeeps ==
    ASSUME NEW c, NEW m, NEW h, SInv(c, m, h), c.head["partial"] = NoSlab,
           NEW s, s = c.head["free"], s # NoSlab,
           NEW e, e = Alone(Count(Count(Move(c, s, "free", "partial"), "free", -1), "partial", 1), s)
    PROVE  SInv(TakeCell(e, s), m, h \cup {<<s, e.first[s]>>})
<1>1. "partial" \in Lists /\ "free" \in Lists
    BY DEF Lists
<1>2. s \in 1 .. m /\ s \in Slabs /\ Wanted(c.count[s]) = "free" /\ PlacedBut(c, 1 .. m, s, "free")
    BY <1>1, HeadFacts
<1>3. ListOf(c, "partial") = {}
    BY <1>1, HeadFacts
<1>4. /\ c \in Caches /\ Linked(c.head, c.prev, c.next) /\ m \in 0 .. MaxSlabs
      /\ h \subseteq (1 .. m) \X Cells /\ Placed(c, 1 .. m) /\ \A t \in 1 .. m : Celled(c, t, h)
    BY DEF SInv
<1>5. PICK f : f = Count(Count(Move(c, s, "free", "partial"), "free", -1), "partial", 1)
    OBVIOUS
<1>6. /\ f \in Caches /\ SameCells(c, f) /\ Linked(f.head, f.prev, f.next)
      /\ PlacedBut(f, 1 .. m, s, "partial")
    BY <1>1, <1>2, <1>4, <1>5, MoveCounted
<1>7. ListOf(f, "partial") = {s}
  <2>1. ListOf(f, "partial") = {t \in 1 .. m : (IF t = s THEN "partial" ELSE Wanted(f.count[t])) = "partial"}
      BY <1>1, <1>6 DEF PlacedBut
  <2>2. ListOf(c, "partial") = {t \in 1 .. m : Wanted(c.count[t]) = "partial"}
      BY <1>1, <1>4 DEF Placed
  <2>3. f.count = c.count
      BY <1>6 DEF SameCells
  <2> QED
      BY <1>2, <1>3, <2>1, <2>2, <2>3
<1>8. e = f
    BY <1>1, <1>2, <1>5, <1>6, <1>7, AloneSame
<1>9. f.count[s] # 0
    BY <1>2, <1>6, SlabAssumption DEF Wanted, SameCells
<1>10. \A t \in 1 .. m : Celled(f, t, h)
    BY <1>4, <1>6 DEF SameCells, Celled
<1>11. SInv(TakeCell(f, s), m, h \cup {<<s, f.first[s]>>})
    BY <1>2, <1>4, <1>6, <1>9, <1>10, TakeKeeps
<1> QED
    BY <1>8, <1>11

(* slab_alloc with a new slab. *)
LEMMA AllocNewKeeps ==
    ASSUME NEW c, NEW m, NEW h, SInv(c, m, h), c.head["partial"] = NoSlab, NEW s, s = m + 1, s <= MaxSlabs,
           NEW e, e = Alone(Count([slab_init(c, s) EXCEPT !.head["partial"] = s], "partial", 1), s)
    PROVE  SInv(TakeCell(e, s), s, h \cup {<<s, e.first[s]>>})
<1>1. "partial" \in Lists /\ 1 \in Int
    BY DEF Lists
<1>2. c \in Caches /\ m \in 0 .. MaxSlabs
    BY DEF SInv
<1>3. m < MaxSlabs /\ s \in Slabs
    BY <1>2, SlabCount DEF Slabs
<1>4. PICK f : f = link_slab(slab_init(c, s), s, "partial")
    OBVIOUS
<1>5. /\ f \in Caches /\ Linked(f.head, f.prev, f.next) /\ s \in 0 .. MaxSlabs /\ s \in 1 .. s
      /\ h \subseteq (1 .. s) \X Cells /\ PlacedBut(f, 1 .. s, s, "partial")
      /\ f.count[s] = objs_per_slab /\ \A t \in 1 .. s : Celled(f, t, h)
    BY <1>1, <1>3, <1>4, NewKeeps
<1>6. e = Count(f, "partial", 1)
  <2>1. PICK g : g = slab_init(c, s)
      OBVIOUS
  <2>2. g \in Caches /\ g.head["partial"] = NoSlab
    <3>1. g \in Caches /\ SameLists(c, g)
        BY ONLY <1>2, <1>3, <2>1, InitFields
    <3> QED
        BY <3>1 DEF SameLists
  <2>3. f = [g EXCEPT !.next[s] = NoSlab, !.prev[s] = NoSlab, !.head["partial"] = s]
      BY <1>1, <1>3, <1>4, <2>1, <2>2 DEF link_slab, Caches
  <2>4. e = Alone(Count([g EXCEPT !.head["partial"] = s], "partial", 1), s)
      BY <2>1
  <2> QED
      BY <1>1, <1>3, <2>2, <2>3, <2>4 DEF Alone, Count, Caches
<1>7. e \in Caches /\ SameCells(f, e) /\ SameLists(f, e)
    BY <1>1, <1>5, <1>6, CountKeeps
<1>8. PlacedBut(e, 1 .. s, s, "partial")
    BY <1>5, <1>7, PlacedStill DEF SameCells
<1>9. /\ Linked(e.head, e.prev, e.next) /\ e.count[s] # 0 /\ \A t \in 1 .. s : Celled(e, t, h)
    BY <1>5, <1>7, SlabAssumption DEF SameCells, SameLists, Celled
<1>10. PICK x : x = TakeCell(e, s)
    OBVIOUS
<1>11. SInv(x, s, h \cup {<<s, e.first[s]>>})
  <2>1. /\ e \in Caches /\ Linked(e.head, e.prev, e.next) /\ s \in 0 .. MaxSlabs
        /\ h \subseteq (1 .. s) \X Cells /\ s \in 1 .. s /\ PlacedBut(e, 1 .. s, s, "partial")
        /\ e.count[s] # 0 /\ \A t \in 1 .. s : Celled(e, t, h)
      BY <1>5, <1>7, <1>8, <1>9
  <2> QED
      BY ONLY <1>10, <2>1, TakeKeeps
<1> QED
    BY <1>10, <1>11

(* slab_free's step on the header of s and the cell i, before s may have to move. *)
Given(c, s, i) ==
    [c EXCEPT !.link[s][i] = IF c.count[s] = 0 THEN NoCell ELSE c.first[s],
              !.first[s] = i,
              !.count[s] = @ + 1,
              !.allocated = (@ - 1) % Mod32,
              !.freeObjects = (@ + 1) % Mod32]

CellGiven(c, d, s, i) ==
    /\ d.link = [c.link EXCEPT ![s] = [c.link[s] EXCEPT ![i] = c.first[s]]]
    /\ d.first = [c.first EXCEPT ![s] = i]
    /\ d.count = [c.count EXCEPT ![s] = c.count[s] + 1]

LEMMA GivenFields ==
    ASSUME NEW c \in Caches, NEW s \in Slabs, NEW i \in Cells, c.count[s] < objs_per_slab,
           c.count[s] = 0 => c.first[s] = NoCell, NEW d, d = Given(c, s, i)
    PROVE  d \in Caches /\ SameLists(c, d) /\ CellGiven(c, d, s, i)
<1>1. /\ c.first[s] \in Cells \cup {NoCell} /\ c.count[s] + 1 \in 0 .. objs_per_slab
      /\ c.allocated - 1 \in Int /\ c.freeObjects + 1 \in Int
      /\ c.link[s] \in [Cells -> Cells \cup {NoCell}]
  <2>1. c.link[s] \in [Cells -> Cells \cup {NoCell}] /\ c.first[s] \in Cells \cup {NoCell}
      BY Fields
  <2>2. c.count[s] \in 0 .. objs_per_slab /\ objs_per_slab \in Nat /\ Mod32 \in Nat
      BY Fields, SlabAssumption
  <2>3. c.allocated \in 0 .. (Mod32 - 1) /\ c.freeObjects \in 0 .. (Mod32 - 1)
      BY Fields
  <2>4. c.count[s] + 1 \in 0 .. objs_per_slab
      BY <2>2
  <2> QED
      BY <2>1, <2>2, <2>3, <2>4
<1>2. (c.allocated - 1) % Mod32 \in 0 .. (Mod32 - 1) /\ (c.freeObjects + 1) % Mod32 \in 0 .. (Mod32 - 1)
    BY <1>1, Widths
<1>3. PICK a, f, n : a = (c.allocated - 1) % Mod32 /\ f = (c.freeObjects + 1) % Mod32 /\ n = c.count[s] + 1
    OBVIOUS
<1>4. PICK k : k = [c.link[s] EXCEPT ![i] = c.first[s]]
    OBVIOUS
<1>5. k \in [Cells -> Cells \cup {NoCell}]
    BY <1>1, <1>4
<1>6. d = [c EXCEPT !.link[s] = k, !.first[s] = i, !.count[s] = n, !.allocated = a, !.freeObjects = f]
  <2>1. (IF c.count[s] = 0 THEN NoCell ELSE c.first[s]) = c.first[s]
      OBVIOUS
  <2> QED
      BY <1>3, <1>4, <2>1 DEF Given
<1>7. a \in 0 .. (Mod32 - 1) /\ f \in 0 .. (Mod32 - 1) /\ n \in 0 .. objs_per_slab /\ c \in Caches
      /\ i \in Cells \cup {NoCell} /\ s \in Slabs
    BY <1>1, <1>2, <1>3
<1>8. /\ d \in Caches /\ SameLists(c, d) /\ d.link = [c.link EXCEPT ![s] = k]
      /\ d.first = [c.first EXCEPT ![s] = i] /\ d.count = [c.count EXCEPT ![s] = n]
    BY ONLY <1>5, <1>6, <1>7 DEF Caches, SameLists
<1> QED
    BY <1>3, <1>4, <1>8 DEF CellGiven

FreeResult(c, s, i) ==
    LET d == Given(c, s, i)
    IN  IF c.count[s] = 0
        THEN Count(Count(Move(d, s, "full", "partial"), "full", -1), "partial", 1)
        ELSE IF d.count[s] = objs_per_slab
        THEN Count(Count(Move(d, s, "partial", "free"), "full", -1), "partial", 1)
        ELSE d

(* slab_free. *)
LEMMA FreeKeeps ==
    ASSUME NEW c, NEW m, NEW h, SInv(c, m, h), NEW s, NEW i, <<s, i>> \in h,
           NEW d, d = FreeResult(c, s, i)
    PROVE  SInv(d, m, h \ {<<s, i>>})
<1> DEFINE M == 1 .. m
           h2 == h \ {<<s, i>>}
<1>1. /\ c \in Caches /\ Linked(c.head, c.prev, c.next) /\ m \in 0 .. MaxSlabs
      /\ h \subseteq M \X Cells /\ Placed(c, M) /\ \A t \in M : Celled(c, t, h)
    BY DEF SInv
<1>2. s \in M /\ i \in Cells /\ s \in Slabs /\ M \subseteq Slabs
  <2>1. s \in M /\ i \in Cells
      BY <1>1
  <2> QED
      BY <1>1, <2>1, SlabCount DEF Slabs
<1>3. /\ c.first[s] \in CellLinks /\ c.link[s] \in [Cells -> CellLinks] /\ c.count[s] \in 0 .. objs_per_slab
    BY <1>1, <1>2, Fields DEF CellLinks
<1>4. Chains(c.first[s], c.link[s], c.count[s], FreeCells(s, h)) /\ i \notin FreeCells(s, h)
    BY <1>1, <1>2 DEF Celled, FreeCells
<1>5. PICK k : k = [c.link[s] EXCEPT ![i] = c.first[s]]
    OBVIOUS
<1>6. c.count[s] < objs_per_slab /\ Chains(i, k, c.count[s] + 1, FreeCells(s, h) \cup {i})
    BY <1>2, <1>3, <1>4, <1>5, ChainGiven
<1>7. c.count[s] = 0 => c.first[s] = NoCell
  <2>1. Follows(Chain(c.first[s], c.link[s]), c.first[s], c.link[s], Cells, NoCell, objs_per_slab)
      BY <1>3, TheChain
  <2>2. Chain(c.first[s], c.link[s])[0] = c.first[s]
      BY <2>1 DEF Follows, Along
  <2>3. EndsAfter(Chain(c.first[s], c.link[s]), c.count[s], NoCell, objs_per_slab)
      BY <1>4 DEF Chains
  <2>4. 0 \in 0 .. objs_per_slab /\ 0 >= 0
      BY SlabAssumption
  <2> QED
      BY <2>2, <2>3, <2>4 DEF EndsAfter
<1>8. PICK e : e = Given(c, s, i)
    OBVIOUS
<1>9. /\ e \in Caches /\ SameLists(c, e) /\ e.link = [c.link EXCEPT ![s] = k]
      /\ e.first = [c.first EXCEPT ![s] = i] /\ e.count = [c.count EXCEPT ![s] = c.count[s] + 1]
  <2>1. e \in Caches /\ SameLists(c, e) /\ CellGiven(c, e, s, i)
      BY <1>1, <1>2, <1>6, <1>7, <1>8, GivenFields
  <2> QED
      BY <1>5, <2>1 DEF CellGiven
<1>10. /\ e.first[s] = i /\ e.count[s] = c.count[s] + 1 /\ e.link[s] = k
       /\ \A t \in M : t # s => e.first[t] = c.first[t] /\ e.count[t] = c.count[t] /\ e.link[t] = c.link[t]
    BY <1>1, <1>2, <1>9, Fields
<1>11. ASSUME NEW t \in M PROVE Celled(e, t, h2)
  <2>1. CASE t = s
    <3>1. FreeCells(s, h2) = FreeCells(s, h) \cup {i}
        BY <1>2 DEF FreeCells
    <3> QED
        BY <1>6, <1>10, <2>1, <3>1 DEF Celled
  <2>2. CASE t # s
    <3>1. FreeCells(t, h2) = FreeCells(t, h)
        BY <2>2 DEF FreeCells
    <3>2. Celled(c, t, h)
        BY <1>1
    <3> QED
        BY <1>10, <2>2, <3>1, <3>2 DEF Celled
  <2> QED
      BY <2>1, <2>2
<1>12. Linked(e.head, e.prev, e.next)
    BY <1>1, <1>9 DEF SameLists
<1>13. PICK w : w = Wanted(c.count[s])
    OBVIOUS
<1> HIDE DEF M, h2
<1>14. PlacedBut(e, M, s, w)
  <2>1. PlacedBut(c, M, s, w)
      BY <1>1, <1>13, PlacedSplit
  <2>2. \A t \in M : t # s => e.count[t] = c.count[t]
      BY <1>10
  <2> QED
      BY <1>9, <2>1, <2>2, PlacedStill
<1>15. d \in Caches /\ SameCells(e, d) /\ Linked(d.head, d.prev, d.next) /\ Placed(d, M)
  <2>0. "partial" \in Lists /\ "full" \in Lists /\ "free" \in Lists
      BY DEF Lists
  <2>1. CASE c.count[s] = 0
    <3>1. d = Count(Count(Move(e, s, "full", "partial"), "full", -1), "partial", 1)
        BY <1>8, <2>1 DEF FreeResult
    <3>2. w = "full"
        BY <1>13, <2>1 DEF Wanted
    <3>3. /\ d \in Caches /\ SameCells(e, d) /\ Linked(d.head, d.prev, d.next)
          /\ PlacedBut(d, M, s, "partial")
        BY <1>2, <1>9, <1>12, <1>14, <2>0, <3>1, <3>2, MoveCounted
    <3>4. Wanted(d.count[s]) = "partial"
        BY <1>10, <2>1, <3>3, SlabAssumption DEF SameCells, Wanted
    <3> QED
        BY <3>3, <3>4, PlacedAt
  <2>2. CASE c.count[s] # 0 /\ e.count[s] = objs_per_slab
    <3>1. d = Count(Count(Move(e, s, "partial", "free"), "full", -1), "partial", 1)
        BY <1>8, <2>2 DEF FreeResult
    <3>2. w = "partial"
        BY <1>6, <1>3, <1>13, <2>2, SlabAssumption DEF Wanted
    <3>3. /\ d \in Caches /\ SameCells(e, d) /\ Linked(d.head, d.prev, d.next)
          /\ PlacedBut(d, M, s, "free")
        BY <1>2, <1>9, <1>12, <1>14, <2>0, <3>1, <3>2, MoveCounted
    <3>4. Wanted(d.count[s]) = "free"
        BY <2>2, <3>3, SlabAssumption DEF SameCells, Wanted
    <3> QED
        BY <3>3, <3>4, PlacedAt
  <2>3. CASE c.count[s] # 0 /\ e.count[s] # objs_per_slab
    <3>1. d = e
        BY <1>8, <2>3 DEF FreeResult
    <3>2. w = "partial" /\ Wanted(e.count[s]) = "partial"
        BY <1>3, <1>6, <1>10, <1>13, <2>3, SlabAssumption DEF Wanted
    <3>3. Placed(e, M)
        BY <1>14, <3>2, PlacedAt
    <3> QED
        BY <1>9, <1>12, <3>1, <3>3 DEF SameCells
  <2> QED
      BY <2>1, <2>2, <2>3
<1>16. \A t \in M : Celled(d, t, h2)
    BY <1>11, <1>15 DEF SameCells, Celled
<1> QED
    BY <1>1, <1>15, <1>16 DEF SInv, M, h2

-----------------------------------------------------------------------------
(***************************************************************************)
(* slab_cache_reserve and slab_cache_prealloc add slabs one after another. *)
(***************************************************************************)

AddedBody(f, n) == [i \in 0 .. n |-> IF i = 0 THEN cache ELSE AddFree(f[i - 1], made + i)]

LEMMA AddedExists ==
    ASSUME NEW n \in Nat
    PROVE  \E f : f = AddedBody(f, n)
<1> DEFINE T == {k \in Nat : ~\E f : f = AddedBody(f, k)}
<1> SUFFICES ASSUME T # {} PROVE FALSE
    OBVIOUS
<1>1. PICK k \in T : \A j \in T : k <= j
  <2>1. T \in SUBSET Nat
      OBVIOUS
  <2> HIDE DEF T
  <2> QED
      BY <2>1, LeastElement
<1>2. k # 0
  <2>1. ASSUME k = 0 PROVE FALSE
    <3> DEFINE f == [i \in 0 .. 0 |-> cache]
    <3>1. f = AddedBody(f, 0)
        BY DEF AddedBody
    <3> QED
        BY <1>1, <2>1, <3>1
  <2> QED
      BY <2>1
<1>3. k \in Nat /\ k - 1 \in Nat /\ k - 1 \notin T
    BY <1>1, <1>2
<1>4. PICK g : g = AddedBody(g, k - 1)
    BY <1>3
<1> DEFINE f == [i \in 0 .. k |-> IF i = k THEN AddFree(g[k - 1], made + k) ELSE g[i]]
<1>5. ASSUME NEW i \in 0 .. k PROVE f[i] = IF i = 0 THEN cache ELSE AddFree(f[i - 1], made + i)
  <2>1. CASE i = k
    <3>1. i - 1 \in 0 .. k /\ i - 1 # k
        BY <1>2, <1>3, <2>1
    <3>2. f[i - 1] = g[k - 1]
        BY <2>1, <3>1
    <3> HIDE DEF T
    <3> QED
        BY <1>2, <2>1, <3>2
  <2>2. CASE i # k /\ i = 0
    <3>1. 0 \in 0 .. (k - 1)
        BY <1>2, <1>3
    <3>2. AddedBody(g, k - 1)[0] = cache
        BY <3>1 DEF AddedBody
    <3> QED
        BY <1>4, <2>2, <3>2
  <2>3. CASE i # k /\ i # 0
    <3>1. i \in 0 .. (k - 1) /\ i - 1 \in 0 .. k /\ i - 1 # k
        BY <1>3, <2>3
    <3>2. AddedBody(g, k - 1)[i] = AddFree(g[i - 1], made + i)
        BY <2>3, <3>1 DEF AddedBody
    <3>3. f[i - 1] = g[i - 1]
        BY <3>1
    <3> QED
        BY <1>4, <2>3, <3>2, <3>3
  <2> QED
      BY <2>1, <2>2, <2>3
<1>6. f = AddedBody(f, k)
  <2>1. f = [i \in 0 .. k |-> f[i]]
      OBVIOUS
  <2> HIDE DEF f
  <2>2. [i \in 0 .. k |-> f[i]] = [i \in 0 .. k |-> IF i = 0 THEN cache ELSE AddFree(f[i - 1], made + i)]
      BY <1>5
  <2> QED
      BY <2>1, <2>2 DEF AddedBody
<1> QED
    BY <1>1, <1>6

LEMMA AddedEquation ==
    ASSUME made \in 0 .. MaxSlabs
    PROVE  \A i \in 0 .. (MaxSlabs - made) :
              Added[i] = IF i = 0 THEN cache ELSE AddFree(Added[i - 1], made + i)
<1> DEFINE n == MaxSlabs - made
           P(f) == f = AddedBody(f, n)
<1>1. n \in Nat
    BY SlabCount
<1>2. \E f : P(f)
    BY <1>1, AddedExists
<1>3. Added = CHOOSE f : P(f)
    BY DEF Added, AddedBody
<1> HIDE DEF P
<1>4. P(Added)
    BY <1>2, <1>3
<1>5. PICK f : f = Added
    OBVIOUS
<1>6. f = AddedBody(f, n)
    BY <1>4, <1>5 DEF P
<1>7. \A i \in 0 .. n : AddedBody(f, n)[i] = IF i = 0 THEN cache ELSE AddFree(f[i - 1], made + i)
    BY DEF AddedBody
<1> QED
    BY <1>5, <1>6, <1>7

LEMMA AddedKeeps ==
    ASSUME SInv(cache, made, handed)
    PROVE  \A i \in 0 .. (MaxSlabs - made) : SInv(Added[i], made + i, handed)
<1>1. made \in 0 .. MaxSlabs /\ MaxSlabs \in Nat
    BY SlabCount DEF SInv
<1>2. PICK f : f = Added
    OBVIOUS
<1>3. \A i \in 0 .. (MaxSlabs - made) : f[i] = IF i = 0 THEN cache ELSE AddFree(f[i - 1], made + i)
    BY <1>1, <1>2, AddedEquation
<1> DEFINE D == 0 .. (MaxSlabs - made)
           T == {i \in D : ~SInv(f[i], made + i, handed)}
<1>4. T = {}
  <2> SUFFICES ASSUME T # {} PROVE FALSE
      OBVIOUS
  <2>1. PICK k \in T : \A j \in T : k <= j
    <3>1. T \in SUBSET Nat
        BY <1>1
    <3> HIDE DEF T
    <3> QED
        BY <3>1, LeastElement
  <2>2. 0 \in D /\ made + 0 = made
      BY <1>1
  <2>3. k # 0
      BY <1>3, <2>1, <2>2
  <2>4. k \in D /\ k - 1 \in D /\ k - 1 \notin T /\ made + k = (made + (k - 1)) + 1 /\ made + (k - 1) < MaxSlabs
      BY <1>1, <2>1, <2>3
  <2>5. SInv(f[k - 1], made + (k - 1), handed)
      BY <2>4
  <2>6. PICK c, m : c = f[k - 1] /\ m = made + (k - 1)
      OBVIOUS
  <2>7. SInv(c, m, handed) /\ m < MaxSlabs
      BY <2>4, <2>5, <2>6
  <2>8. SInv(AddFree(c, m + 1), m + 1, handed)
      BY <2>7, AddFreeKeeps
  <2>9. f[k] = AddFree(c, m + 1) /\ m + 1 = made + k
      BY <1>3, <2>3, <2>4, <2>6
  <2> QED
      BY <2>1, <2>8, <2>9
<1> QED
    BY <1>2, <1>4

-----------------------------------------------------------------------------
(***************************************************************************)
(* The invariant is inductive.                                             *)
(***************************************************************************)

Inv == SInv(cache, made, handed)

LEMMA InitInv == SlabInit => Inv
<1> SUFFICES ASSUME SlabInit PROVE Inv
    OBVIOUS
<1>1. /\ cache \in Caches /\ made = 0 /\ handed = {}
      /\ \A l \in Lists : cache.head[l] = NoSlab
  <2>1. 0 \in Cells \cup {NoCell} /\ 0 \in 0 .. objs_per_slab /\ 0 \in 0 .. (Mod16 - 1) /\ 0 \in 0 .. (Mod32 - 1)
      BY SlabAssumption DEF Cells
  <2> QED
      BY <2>1 DEF SlabInit, slab_cache_init, Caches
<1>2. cache.next \in [Slabs -> Links] /\ NoSlab \in Links
    BY <1>1, Fields DEF Links
<1>3. PICK next : next = cache.next
    OBVIOUS
<1>4. OnFrom(NoSlab, next) = {}
    BY <1>2, <1>3, OnFacts
<1>5. Sound(NoSlab, next)
  <2>1. Follows(ListFrom(NoSlab, next), NoSlab, next, Slabs, NoSlab, MaxSlabs) /\ MaxSlabs \in Nat
      BY <1>2, <1>3, TheList, SlabCount
  <2>2. ListFrom(NoSlab, next)[0] = NoSlab /\ 0 \in 0 .. MaxSlabs
      BY <2>1 DEF Follows, Along
  <2>3. \A j \in 0 .. MaxSlabs : 0 <= j => ListFrom(NoSlab, next)[j] = NoSlab
      BY <2>1, <2>2, NullStays
  <2>4. \A j \in 0 .. MaxSlabs : ListFrom(NoSlab, next)[j] = NoSlab
      BY <2>1, <2>3
  <2> QED
      BY <2>1, <2>4 DEF Sound, Stops, Once
<1>6. \A l \in Lists : OnFrom(cache.head[l], cache.next) = {} /\ Sound(cache.head[l], cache.next)
    BY <1>1, <1>3, <1>4, <1>5
<1>7. Linked(cache.head, cache.prev, cache.next)
    BY <1>6 DEF Linked, TwoWay
<1>8. 1 .. made = {} /\ made \in 0 .. MaxSlabs
    BY <1>1, SlabCount
<1>9. Placed(cache, 1 .. made)
    BY <1>6, <1>8 DEF Placed, ListOf
<1> QED
    BY <1>1, <1>7, <1>8, <1>9 DEF Inv, SInv

LEMMA ReserveStep ==
    ASSUME Inv, NEW o \in 1 .. (2 * objs_per_slab), slab_cache_reserve(o)
    PROVE  Inv' /\ handed' = handed
<1> DEFINE n == (o + objs_per_slab - 1) \div objs_per_slab
<1>1. n \in Nat
  <2>1. o + objs_per_slab - 1 \in Nat /\ objs_per_slab \in Nat /\ objs_per_slab > 0
      BY SlabAssumption
  <2> QED
      BY <2>1
<1>2. /\ made + n <= MaxSlabs /\ cache' = Count(Added[n], "free", n) /\ made' = made + n /\ handed' = handed
    BY DEF slab_cache_reserve
<1> HIDE DEF n
<1>3. n \in 0 .. (MaxSlabs - made) /\ "free" \in Lists /\ n \in Int
    BY <1>1, <1>2, SlabCount DEF Inv, SInv, Lists
<1>4. SInv(Added[n], made + n, handed)
    BY <1>3, AddedKeeps DEF Inv
<1>5. SInv(Count(Added[n], "free", n), made + n, handed)
    BY <1>3, <1>4, CountInv
<1> QED
    BY <1>2, <1>5 DEF Inv

LEMMA PreallocStep ==
    ASSUME Inv, NEW n \in 1 .. 2, slab_cache_prealloc(n)
    PROVE  Inv' /\ handed' = handed
<1>1. made + n <= MaxSlabs /\ cache' = Added[n] /\ made' = made + n /\ handed' = handed
    BY DEF slab_cache_prealloc
<1>2. n \in 0 .. (MaxSlabs - made)
    BY <1>1, SlabCount DEF Inv, SInv
<1>3. SInv(Added[n], made + n, handed)
    BY <1>2, AddedKeeps DEF Inv
<1> QED
    BY <1>1, <1>3 DEF Inv

LEMMA AllocPartialStep ==
    ASSUME Inv, AllocPartial
    PROVE  Inv' /\ ListOf(cache, "free")' = ListOf(cache, "free")
<1>1. PICK c, s : c = cache /\ s = c.head["partial"]
    OBVIOUS
<1>2. s # NoSlab /\ cache' = TakeCell(c, s) /\ handed' = handed \cup {<<s, c.first[s]>>} /\ made' = made
    BY <1>1 DEF AllocPartial, Hand
<1>3. PICK d : d = TakeCell(c, s)
    OBVIOUS
<1>4. SInv(c, made, handed)
    BY <1>1 DEF Inv
<1>5. SInv(d, made, handed \cup {<<s, c.first[s]>>}) /\ ListOf(d, "free") = ListOf(c, "free")
  <2>1. PICK m, h : m = made /\ h = handed
      OBVIOUS
  <2>2. SInv(c, m, h) /\ s = c.head["partial"] /\ s # NoSlab
      BY <1>1, <1>2, <1>4, <2>1
  <2>3. SInv(d, m, h \cup {<<s, c.first[s]>>}) /\ ListOf(d, "free") = ListOf(c, "free")
      BY ONLY <1>3, <2>2, AllocPartialKeeps
  <2> QED
      BY <2>1, <2>3
<1>6. cache' = d /\ ListOf(cache, "free")' = ListOf(d, "free")
    BY <1>2, <1>3 DEF ListOf
<1> QED
    BY <1>1, <1>2, <1>5, <1>6 DEF Inv

LEMMA AllocFreeStep ==
    ASSUME Inv, AllocFree
    PROVE  Inv' /\ ListOf(cache, "partial") = {}
<1>1. PICK c, s : c = cache /\ s = c.head["free"]
    OBVIOUS
<1>2. PICK e : e = Alone(Count(Count(Move(c, s, "free", "partial"), "free", -1), "partial", 1), s)
    OBVIOUS
<1>3. /\ c.head["partial"] = NoSlab /\ s # NoSlab
      /\ cache' = TakeCell(e, s) /\ handed' = handed \cup {<<s, e.first[s]>>} /\ made' = made
    BY <1>1, <1>2 DEF AllocFree, Hand
<1>4. SInv(c, made, handed) /\ "partial" \in Lists
    BY <1>1 DEF Inv, Lists
<1>5. SInv(TakeCell(e, s), made, handed \cup {<<s, e.first[s]>>})
    BY <1>1, <1>2, <1>3, <1>4, AllocFreeKeeps
<1>6. ListOf(c, "partial") = {}
    BY <1>3, <1>4, HeadFacts
<1> QED
    BY <1>1, <1>3, <1>5, <1>6 DEF Inv

LEMMA AllocNewStep ==
    ASSUME Inv, AllocNew
    PROVE  Inv' /\ ListOf(cache, "partial") = {}
<1>1. PICK c, s : c = cache /\ s = made + 1
    OBVIOUS
<1>2. PICK e : e = Alone(Count([slab_init(c, s) EXCEPT !.head["partial"] = s], "partial", 1), s)
    OBVIOUS
<1>3. /\ c.head["partial"] = NoSlab /\ s <= MaxSlabs
      /\ cache' = TakeCell(e, s) /\ handed' = handed \cup {<<s, e.first[s]>>} /\ made' = s
    BY <1>1, <1>2 DEF AllocNew, Hand
<1>4. SInv(c, made, handed) /\ "partial" \in Lists
    BY <1>1 DEF Inv, Lists
<1>5. SInv(TakeCell(e, s), s, handed \cup {<<s, e.first[s]>>})
    BY <1>1, <1>2, <1>3, <1>4, AllocNewKeeps
<1>6. ListOf(c, "partial") = {}
    BY <1>3, <1>4, HeadFacts
<1> QED
    BY <1>1, <1>3, <1>5, <1>6 DEF Inv

LEMMA FreeStep ==
    ASSUME Inv, NEW o \in handed, slab_free(o[1], o[2])
    PROVE  Inv' /\ handed' \subseteq handed
<1>1. handed \subseteq (1 .. made) \X Cells
    BY DEF Inv, SInv
<1>2. PICK c, s, i : c = cache /\ s = o[1] /\ i = o[2]
    OBVIOUS
<1>3. o = <<s, i>> /\ <<s, i>> \in handed
    BY <1>1, <1>2
<1>4. cache' = FreeResult(c, s, i) /\ handed' = handed \ {<<s, i>>} /\ made' = made
    BY <1>2 DEF slab_free, FreeResult, Given
<1>5. SInv(c, made, handed)
    BY <1>2 DEF Inv
<1>6. SInv(FreeResult(c, s, i), made, handed \ {<<s, i>>})
    BY <1>3, <1>5, FreeKeeps
<1> QED
    BY <1>4, <1>6 DEF Inv

LEMMA NextInv == Inv /\ [SlabNext]_slabVars => Inv'
<1> SUFFICES ASSUME Inv, [SlabNext]_slabVars PROVE Inv'
    OBVIOUS
<1>1. CASE \E n \in 1 .. (2 * objs_per_slab) : slab_cache_reserve(n)
    BY <1>1, ReserveStep
<1>2. CASE \E n \in 1 .. 2 : slab_cache_prealloc(n)
    BY <1>2, PreallocStep
<1>3. CASE AllocPartial
    BY <1>3, AllocPartialStep
<1>4. CASE AllocFree
    BY <1>4, AllocFreeStep
<1>5. CASE AllocNew
    BY <1>5, AllocNewStep
<1>6. CASE \E o \in handed : slab_free(o[1], o[2])
    BY <1>6, FreeStep
<1>7. CASE UNCHANGED slabVars
    BY <1>7 DEF slabVars, Inv, SInv
<1> QED
    BY <1>1, <1>2, <1>3, <1>4, <1>5, <1>6, <1>7 DEF SlabNext

(* The walks of the properties are those of the invariant. *)
LEMMA WalkIs ==
    ASSUME Inv, NEW l \in Lists
    PROVE  Walk(l) = ListFrom(cache.head[l], cache.next) /\ On(l) = ListOf(cache, l)
<1>1. PICK h, next : h = cache.head[l] /\ next = cache.next
    OBVIOUS
<1>2. cache \in Caches
    BY DEF Inv, SInv
<1>3. h \in Links /\ next \in [Slabs -> Links]
    BY <1>1, <1>2, Fields
<1>4. PICK v : v = Walk(l)
    OBVIOUS
<1>5. v = CHOOSE w : w = WalkBody(w, h, next, NoSlab, MaxSlabs)
    BY <1>1, <1>4 DEF Walk, WalkBody
<1>6. Follows(v, h, next, Slabs, NoSlab, MaxSlabs)
  <2>1. h \in Slabs \cup {NoSlab} /\ next \in [Slabs -> Slabs \cup {NoSlab}] /\ MaxSlabs \in Nat
      BY <1>3, SlabCount DEF Links
  <2> QED
      BY ONLY <1>5, <2>1, WalkFollows
<1>7. v = ListFrom(h, next)
    BY <1>3, <1>6, TheList
<1> QED
    BY <1>1, <1>4, <1>7 DEF On, ListOf, OnFrom, Met

LEMMA ChainedIs ==
    ASSUME Inv, NEW s \in Made
    PROVE  Chained(s) = FreeCells(s, handed)
<1>1. PICK f, k, n : f = cache.first[s] /\ k = cache.link[s] /\ n = cache.count[s]
    OBVIOUS
<1>2. cache \in Caches /\ made \in 0 .. MaxSlabs /\ Celled(cache, s, handed)
    BY DEF Inv, SInv, Made
<1>3. s \in Slabs
    BY <1>2, SlabCount DEF Made, Slabs
<1>4. f \in CellLinks /\ k \in [Cells -> CellLinks] /\ n \in 0 .. objs_per_slab
    BY <1>1, <1>2, <1>3, Fields DEF CellLinks
<1>5. PICK v : v = CHOOSE w : w = WalkBody(w, f, k, NoCell, objs_per_slab)
    OBVIOUS
<1>6. Chained(s) = {v[i] : i \in 0 .. (n - 1)}
    BY <1>1, <1>5 DEF Chained, WalkBody
<1>7. Follows(v, f, k, Cells, NoCell, objs_per_slab)
  <2>1. f \in Cells \cup {NoCell} /\ k \in [Cells -> Cells \cup {NoCell}] /\ objs_per_slab \in Nat
      BY <1>4, CellCount DEF CellLinks
  <2> QED
      BY ONLY <1>5, <2>1, WalkFollows
<1>8. v = Chain(f, k)
    BY <1>4, <1>7, TheChain
<1>9. EndsAfter(v, n, NoCell, objs_per_slab) /\ Met(v, NoCell, objs_per_slab) = FreeCells(s, handed)
    BY <1>1, <1>2, <1>8 DEF Celled, Chains
<1>10. {v[i] : i \in 0 .. (n - 1)} = Met(v, NoCell, objs_per_slab)
  <2>1. objs_per_slab \in Nat
      BY CellCount
  <2>2. \A i \in 0 .. (n - 1) : i \in 0 .. objs_per_slab /\ ~(i >= n)
      BY <1>4, <2>1
  <2>3. \A i \in 0 .. objs_per_slab : ~(i >= n) => i \in 0 .. (n - 1)
      BY <1>4, <2>1
  <2> QED
      BY <1>9, <2>2, <2>3 DEF EndsAfter, Met
<1> QED
    BY <1>6, <1>9, <1>10

LEMMA InvTypeOK == Inv => SlabTypeOK
<1> SUFFICES ASSUME Inv PROVE SlabTypeOK
    OBVIOUS
<1>1. cache \in Caches /\ made \in 0 .. MaxSlabs /\ handed \subseteq (1 .. made) \X Cells
    BY DEF Inv, SInv
<1>2. 1 .. made \subseteq Slabs
    BY <1>1, SlabCount DEF Slabs
<1> QED
    BY <1>1, <1>2 DEF SlabTypeOK

LEMMA InvListsSound == Inv => ListsSound
<1> SUFFICES ASSUME Inv PROVE ListsSound
    OBVIOUS
<1>1. cache \in Caches /\ Linked(cache.head, cache.prev, cache.next) /\ Placed(cache, Made) /\ made \in 0 .. MaxSlabs
    BY DEF Inv, SInv, Made
<1>2. ASSUME NEW l \in Lists
      PROVE  /\ Walk(l)[MaxSlabs] = NoSlab
             /\ \A s \in On(l) : /\ cache.prev[s] = NoSlab <=> s = cache.head[l]
                                 /\ cache.next[s] # NoSlab => cache.prev[cache.next[s]] = s
             /\ On(l) = {t \in Made : Wanted(cache.count[t]) = l}
  <2>1. Walk(l) = ListFrom(cache.head[l], cache.next) /\ On(l) = ListOf(cache, l)
      BY WalkIs
  <2>2. Sound(cache.head[l], cache.next) /\ TwoWay(cache.head[l], cache.prev, cache.next)
      BY <1>1 DEF Linked
  <2> QED
      BY <1>1, <2>1, <2>2 DEF Sound, Stops, TwoWay, ListOf, Placed
<1>3. ASSUME NEW s \in Made
      PROVE  /\ s \in On("free") <=> cache.count[s] = objs_per_slab
             /\ s \in On("partial") <=> cache.count[s] \in 1 .. (objs_per_slab - 1)
             /\ s \in On("full") <=> cache.count[s] = 0
  <2>1. s \in Slabs
      BY <1>1, SlabCount DEF Made, Slabs
  <2>2. cache.count[s] \in 0 .. objs_per_slab
      BY <1>1, <2>1, Fields
  <2>3. "free" \in Lists /\ "partial" \in Lists /\ "full" \in Lists
      BY DEF Lists
  <2>4. \A l \in Lists : s \in On(l) <=> Wanted(cache.count[s]) = l
      BY <1>2
  <2>5. \A l \in Lists : l \in {"free", "partial", "full"}
      BY DEF Lists
  <2> QED
      BY <2>2, <2>3, <2>4, SlabAssumption DEF Wanted
<1> QED
    BY <1>2, <1>3 DEF ListsSound

LEMMA InvChainsExact == Inv => ChainsExact
<1> SUFFICES ASSUME Inv PROVE ChainsExact
    OBVIOUS
<1> QED
    BY ChainedIs DEF ChainsExact, FreeCells

LEMMA OnFree == Inv => On("free") = ListOf(cache, "free")
    BY WalkIs DEF Lists

(* A step that gives out an object while a partial slab exists keeps the free list. *)
LEMMA StepPartialFirst ==
    ASSUME Inv, [SlabNext]_slabVars, Inv'
    PROVE  [ Cardinality(handed') > Cardinality(handed) /\ On("partial") # {}
               => On("free")' = On("free") ]_slabVars
<1> SUFFICES ASSUME SlabNext, Cardinality(handed') > Cardinality(handed), On("partial") # {}
             PROVE  On("free")' = On("free")
    BY DEF slabVars
<1>0. "free" \in Lists /\ "partial" \in Lists
    BY DEF Lists
<1>1. On("partial") = ListOf(cache, "partial") /\ On("free") = ListOf(cache, "free")
    BY <1>0, WalkIs
<1>2. On("free")' = ListOf(cache, "free")'
  <2>1. (On("free") = ListOf(cache, "free"))'
      BY OnFree, PTL
  <2> QED
      BY <2>1
<1>3. IsFiniteSet(handed)
  <2>1. handed \subseteq (1 .. made) \X Cells /\ made \in 0 .. MaxSlabs
      BY DEF Inv, SInv
  <2>2. IsFiniteSet(1 .. made) /\ IsFiniteSet(Cells)
      BY <2>1, CellCount, FS_Interval
  <2>3. IsFiniteSet((1 .. made) \X Cells)
      BY <2>2, FS_Product
  <2> QED
      BY <2>1, <2>3, FS_Subset
<1>4. ~(handed' \subseteq handed)
  <2>1. ASSUME handed' \subseteq handed PROVE FALSE
    <3>1. PICK a, b : a = handed /\ b = handed'
        OBVIOUS
    <3>2. IsFiniteSet(a) /\ b \subseteq a /\ Cardinality(b) > Cardinality(a)
        BY <1>3, <2>1, <3>1
    <3>3. IsFiniteSet(b) /\ Cardinality(b) <= Cardinality(a)
        BY ONLY <3>2, FS_Subset
    <3>4. Cardinality(a) \in Nat /\ Cardinality(b) \in Nat
        BY <3>2, <3>3, FS_CardinalityType
    <3> QED
        BY <3>2, <3>3, <3>4
  <2> QED
      BY <2>1
<1>5. CASE \E n \in 1 .. (2 * objs_per_slab) : slab_cache_reserve(n)
    BY <1>4, <1>5, ReserveStep
<1>6. CASE \E n \in 1 .. 2 : slab_cache_prealloc(n)
    BY <1>4, <1>6, PreallocStep
<1>7. CASE AllocPartial
    BY <1>1, <1>2, <1>7, AllocPartialStep
<1>8. CASE AllocFree
    BY <1>1, <1>8, AllocFreeStep
<1>9. CASE AllocNew
    BY <1>1, <1>9, AllocNewStep
<1>10. CASE \E o \in handed : slab_free(o[1], o[2])
    BY <1>4, <1>10, FreeStep
<1> QED
    BY <1>5, <1>6, <1>7, <1>8, <1>9, <1>10 DEF SlabNext

-----------------------------------------------------------------------------
(***************************************************************************)
(* The theorems.                                                           *)
(***************************************************************************)

LEMMA InvHolds == SlabSpec => []Inv
    BY InitInv, NextInv, PTL DEF SlabSpec

(***************************************************************************)
(* Every pointer of a cache is NULL or a slab it obtained, and the counts  *)
(* stay within a slab, for every number and size of slabs.                 *)
(***************************************************************************)
THEOREM TypeCorrect == SlabSpec => []SlabTypeOK
    BY InvHolds, InvTypeOK, PTL

(***************************************************************************)
(* __link_slab and __unlink_slab keep the three lists apart, ending and    *)
(* linked both ways, and each call leaves every slab on the list its       *)
(* free_count calls for.                                                   *)
(***************************************************************************)
THEOREM SlabsStayListed == SlabSpec => []ListsSound
    BY InvHolds, InvListsSound, PTL

(***************************************************************************)
(* slab_alloc never hands out a cell that a caller has, and no cell is     *)
(* lost: the chain inside a slab is what the callers do not have.          *)
(***************************************************************************)
THEOREM CellsStayChained == SlabSpec => []ChainsExact
    BY InvHolds, InvChainsExact, PTL

(***************************************************************************)
(* slab_alloc opens a free slab only when no partial slab has room.        *)
(***************************************************************************)
THEOREM PartialSlabsFirst == SlabSpec => PartialFirst
    BY InvHolds, NextInv, StepPartialFirst, PTL DEF SlabSpec, PartialFirst

=============================================================================
