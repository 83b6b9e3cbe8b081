----------------------------- MODULE ListLemmas ------------------------------
(***************************************************************************)
(* What linking and unlinking an entry does to a list without duplicates:  *)
(* facts about sequences that the proofs on the free lists cite.  The      *)
(* least-number principle for sets, which stands in for induction.  And    *)
(* the same facts for lists that are followed pointer by pointer.          *)
(***************************************************************************)
EXTENDS Integers, Sequences, FiniteSets, SequencesExt, SequenceTheorems, FiniteSetTheorems,
        WellFoundedInduction, TLAPS

(***************************************************************************)
(* Linking an entry at the head of a list adds its offset and nothing else.*)
(***************************************************************************)
LEMMA ConsFacts ==
    ASSUME NEW s \in Seq(Nat), NEW x \in Nat
    PROVE  /\ Cons(x, s) \in Seq(Nat)
           /\ Range(Cons(x, s)) = Range(s) \cup {x}
           /\ IsInjective(s) /\ x \notin Range(s) => IsInjective(Cons(x, s))
<1> DEFINE t == Cons(x, s)
<1>1. /\ t \in Seq(Nat)
      /\ Len(t) = Len(s) + 1
      /\ t[1] = x
      /\ \A i \in 1 .. Len(s) : t[i + 1] = s[i]
    BY DEF Cons
<1>2. DOMAIN t = 1 .. (Len(s) + 1) /\ DOMAIN s = 1 .. Len(s) /\ Len(s) \in Nat
    BY <1>1
<1> HIDE DEF t
<1>a. \A i \in DOMAIN t : i = 1 \/ (i - 1 \in DOMAIN s /\ t[i] = s[i - 1])
    BY <1>1, <1>2
<1>b. \A i \in DOMAIN s : i + 1 \in DOMAIN t /\ t[i + 1] = s[i]
    BY <1>1, <1>2
<1>3. Range(t) = Range(s) \cup {x}
  <2>1. ASSUME NEW v \in Range(t) PROVE v \in Range(s) \cup {x}
    <3>1. PICK i \in DOMAIN t : t[i] = v
        BY DEF Range
    <3> QED
        BY <3>1, <1>1, <1>a DEF Range
  <2>2. ASSUME NEW v \in Range(s) PROVE v \in Range(t)
    <3>1. PICK i \in DOMAIN s : s[i] = v
        BY DEF Range
    <3> QED
        BY <3>1, <1>b DEF Range
  <2>3. x \in Range(t)
    <3>1. 1 \in DOMAIN t
        BY <1>2
    <3> QED
        BY <3>1, <1>1 DEF Range
  <2> QED
      BY <2>1, <2>2, <2>3
<1>4. ASSUME IsInjective(s), x \notin Range(s)
      PROVE  IsInjective(t)
  <2> SUFFICES ASSUME NEW a \in DOMAIN t, NEW b \in DOMAIN t, t[a] = t[b]
               PROVE  a = b
      BY DEF IsInjective
  <2>1. \A i \in DOMAIN s : s[i] # x
      BY <1>4 DEF Range
  <2>2. CASE a = 1 /\ b = 1
      BY <2>2
  <2>3. CASE a = 1 /\ b # 1
      BY <2>3, <2>1, <1>1, <1>a
  <2>4. CASE a # 1 /\ b = 1
      BY <2>4, <2>1, <1>1, <1>a
  <2>5. CASE a # 1 /\ b # 1
    <3>1. a - 1 \in DOMAIN s /\ b - 1 \in DOMAIN s /\ s[a - 1] = s[b - 1]
        BY <2>5, <1>a
    <3>2. a - 1 = b - 1
        BY <3>1, <1>4 DEF IsInjective
    <3> QED
        BY <3>2, <1>2
  <2> QED
      BY <2>2, <2>3, <2>4, <2>5
<1> QED
    BY <1>1, <1>3, <1>4 DEF t

(***************************************************************************)
(* t is s without the element at position i.                               *)
(***************************************************************************)
LEMMA DeleteFacts ==
    ASSUME NEW s \in Seq(Nat), NEW i \in 1 .. Len(s), IsInjective(s),
           NEW t \in Seq(Nat), Len(t) = Len(s) - 1,
           \A j \in 1 .. (Len(s) - 1) : t[j] = IF j < i THEN s[j] ELSE s[j + 1]
    PROVE  Range(t) = Range(s) \ {s[i]} /\ IsInjective(t)
<1> DEFINE At(j) == IF j < i THEN j ELSE j + 1
<1>1. DOMAIN s = 1 .. Len(s) /\ Len(s) \in Nat /\ DOMAIN t = 1 .. (Len(s) - 1) /\ i \in Int
    OBVIOUS
<1>2. ASSUME NEW j \in DOMAIN t
      PROVE  At(j) \in DOMAIN s /\ At(j) # i /\ t[j] = s[At(j)]
  <2>1. j \in Int /\ 1 <= j /\ j <= Len(s) - 1
      BY <1>1
  <2>2. CASE j < i
      BY <2>1, <2>2, <1>1
  <2>3. CASE ~(j < i)
    <3>1. At(j) = j + 1 /\ t[j] = s[j + 1]
        BY <2>1, <2>3, <1>1
    <3>2. j + 1 \in 1 .. Len(s) /\ j + 1 # i
        BY <2>1, <2>3, <1>1
    <3> QED
        BY <3>1, <3>2, <1>1
  <2> QED
      BY <2>2, <2>3
<1>3. ASSUME NEW j \in DOMAIN t, NEW l \in DOMAIN t, At(j) = At(l)
      PROVE  j = l
  <2>1. j \in Int /\ l \in Int
      BY <1>1
  <2>2. (j < i \/ ~(j < i)) /\ (l < i \/ ~(l < i))
      OBVIOUS
  <2>3. CASE j < i /\ l < i
      BY <2>3, <1>3
  <2>4. CASE j < i /\ ~(l < i)
      BY <2>1, <2>4, <1>1, <1>3
  <2>5. CASE ~(j < i) /\ l < i
      BY <2>1, <2>5, <1>1, <1>3
  <2>6. CASE ~(j < i) /\ ~(l < i)
      BY <2>1, <2>6, <1>3
  <2> QED
      BY <2>2, <2>3, <2>4, <2>5, <2>6
<1>4. \A j \in DOMAIN s : j # i => \E l \in DOMAIN t : At(l) = j
  <2> SUFFICES ASSUME NEW j \in DOMAIN s, j # i PROVE \E l \in DOMAIN t : At(l) = j
      OBVIOUS
  <2>1. CASE j < i
      BY <2>1, <1>1
  <2>2. CASE j > i
    <3>1. j - 1 \in DOMAIN t /\ At(j - 1) = j
        BY <2>2, <1>1
    <3> QED
        BY <3>1
  <2> QED
      BY <2>1, <2>2, <1>1
<1> HIDE DEF At
<1>5. ASSUME NEW v \in Range(t) PROVE v \in Range(s) \ {s[i]}
  <2>1. PICK j \in DOMAIN t : t[j] = v
      BY DEF Range
  <2>2. s[At(j)] = v /\ s[At(j)] # s[i]
      BY <2>1, <1>1, <1>2 DEF IsInjective
  <2> QED
      BY <2>1, <2>2, <1>2 DEF Range
<1>6. ASSUME NEW v \in Range(s) \ {s[i]} PROVE v \in Range(t)
  <2>1. PICK j \in DOMAIN s : s[j] = v /\ j # i
      BY DEF Range
  <2>2. PICK l \in DOMAIN t : At(l) = j
      BY <2>1, <1>4
  <2> QED
      BY <2>1, <2>2, <1>2 DEF Range
<1>7. IsInjective(t)
    BY <1>2, <1>3 DEF IsInjective
<1> QED
    BY <1>5, <1>6, <1>7

(***************************************************************************)
(* Unlinking the entry at position i removes its offset and nothing else.  *)
(***************************************************************************)
LEMMA RemoveFacts ==
    ASSUME NEW s \in Seq(Nat), NEW i \in 1 .. Len(s), IsInjective(s)
    PROVE  /\ RemoveAt(s, i) \in Seq(Nat)
           /\ Range(RemoveAt(s, i)) = Range(s) \ {s[i]}
           /\ IsInjective(RemoveAt(s, i))
<1> DEFINE u == SubSeq(s, 1, i - 1)
           v == SubSeq(s, i + 1, Len(s))
<1>0. Len(s) \in Nat /\ (\A j \in 1 .. Len(s) : s[j] \in Nat) /\ i \in Nat \ {0} /\ i <= Len(s)
    OBVIOUS
<1>1. /\ u \in Seq(Nat) /\ Len(u) = i - 1
      /\ \A j \in 1 .. (i - 1) : u[j] = s[j]
    BY <1>0, SubSeqProperties, Z3
<1>2. /\ v \in Seq(Nat) /\ Len(v) = Len(s) - i
      /\ \A j \in 1 .. (Len(s) - i) : v[j] = s[i + j]
    BY <1>0, SubSeqProperties, Z3
<1> HIDE DEF u, v
<1>3. /\ u \o v \in Seq(Nat) /\ Len(u \o v) = Len(s) - 1
      /\ \A j \in 1 .. (Len(s) - 1) : (u \o v)[j] = IF j < i THEN s[j] ELSE s[j + 1]
  <2>1. /\ u \o v \in Seq(Nat)
        /\ Len(u \o v) = Len(u) + Len(v)
        /\ \A j \in 1 .. (Len(u) + Len(v)) : (u \o v)[j] =
                IF j <= Len(u) THEN u[j] ELSE v[j - Len(u)]
      BY <1>1, <1>2, ConcatProperties
  <2>2. Len(u \o v) = Len(s) - 1
      BY <2>1, <1>0, <1>1, <1>2
  <2>3. ASSUME NEW j \in 1 .. (Len(s) - 1)
        PROVE  (u \o v)[j] = IF j < i THEN s[j] ELSE s[j + 1]
    <3>1. (u \o v)[j] = IF j <= i - 1 THEN u[j] ELSE v[j - (i - 1)]
      <4>1. Len(u) = i - 1 /\ j \in 1 .. (Len(u) + Len(v))
          BY <2>1, <2>2, <1>1
      <4>2. (u \o v)[j] = IF j <= Len(u) THEN u[j] ELSE v[j - Len(u)]
          BY <4>1, <2>1
      <4> QED
          BY <4>1, <4>2
    <3>2. CASE j < i
        BY <3>1, <3>2, <1>0, <1>1
    <3>3. CASE ~(j < i)
      <4>1. j - (i - 1) \in 1 .. (Len(s) - i) /\ i + (j - (i - 1)) = j + 1
          BY <3>3, <1>0
      <4> QED
          BY <3>1, <3>3, <4>1, <1>0, <1>2
    <3> QED
        BY <3>2, <3>3
  <2> QED
      BY <2>1, <2>2, <2>3
<1>4. RemoveAt(s, i) = u \o v
    BY DEF RemoveAt, u, v
<1>5. Range(u \o v) = Range(s) \ {s[i]} /\ IsInjective(u \o v)
  <2> DEFINE t == u \o v
  <2>1. /\ t \in Seq(Nat) /\ Len(t) = Len(s) - 1
        /\ \A j \in 1 .. (Len(s) - 1) : t[j] = IF j < i THEN s[j] ELSE s[j + 1]
      BY <1>3
  <2> HIDE DEF t
  <2>2. Range(t) = Range(s) \ {s[i]} /\ IsInjective(t)
      BY <2>1, DeleteFacts
  <2> QED
      BY <2>2 DEF t
<1> QED
    BY <1>3, <1>4, <1>5

(* Unlinking the head of a list. *)
LEMMA TailFacts ==
    ASSUME NEW s \in Seq(Nat), s # <<>>, IsInjective(s)
    PROVE  /\ Tail(s) \in Seq(Nat)
           /\ Head(s) \in Range(s)
           /\ Head(s) \in Nat
           /\ Range(Tail(s)) = Range(s) \ {Head(s)}
           /\ IsInjective(Tail(s))
<1>1. DOMAIN s = 1 .. Len(s) /\ Len(s) \in Nat \ {0} /\ Head(s) = s[1] /\ s[1] \in Nat
    OBVIOUS
<1>2. /\ Tail(s) \in Seq(Nat) /\ Len(Tail(s)) = Len(s) - 1
      /\ \A j \in 1 .. (Len(s) - 1) : Tail(s)[j] = s[j + 1]
    BY <1>1
<1>3. 1 \in 1 .. Len(s) /\ \A j \in 1 .. (Len(s) - 1) : ~(j < 1)
    BY <1>1
<1>4. Range(Tail(s)) = Range(s) \ {s[1]} /\ IsInjective(Tail(s))
    BY <1>2, <1>3, DeleteFacts
<1>5. s[1] \in Range(s)
    BY <1>1, <1>3 DEF Range
<1> QED
    BY <1>1, <1>2, <1>4, <1>5

(***************************************************************************)
(* A set of numbers that is not empty has a least one.  A fact about all   *)
(* numbers is proved by looking at the least counterexample.               *)
(***************************************************************************)
LEMMA LeastElement ==
    ASSUME NEW T \in SUBSET Nat, T # {}
    PROVE  \E m \in T : \A k \in T : m <= k
<1> DEFINE R == OpToRel(<, Nat)
<1>1. IsWellFoundedOn(R, Nat)
    BY NatLessThanWellFounded
<1>2. \A x, y \in Nat : y < x => <<y, x>> \in R
    BY DEF OpToRel
<1> HIDE DEF R
<1>3. PICK x \in T : \A y \in T : ~(<<y, x>> \in R)
    BY <1>1, WFMin
<1>4. \A y \in T : ~(y < x)
    BY <1>2, <1>3
<1>5. \A y \in T : x <= y
    BY <1>4
<1> QED
    BY <1>5

-----------------------------------------------------------------------------
(***************************************************************************)
(* Linked structures.  N is the set of nodes, z the null pointer, n the    *)
(* pointers, h the head and l the length to which pointers are followed.   *)
(***************************************************************************)

Along(g, h, n, z, l) ==
    /\ g[0] = h
    /\ \A i \in 1 .. l : g[i] = IF g[i - 1] = z THEN z ELSE n[g[i - 1]]

(* g[i] is the node i pointers behind the head, z past the end. *)
Follows(g, h, n, N, z, l) == g \in [0 .. l -> N \cup {z}] /\ Along(g, h, n, z, l)

(* The same as the equation of a recursive function. *)
WalkBody(w, h, n, z, l) ==
    [i \in 0 .. l |-> IF i = 0 THEN h ELSE IF w[i - 1] = z THEN z ELSE n[w[i - 1]]]

(* The walk ends, after k nodes, and meets no node twice. *)
Stops(g, z, l) == g[l] = z
EndsAfter(g, k, z, l) == \A i \in 0 .. l : g[i] = z <=> i >= k
Once(g, z, l) == \A i, j \in 0 .. l : i # j /\ g[i] = g[j] => g[i] = z
Met(g, z, l) == {g[i] : i \in 0 .. l} \ {z}

(* The pointers n and n2 agree on what g meets. *)
Agree(g, n, n2, z, l) == \A i \in 0 .. l : g[i] # z => n2[g[i]] = n[g[i]]

(* Pointers can be followed to any length. *)
LEMMA FollowsExists ==
    ASSUME NEW N, NEW z, NEW h \in N \cup {z}, NEW n \in [N -> N \cup {z}], NEW l \in Nat
    PROVE  \E g : Follows(g, h, n, N, z, l)
<1> DEFINE T == {m \in Nat : ~\E g : Follows(g, h, n, N, z, m)}
           L == N \cup {z}
<1> SUFFICES ASSUME T # {} PROVE FALSE
    OBVIOUS
<1>1. PICK m \in T : \A k \in T : m <= k
  <2>1. T \in SUBSET Nat
      OBVIOUS
  <2> HIDE DEF T
  <2> QED
      BY <2>1, LeastElement
<1>2. CASE m = 0
  <2> DEFINE g == [i \in 0 .. 0 |-> h]
  <2>1. Follows(g, h, n, N, z, 0)
      BY DEF Follows, Along
  <2> QED
      BY <1>1, <1>2, <2>1
<1>3. CASE m # 0
  <2>1. m - 1 \in Nat /\ m - 1 \notin T /\ m \in Nat
      BY <1>1, <1>3
  <2>2. PICK g : Follows(g, h, n, N, z, m - 1)
      BY <2>1
  <2> DEFINE v == IF g[m - 1] = z THEN z ELSE n[g[m - 1]]
             g2 == [i \in 0 .. m |-> IF i = m THEN v ELSE g[i]]
  <2>3. v \in L
      BY <2>1, <2>2 DEF Follows, Along
  <2>4. \A i \in 0 .. m : i # m => i \in 0 .. (m - 1) /\ g[i] \in L
      BY <2>1, <2>2 DEF Follows, Along
  <2>5. g2 \in [0 .. m -> L] /\ g2[0] = h
      BY <2>1, <2>2, <2>3, <2>4, <1>3 DEF Follows, Along
  <2>6. ASSUME NEW i \in 1 .. m PROVE g2[i] = IF g2[i - 1] = z THEN z ELSE n[g2[i - 1]]
    <3>1. i \in 0 .. m /\ i - 1 \in 0 .. m /\ i - 1 # m
        BY <2>1
    <3>2. g2[i - 1] = g[i - 1] /\ g2[i] = IF i = m THEN v ELSE g[i]
        BY <3>1
    <3>3. CASE i = m
        BY <3>2, <3>3
    <3>4. CASE i # m
      <4>1. i \in 1 .. (m - 1)
          BY <3>4, <2>1
      <4> QED
          BY <4>1, <3>2, <3>4, <2>2 DEF Follows, Along
    <3> QED
        BY <3>3, <3>4
  <2>7. Follows(g2, h, n, N, z, m)
      BY <2>5, <2>6 DEF Follows, Along
  <2> QED
      BY <1>1, <2>7
<1> QED
    BY <1>2, <1>3

(* Two walks from the same head that meet equal pointers are equal. *)
LEMMA FollowsSame ==
    ASSUME NEW N, NEW z, NEW l \in Nat, NEW h, NEW n, NEW n2, NEW g, NEW w,
           Follows(g, h, n, N, z, l), Along(w, h, n2, z, l), Agree(g, n, n2, z, l)
    PROVE  \A i \in 0 .. l : w[i] = g[i]
<1> DEFINE T == {i \in 0 .. l : w[i] # g[i]}
<1> SUFFICES ASSUME T # {} PROVE FALSE
    OBVIOUS
<1>1. PICK m \in T : \A k \in T : m <= k
  <2>1. T \in SUBSET Nat
      OBVIOUS
  <2> HIDE DEF T
  <2> QED
      BY <2>1, LeastElement
<1>2. m # 0
    BY <1>1 DEF Follows, Along
<1>3. m \in 1 .. l /\ m - 1 \in 0 .. l /\ m - 1 \notin T
    BY <1>1, <1>2
<1>4. w[m - 1] = g[m - 1]
    BY <1>3
<1>5. w[m] = g[m]
    BY <1>3, <1>4 DEF Follows, Along, Agree
<1> QED
    BY <1>1, <1>5

(* A walk that agrees with another one on its nodes is the same walk. *)
LEMMA SameWalk ==
    ASSUME NEW N, NEW z, NEW l \in Nat, NEW h, NEW n, NEW n2, NEW g, NEW w,
           Follows(g, h, n, N, z, l), Follows(w, h, n2, N, z, l), \A p \in Met(g, z, l) : n2[p] = n[p]
    PROVE  w = g
<1>1. Agree(g, n, n2, z, l)
    BY DEF Agree, Met
<1>2. Along(w, h, n2, z, l)
    BY DEF Follows
<1>3. \A i \in 0 .. l : w[i] = g[i]
    BY <1>1, <1>2, FollowsSame
<1>4. w \in [0 .. l -> N \cup {z}] /\ g \in [0 .. l -> N \cup {z}]
    BY DEF Follows
<1> DEFINE D == 0 .. l
<1>5. w = [i \in D |-> w[i]] /\ g = [i \in D |-> g[i]] /\ \A i \in D : w[i] = g[i]
    BY <1>3, <1>4
<1> HIDE DEF D
<1> QED
    BY <1>5

(* w is the walk, when it takes the same steps. *)
LEMMA IsWalk ==
    ASSUME NEW N, NEW z, NEW l \in Nat, NEW h, NEW n, NEW g, NEW w,
           Follows(g, h, n, N, z, l), Along(w, h, n, z, l)
    PROVE  \A i \in 0 .. l : w[i] = g[i]
<1>1. Agree(g, n, n, z, l)
    BY DEF Agree
<1> QED
    BY <1>1, FollowsSame

(* The recursive function is the walk. *)
LEMMA WalkFollows ==
    ASSUME NEW N, NEW z, NEW h \in N \cup {z}, NEW n \in [N -> N \cup {z}], NEW l \in Nat,
           NEW v, v = CHOOSE w : w = WalkBody(w, h, n, z, l)
    PROVE  Follows(v, h, n, N, z, l)
<1>1. PICK g : Follows(g, h, n, N, z, l)
    BY FollowsExists
<1>2. g = WalkBody(g, h, n, z, l)
  <2>1. \A i \in 0 .. l : i # 0 => i \in 1 .. l
      OBVIOUS
  <2>2. \A i \in 0 .. l : g[i] = WalkBody(g, h, n, z, l)[i]
      BY <1>1, <2>1 DEF Follows, Along, WalkBody
  <2> QED
      BY <1>1, <2>2 DEF Follows, Along, WalkBody
<1>3. v = WalkBody(v, h, n, z, l)
  <2> DEFINE P(w) == w = WalkBody(w, h, n, z, l)
  <2>1. v = CHOOSE w : P(w)
      OBVIOUS
  <2>2. P(g)
      BY <1>2
  <2> HIDE DEF P
  <2>3. P(v)
      BY <2>1, <2>2
  <2> QED
      BY <2>3 DEF P
<1> DEFINE D == 0 .. l
<1>4. /\ v = [i \in D |-> v[i]] /\ v[0] = h
      /\ \A i \in 1 .. l : v[i] = IF v[i - 1] = z THEN z ELSE n[v[i - 1]]
  <2> DEFINE e == WalkBody(v, h, n, z, l)
  <2>1. e = [i \in D |-> e[i]]
      BY DEF WalkBody
  <2>2. e[0] = h /\ \A i \in 1 .. l : e[i] = IF v[i - 1] = z THEN z ELSE n[v[i - 1]]
      BY DEF WalkBody
  <2> HIDE DEF e
  <2>3. v = e
      BY <1>3 DEF e
  <2> QED
      BY <2>1, <2>2, <2>3
<1>5. \A i \in D : v[i] = g[i]
  <2>1. Along(v, h, n, z, l)
      BY <1>4 DEF Along
  <2> QED
      BY <1>1, <2>1, IsWalk
<1>6. v = g
    BY <1>1, <1>4, <1>5 DEF Follows, Along
<1> QED
    BY <1>1, <1>6

LEMMA NullStays ==
    ASSUME NEW N, NEW z, NEW l \in Nat, NEW h, NEW n, NEW g, Follows(g, h, n, N, z, l),
           NEW i \in 0 .. l, g[i] = z
    PROVE  \A j \in 0 .. l : i <= j => g[j] = z
<1> DEFINE T == {j \in 0 .. l : i <= j /\ g[j] # z}
<1> SUFFICES ASSUME T # {} PROVE FALSE
    OBVIOUS
<1>1. PICK m \in T : \A k \in T : m <= k
  <2>1. T \in SUBSET Nat
      OBVIOUS
  <2> HIDE DEF T
  <2> QED
      BY <2>1, LeastElement
<1>2. m # i
    BY <1>1
<1>3. m \in 1 .. l /\ m - 1 \in 0 .. l /\ i <= m - 1 /\ m - 1 \notin T
    BY <1>1, <1>2
<1>4. g[m - 1] = z
    BY <1>3
<1>5. g[m] = z
    BY <1>3, <1>4 DEF Follows, Along
<1> QED
    BY <1>1, <1>5

(* The head is unlinked. *)
LEMMA PopWalk ==
    ASSUME NEW N, NEW z, z \notin N, NEW l \in Nat \ {0}, NEW h \in N, NEW n, NEW g, NEW w,
           Follows(g, h, n, N, z, l), Follows(w, n[h], n, N, z, l), Stops(g, z, l), Once(g, z, l)
    PROVE  /\ Stops(w, z, l) /\ Once(w, z, l) /\ Met(w, z, l) = Met(g, z, l) \ {h} /\ h \in Met(g, z, l)
           /\ \A i \in 0 .. l : w[i] = IF i = l THEN z ELSE g[i + 1]
<1> DEFINE v == [i \in 0 .. l |-> IF i = l THEN z ELSE g[i + 1]]
<1>0. l \in Nat /\ l >= 1 /\ h # z
    OBVIOUS
<1>1. ASSUME NEW i \in 1 .. l PROVE v[i] = IF v[i - 1] = z THEN z ELSE n[v[i - 1]]
  <2>1. i \in 0 .. l /\ i - 1 \in 0 .. l /\ i - 1 # l /\ (i - 1) + 1 = i
      BY <1>0
  <2>2. v[i - 1] = g[i]
      BY <2>1
  <2>3. CASE i = l
      BY <2>1, <2>2, <2>3 DEF Stops
  <2>4. CASE i # l
    <3>1. i + 1 \in 1 .. l /\ (i + 1) - 1 = i
        BY <2>4, <1>0
    <3>2. v[i] = g[i + 1]
        BY <2>1, <2>4
    <3>3. g[i + 1] = IF g[(i + 1) - 1] = z THEN z ELSE n[g[(i + 1) - 1]]
        BY <3>1 DEF Follows, Along
    <3> QED
        BY <3>1, <3>2, <3>3, <2>2
  <2> QED
      BY <2>3, <2>4
<1>2. v[0] = n[h]
  <2>1. v[0] = g[1] /\ 1 \in 1 .. l /\ 1 - 1 = 0
      BY <1>0
  <2>2. g[0] = h /\ g[1] = (IF g[1 - 1] = z THEN z ELSE n[g[1 - 1]])
      BY <2>1 DEF Follows, Along
  <2>3. g[1 - 1] = h
      BY <2>1, <2>2
  <2> QED
      BY <2>1, <2>2, <2>3, <1>0
<1>3. \A i \in 0 .. l : v[i] = w[i]
  <2> HIDE DEF v
  <2>1. Along(v, n[h], n, z, l)
      BY <1>1, <1>2 DEF Along
  <2> QED
      BY <2>1, IsWalk
<1>4. \A i \in 0 .. l : w[i] = IF i = l THEN z ELSE g[i + 1]
    BY <1>3
<1> HIDE DEF v
<1>5. Stops(w, z, l)
    BY <1>0, <1>4 DEF Stops
<1>6. Once(w, z, l)
  <2> SUFFICES ASSUME NEW i \in 0 .. l, NEW j \in 0 .. l, i # j, w[i] = w[j]
               PROVE  w[i] = z
      BY DEF Once
  <2>1. CASE i = l \/ j = l
      BY <2>1, <1>4
  <2>2. CASE i # l /\ j # l
    <3>1. i + 1 \in 0 .. l /\ j + 1 \in 0 .. l /\ i + 1 # j + 1
        BY <2>2, <1>0
    <3> QED
        BY <3>1, <2>2, <1>4 DEF Once
  <2> QED
      BY <2>1, <2>2
<1>7. g[0] = h /\ 0 \in 0 .. l
    BY <1>0 DEF Follows, Along
<1>8. ASSUME NEW p \in Met(w, z, l) PROVE p \in Met(g, z, l) \ {h}
  <2>1. PICK i \in 0 .. l : p = w[i] /\ p # z
      BY DEF Met
  <2>2. i # l /\ i + 1 \in 0 .. l /\ i + 1 # 0 /\ p = g[i + 1]
      BY <2>1, <1>0, <1>4
  <2>3. p # h
      BY <2>1, <2>2, <1>7 DEF Once
  <2> QED
      BY <2>1, <2>2, <2>3 DEF Met
<1>9. ASSUME NEW p \in Met(g, z, l) \ {h} PROVE p \in Met(w, z, l)
  <2>1. PICK i \in 0 .. l : p = g[i] /\ p # z
      BY DEF Met
  <2>2. i # 0
      BY <2>1, <1>7
  <2>3. i - 1 \in 0 .. l /\ i - 1 # l /\ (i - 1) + 1 = i
      BY <2>2, <1>0
  <2>4. w[i - 1] = p
      BY <2>1, <2>3, <1>4
  <2> QED
      BY <2>1, <2>3, <2>4 DEF Met
<1> QED
    BY <1>0, <1>4, <1>5, <1>6, <1>7, <1>8, <1>9 DEF Met

(* The walk is shorter than there are nodes as long as it does not meet one. *)
LEMMA RoomForOne ==
    ASSUME NEW N, NEW z, z \notin N, NEW l \in Nat \ {0}, IsFiniteSet(N), Cardinality(N) = l,
           NEW h, NEW n, NEW g, Follows(g, h, n, N, z, l), Stops(g, z, l), Once(g, z, l),
           NEW p \in N, p \notin Met(g, z, l)
    PROVE  g[l - 1] = z
<1> SUFFICES ASSUME g[l - 1] # z PROVE FALSE
    OBVIOUS
<1> DEFINE S == 0 .. (l - 1)
           Q == N \ {p}
<1>0. l \in Nat /\ l >= 1 /\ l - 1 \in 0 .. l
    OBVIOUS
<1>1. ASSUME NEW i \in S PROVE i \in 0 .. l /\ g[i] # z /\ g[i] \in Q
  <2>1. i \in 0 .. l /\ i <= l - 1
      BY <1>0
  <2>2. g[i] # z
      BY <1>0, <2>1, NullStays
  <2>3. g[i] \in N
      BY <2>1, <2>2 DEF Follows
  <2> QED
      BY <2>1, <2>2, <2>3 DEF Met
<1> DEFINE f == [i \in S |-> g[i]]
<1>2. f \in [S -> Q]
    BY <1>1
<1>3. \A i, j \in S : i # j => f[i] # f[j]
    BY <1>1 DEF Once
<1>4. IsFiniteSet(S) /\ Cardinality(S) = l
  <2>1. 0 \in Int /\ l - 1 \in Int
      BY <1>0
  <2>2. /\ IsFiniteSet(0 .. (l - 1))
        /\ Cardinality(0 .. (l - 1)) = IF 0 > l - 1 THEN 0 ELSE (l - 1) - 0 + 1
      BY <2>1, FS_Interval
  <2> QED
      BY <1>0, <2>2
<1>5. IsFiniteSet(Q) /\ Cardinality(Q) = l - 1
    BY FS_RemoveElement
<1> HIDE DEF S, Q, f
<1>6. Cardinality(Q) < Cardinality(S)
    BY <1>0, <1>4, <1>5
<1>7. \E i, j \in S : i # j /\ f[i] = f[j]
    BY <1>2, <1>4, <1>5, <1>6, FS_PigeonHole
<1> QED
    BY <1>3, <1>7

(* p becomes the head. *)
LEMMA PushWalk ==
    ASSUME NEW N, NEW z, z \notin N, NEW l \in Nat \ {0}, IsFiniteSet(N), Cardinality(N) = l,
           NEW h, NEW n, NEW g, NEW w, NEW p \in N, n[p] = h,
           Follows(g, h, n, N, z, l), Follows(w, p, n, N, z, l),
           Stops(g, z, l), Once(g, z, l), p \notin Met(g, z, l)
    PROVE  /\ Stops(w, z, l) /\ Once(w, z, l) /\ Met(w, z, l) = Met(g, z, l) \cup {p}
           /\ \A i \in 0 .. l : w[i] = IF i = 0 THEN p ELSE g[i - 1]
<1> DEFINE v == [i \in 0 .. l |-> IF i = 0 THEN p ELSE g[i - 1]]
<1>0. l \in Nat /\ l >= 1 /\ p # z
    OBVIOUS
<1>1. ASSUME NEW i \in 1 .. l PROVE v[i] = IF v[i - 1] = z THEN z ELSE n[v[i - 1]]
  <2>1. i \in 0 .. l /\ i # 0 /\ i - 1 \in 0 .. l /\ v[i] = g[i - 1]
      BY <1>0
  <2>2. CASE i = 1
    <3>1. v[i - 1] = p /\ v[i] = g[0]
        BY <2>1, <2>2
    <3> QED
        BY <3>1, <1>0 DEF Follows, Along
  <2>3. CASE i # 1
    <3>1. i - 1 \in 1 .. l /\ i - 1 # 0
        BY <2>3, <1>0
    <3>2. v[i - 1] = g[(i - 1) - 1]
        BY <2>1, <3>1
    <3> QED
        BY <3>1, <3>2, <2>1 DEF Follows, Along
  <2> QED
      BY <2>2, <2>3
<1>2. v[0] = p
    BY <1>0
<1>3. \A i \in 0 .. l : v[i] = w[i]
  <2> HIDE DEF v
  <2>1. Along(v, p, n, z, l)
      BY <1>1, <1>2 DEF Along
  <2> QED
      BY <2>1, IsWalk
<1>4. \A i \in 0 .. l : w[i] = IF i = 0 THEN p ELSE g[i - 1]
    BY <1>3
<1> HIDE DEF v
<1>5. Stops(w, z, l)
  <2>1. g[l - 1] = z
      BY RoomForOne
  <2> QED
      BY <2>1, <1>0, <1>4 DEF Stops
<1>6. \A i \in 0 .. l : g[i] # p
    BY <1>0 DEF Met
<1>7. Once(w, z, l)
  <2> SUFFICES ASSUME NEW i \in 0 .. l, NEW j \in 0 .. l, i # j, w[i] = w[j]
               PROVE  w[i] = z
      BY DEF Once
  <2>1. \A k \in 0 .. l : k # 0 => k - 1 \in 0 .. l
      BY <1>0
  <2>2. CASE i = 0 \/ j = 0
      BY <2>1, <2>2, <1>4, <1>6
  <2>3. CASE i # 0 /\ j # 0
    <3>1. i - 1 # j - 1
        BY <2>3
    <3> QED
        BY <3>1, <2>1, <2>3, <1>4 DEF Once
  <2> QED
      BY <2>2, <2>3
<1>8. ASSUME NEW q \in Met(w, z, l) PROVE q \in Met(g, z, l) \cup {p}
  <2>1. PICK i \in 0 .. l : q = w[i] /\ q # z
      BY DEF Met
  <2>2. i = 0 \/ i - 1 \in 0 .. l
      BY <1>0
  <2> QED
      BY <2>1, <2>2, <1>4 DEF Met
<1>9. ASSUME NEW q \in Met(g, z, l) PROVE q \in Met(w, z, l)
  <2>1. PICK i \in 0 .. l : q = g[i] /\ q # z
      BY DEF Met
  <2>2. i # l
      BY <2>1 DEF Stops
  <2>3. i + 1 \in 0 .. l /\ i + 1 # 0 /\ (i + 1) - 1 = i
      BY <2>2, <1>0
  <2>4. w[i + 1] = q
      BY <2>1, <2>3, <1>4
  <2> QED
      BY <2>1, <2>3, <2>4 DEF Met
<1>10. p \in Met(w, z, l)
  <2>1. 0 \in 0 .. l /\ w[0] = p
      BY <1>0, <1>4
  <2> QED
      BY <2>1, <1>0 DEF Met
<1> QED
    BY <1>4, <1>5, <1>7, <1>8, <1>9, <1>10

(* The node at place i > 0 is unlinked: its predecessor points past it. *)
LEMMA SkipWalk ==
    ASSUME NEW N, NEW z, z \notin N, NEW l \in Nat \ {0}, NEW h, NEW n, NEW n2, NEW g, NEW w,
           Follows(g, h, n, N, z, l), Follows(w, h, n2, N, z, l), Stops(g, z, l), Once(g, z, l),
           NEW i \in 1 .. l, g[i] # z,
           \A p \in Met(g, z, l) : n2[p] = IF p = g[i - 1] THEN n[g[i]] ELSE n[p]
    PROVE  Stops(w, z, l) /\ Once(w, z, l) /\ Met(w, z, l) = Met(g, z, l) \ {g[i]}
<1> DEFINE v == [j \in 0 .. l |-> IF j < i THEN g[j] ELSE IF j = l THEN z ELSE g[j + 1]]
<1>0. /\ l \in Nat /\ l >= 1 /\ i \in Nat /\ i >= 1 /\ i < l /\ i - 1 \in 0 .. l /\ i \in 0 .. l
      /\ g[i - 1] # z
  <2>1. i # l
      BY DEF Stops
  <2>2. i \in 0 .. l /\ i - 1 \in 0 .. l /\ i - 1 <= i
      OBVIOUS
  <2>3. g[i - 1] # z
      BY <2>2, NullStays
  <2> QED
      BY <2>1, <2>2, <2>3
<1>1. ASSUME NEW j \in 1 .. l PROVE v[j] = IF v[j - 1] = z THEN z ELSE n2[v[j - 1]]
  <2>1. j \in 0 .. l /\ j - 1 \in 0 .. l /\ j - 1 # l /\ (j - 1) + 1 = j
      BY <1>0
  <2>2. \A k \in 1 .. l : g[k] = IF g[k - 1] = z THEN z ELSE n[g[k - 1]]
      BY DEF Follows, Along
  <2>3. \A k \in 0 .. l : g[k] # z => g[k] \in Met(g, z, l)
      BY DEF Met
  <2>4. CASE j < i
    <3>1. v[j] = g[j] /\ v[j - 1] = g[j - 1] /\ j - 1 # i - 1
        BY <2>1, <2>4, <1>0
    <3>2. g[j - 1] # z => g[j - 1] # g[i - 1]
        BY <2>1, <3>1, <1>0 DEF Once
    <3>3. g[j - 1] # z => n2[g[j - 1]] = n[g[j - 1]]
        BY <2>1, <2>3, <3>2
    <3> QED
        BY <2>2, <3>1, <3>3
  <2>5. CASE j = i
    <3>1. v[j - 1] = g[i - 1] /\ v[j] = g[i + 1] /\ i + 1 \in 1 .. l /\ (i + 1) - 1 = i
        BY <2>1, <2>5, <1>0
    <3>2. n2[g[i - 1]] = n[g[i]]
        BY <2>3, <1>0
    <3>3. g[i + 1] = n[g[i]]
        BY <2>2, <3>1, <1>0
    <3> QED
        BY <3>1, <3>2, <3>3, <1>0
  <2>6. CASE j > i
    <3>1. v[j - 1] = g[j] /\ j # i - 1
        BY <2>1, <2>6, <1>0
    <3>2. g[j] # z => n2[g[j]] = n[g[j]]
      <4>1. g[j] # z => g[j] # g[i - 1]
          BY <2>1, <3>1, <1>0 DEF Once
      <4> QED
          BY <2>1, <2>3, <4>1
    <3>3. CASE j = l
      <4>1. v[j] = z /\ g[j] = z
          BY <2>1, <2>6, <3>3, <1>0 DEF Stops
      <4> QED
          BY <3>1, <4>1
    <3>4. CASE j # l
      <4>1. v[j] = g[j + 1] /\ j + 1 \in 1 .. l /\ (j + 1) - 1 = j
          BY <2>1, <2>6, <3>4, <1>0
      <4>2. g[j + 1] = IF g[(j + 1) - 1] = z THEN z ELSE n[g[(j + 1) - 1]]
          BY <2>2, <4>1
      <4> QED
          BY <3>1, <3>2, <4>1, <4>2
    <3> QED
        BY <3>3, <3>4
  <2> QED
      BY <1>0, <2>4, <2>5, <2>6
<1>2. v[0] = h
  <2>1. v[0] = g[0]
      BY <1>0
  <2> QED
      BY <2>1 DEF Follows, Along
<1>3. \A j \in 0 .. l : v[j] = w[j]
  <2> HIDE DEF v
  <2>1. Along(v, h, n2, z, l)
      BY <1>1, <1>2 DEF Along
  <2> QED
      BY <2>1, IsWalk
<1>4. \A j \in 0 .. l : w[j] = IF j < i THEN g[j] ELSE IF j = l THEN z ELSE g[j + 1]
    BY <1>3
<1> HIDE DEF v
<1>5. Stops(w, z, l)
    BY <1>0, <1>4 DEF Stops
<1> DEFINE From(j) == IF j < i THEN j ELSE IF j = l THEN l ELSE j + 1
<1>6. \A j \in 0 .. l : From(j) \in 0 .. l /\ From(j) # i /\ w[j] = g[From(j)]
    BY <1>0, <1>4 DEF Stops
<1>7. \A j, k \in 0 .. l : j # k /\ From(j) = From(k) => From(j) = l
    BY <1>0
<1>8. \A k \in 0 .. l : k # i => \E j \in 0 .. l : From(j) = k
  <2> SUFFICES ASSUME NEW k \in 0 .. l, k # i PROVE \E j \in 0 .. l : From(j) = k
      OBVIOUS
  <2>1. CASE k < i
      BY <2>1, <1>0
  <2>2. CASE k > i
    <3>1. k - 1 \in 0 .. l /\ From(k - 1) = k
        BY <2>2, <1>0
    <3> QED
        BY <3>1
  <2> QED
      BY <1>0, <2>1, <2>2
<1> HIDE DEF From
<1>9. Once(w, z, l)
  <2> SUFFICES ASSUME NEW j \in 0 .. l, NEW k \in 0 .. l, j # k, w[j] = w[k]
               PROVE  w[j] = z
      BY DEF Once
  <2>1. CASE From(j) = From(k)
      BY <2>1, <1>6, <1>7 DEF Stops
  <2>2. CASE From(j) # From(k)
      BY <2>2, <1>6 DEF Once
  <2> QED
      BY <2>1, <2>2
<1>10. ASSUME NEW p \in Met(w, z, l) PROVE p \in Met(g, z, l) \ {g[i]}
  <2>1. PICK j \in 0 .. l : p = w[j] /\ p # z
      BY DEF Met
  <2>2. p = g[From(j)] /\ From(j) \in 0 .. l /\ From(j) # i
      BY <2>1, <1>6
  <2>3. p # g[i]
      BY <2>1, <2>2, <1>0 DEF Once
  <2> QED
      BY <2>1, <2>2, <2>3 DEF Met
<1>11. ASSUME NEW p \in Met(g, z, l) \ {g[i]} PROVE p \in Met(w, z, l)
  <2>1. PICK k \in 0 .. l : p = g[k] /\ p # z
      BY DEF Met
  <2>2. PICK j \in 0 .. l : From(j) = k
      BY <2>1, <1>8
  <2>3. w[j] = p
      BY <2>1, <2>2, <1>6
  <2> QED
      BY <2>1, <2>3 DEF Met
<1> QED
    BY <1>5, <1>9, <1>10, <1>11

=============================================================================
