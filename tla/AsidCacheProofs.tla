--------------------------- MODULE AsidCacheProofs ---------------------------
(***************************************************************************)
(* Proofs about the ASID cache, with and without CONFIG_PREEMPT_ASIDS, for  *)
(* any number of spaces and ASIDs.                                          *)
(***************************************************************************)
EXTENDS AsidCache, FiniteSetTheorems, NaturalsInduction, TLAPS

Free(i) == owner[i] = 0

\* The free list stays inside the free entries.
FreeClosed == /\ first_free # Invalid => Free(first_free)
              /\ \A i \in Idx : Free(i) /\ link[i].next # Invalid => Free(link[i].next)

\* No free entry is reached from two places, so a popped entry is off the list.
FreeOnce == /\ \A i \in Idx : Free(i) /\ link[i].next # Invalid => link[i].next # first_free
            /\ \A i, j \in Idx : Free(i) /\ Free(j) /\ i # j /\ link[i].next # Invalid
                                   => link[i].next # link[j].next

\* Every free entry but the first is reached from another one.
FreeReached == \A i \in Idx : Free(i) /\ i # first_free =>
                 \E j \in Idx : Free(j) /\ link[j].next = i

\* The free list has no cycle: there is a rank that rises along its links.
Rises(rank) == \A i \in Idx : Free(i) /\ link[i].next # Invalid
                                => rank[i] < rank[link[i].next]
FreeRanked == \E rank \in [Idx -> Nat] : Rises(rank)

(***************************************************************************)
(* The ring of the entries U that are in use.  move_asid takes a ring of    *)
(* two for a ring of one and leaves an entry behind whose links point to    *)
(* the one that went away.  The two links of such a stale entry are equal,  *)
(* and an entry whose links differ has no stale neighbour.                  *)
(***************************************************************************)
LinkTables == [Idx -> [prev : Idx \cup {Invalid}, next : Idx \cup {Invalid}]]
Rings  == [link : LinkTables, head : Idx \cup {Invalid}]
InUse  == {i \in Idx : owner[i] \in Spaces}

Joined(l, U, i) == /\ l[i].prev \in U /\ l[i].next \in U
                   /\ l[l[i].prev].next = i /\ l[l[i].next].prev = i

RingOK(r, U) ==
  /\ \A i \in U : r.link[i].prev # r.link[i].next =>
        /\ Joined(r.link, U, i)
        /\ Joined(r.link, U, r.link[i].prev)
        /\ Joined(r.link, U, r.link[i].next)
  /\ r.head # Invalid =>
        /\ r.head \in U
        /\ Joined(r.link, U, r.head)
        /\ Joined(r.link, U, r.link[r.head].prev)

\* AsidExclusive is not inductive alone: allocate() trusts the free list, and the
\* free list shares its links with the ring.
IInv == /\ TypeOK /\ AsidExclusive
        /\ FreeClosed /\ FreeOnce /\ FreeReached /\ FreeRanked
        /\ PreemptAsids => RingOK(Links, InUse)

\* The two history operators yield histories.
LEMMA HistoryType ==
  ASSUME NEW h \in [Spaces -> SUBSET Spaces], NEW s \in Spaces
  PROVE  /\ Used(h, s) \in [Spaces -> SUBSET Spaces]
         /\ Dropped(h, s) \in [Spaces -> SUBSET Spaces]
BY DEF Used, Dropped

\* Unlinking an entry keeps the ring, and touches no link outside of it.
LEMMA UnlinkedOK ==
  ASSUME NEW r \in Rings, NEW U \in SUBSET Idx, RingOK(r, U), NEW i \in U
  PROVE  /\ Unlinked(r, i) \in Rings
         /\ RingOK(Unlinked(r, i), U \ {i})
         /\ \A j \in Idx \ U : Unlinked(r, i).link[j] = r.link[j]
<1> DEFINE l == r.link
           p == l[i].prev
           n == l[i].next
           m == Unlinked(r, i)
           V == U \ {i}
<1>0. Invalid \notin Idx
  BY AsidAssumption DEF Invalid, Idx
<1>1. l \in LinkTables /\ r.head \in Idx \cup {Invalid} /\ i \in Idx
  BY DEF Rings
<1>2. CASE p = n
  <2>1. m = [link |-> l, head |-> Invalid]
    BY <1>2 DEF Unlinked
  <2>2. \A j \in V : l[j].prev # l[j].next =>
          Joined(l, V, j) /\ Joined(l, V, l[j].prev) /\ Joined(l, V, l[j].next)
    <3> SUFFICES ASSUME NEW j \in V, l[j].prev # l[j].next
                 PROVE  Joined(l, V, j) /\ Joined(l, V, l[j].prev) /\ Joined(l, V, l[j].next)
      OBVIOUS
    <3>1. Joined(l, U, j) /\ Joined(l, U, l[j].prev) /\ Joined(l, U, l[j].next)
      BY DEF RingOK
    <3>2. l[j].prev # i /\ l[j].next # i
      BY <3>1, <1>2 DEF Joined
    <3>3. l[l[j].prev].prev # i
      <4> SUFFICES ASSUME l[l[j].prev].prev = i PROVE FALSE
        OBVIOUS
      <4>1. l[j].prev \in U /\ l[l[j].prev].next = j /\ l[i].next = l[j].prev
        BY <3>1 DEF Joined
      <4>2. Joined(l, U, i)
        BY <4>1 DEF RingOK
      <4> QED BY <4>1, <4>2, <1>2 DEF Joined
    <3>4. l[l[j].next].next # i
      <4> SUFFICES ASSUME l[l[j].next].next = i PROVE FALSE
        OBVIOUS
      <4>1. l[j].next \in U /\ l[l[j].next].prev = j /\ l[i].prev = l[j].next
        BY <3>1 DEF Joined
      <4>2. Joined(l, U, i)
        BY <4>1 DEF RingOK
      <4> QED BY <4>1, <4>2, <1>2 DEF Joined
    <3> QED BY <3>1, <3>2, <3>3, <3>4 DEF Joined
  <2> QED BY <2>1, <2>2, <1>1 DEF Rings, RingOK
<1>3. CASE p # n
  <2> DEFINE w == [[l EXCEPT ![p].next = n] EXCEPT ![n].prev = p]
             h == IF r.head = i THEN n ELSE r.head
  <2>1. m = [link |-> w, head |-> h]
    BY <1>3 DEF Unlinked
  <2>2. Joined(l, U, i) /\ Joined(l, U, p) /\ Joined(l, U, n)
    BY <1>3 DEF RingOK
  <2>3. p \in V /\ n \in V /\ p \in Idx /\ n \in Idx /\ l[p].next = i /\ l[n].prev = i
    BY <2>2, <1>3 DEF Joined
  <2>4. w \in LinkTables
    BY <2>3, <1>1 DEF LinkTables
  <2>5. \A j \in Idx : /\ w[j].next = IF j = p THEN n ELSE l[j].next
                       /\ w[j].prev = IF j = n THEN p ELSE l[j].prev
    BY <2>3, <1>1, <1>3 DEF LinkTables
  <2>6. \A j \in Idx \ U : w[j] = l[j]
    BY <2>3, <1>1 DEF LinkTables
  <2> HIDE DEF w
  <2>7. \A j \in V : Joined(l, U, j) => Joined(w, V, j)
    BY <2>2, <2>3, <2>5, <1>3 DEF Joined
  <2>8. \A j \in V : w[j].prev # w[j].next =>
          Joined(w, V, j) /\ Joined(w, V, w[j].prev) /\ Joined(w, V, w[j].next)
    <3> SUFFICES ASSUME NEW j \in V, w[j].prev # w[j].next
                 PROVE  Joined(w, V, j) /\ Joined(w, V, w[j].prev) /\ Joined(w, V, w[j].next)
      OBVIOUS
    <3>1. CASE j = p
      <4>1. w[j].prev = l[p].prev /\ w[j].next = n
        BY <3>1, <2>3, <2>5, <1>3
      <4>2. l[p].prev # i
        BY <2>2, <2>3, <1>3 DEF Joined
      <4>3. Joined(l, U, l[p].prev) /\ l[p].prev \in V
        BY <4>2, <2>2, <2>3 DEF RingOK, Joined
      <4> QED BY <3>1, <4>1, <4>3, <2>2, <2>3, <2>7
    <3>2. CASE j = n
      <4>1. w[j].next = l[n].next /\ w[j].prev = p
        BY <3>2, <2>3, <2>5, <1>3
      <4>2. l[n].next # i
        BY <2>2, <2>3, <1>3 DEF Joined
      <4>3. Joined(l, U, l[n].next) /\ l[n].next \in V
        BY <4>2, <2>2, <2>3 DEF RingOK, Joined
      <4> QED BY <3>2, <4>1, <4>3, <2>2, <2>3, <2>7
    <3>3. CASE j # p /\ j # n
      <4>1. w[j].prev = l[j].prev /\ w[j].next = l[j].next
        BY <3>3, <2>5
      <4>2. Joined(l, U, j) /\ Joined(l, U, l[j].prev) /\ Joined(l, U, l[j].next)
        BY <4>1 DEF RingOK
      <4>3. l[j].prev \in V /\ l[j].next \in V
        BY <3>3, <4>2 DEF Joined
      <4> QED BY <4>1, <4>2, <4>3, <2>7
    <3> QED BY <3>1, <3>2, <3>3
  <2>9. h # Invalid => h \in V /\ Joined(w, V, h) /\ Joined(w, V, w[h].prev)
    <3>1. CASE r.head = i
      BY <3>1, <2>2, <2>3, <2>5, <2>7
    <3>2. CASE r.head # i /\ r.head # Invalid
      <4>1. r.head \in V /\ Joined(l, U, r.head) /\ Joined(l, U, l[r.head].prev)
        BY <3>2 DEF RingOK
      <4>2. CASE r.head = n
        BY <4>1, <4>2, <3>2, <2>2, <2>3, <2>5, <2>7
      <4>3. CASE r.head # n
        <5>1. l[r.head].prev # i
          BY <4>1, <4>3 DEF Joined
        <5>2. w[r.head].prev = l[r.head].prev /\ l[r.head].prev \in V
          BY <4>1, <4>3, <5>1, <2>5 DEF Joined
        <5> QED BY <3>2, <4>1, <5>2, <2>7
      <4> QED BY <4>2, <4>3
    <3> QED BY <3>1, <3>2
  <2>10. h \in Idx \cup {Invalid}
    BY <2>3, <1>1
  <2>11. m.link = w /\ m.head = h /\ m \in Rings
    BY <2>1, <2>4, <2>10 DEF Rings
  <2> HIDE DEF m, h, V
  <2>12. RingOK(m, V)
    BY <2>8, <2>9, <2>11 DEF RingOK
  <2> QED BY <2>6, <2>11, <2>12 DEF m, V
<1> QED BY <1>2, <1>3

\* Making an entry the head keeps the ring, and touches no other link outside of it.
LEMMA PushedOK ==
  ASSUME NEW r \in Rings, NEW U \in SUBSET Idx, RingOK(r, U), NEW i \in Idx \ U
  PROVE  /\ Pushed(r, i) \in Rings
         /\ RingOK(Pushed(r, i), U \cup {i})
         /\ \A j \in Idx \ (U \cup {i}) : Pushed(r, i).link[j] = r.link[j]
<1> DEFINE l == r.link
           V == U \cup {i}
           n == IF r.head # Invalid THEN r.head ELSE i
           p == IF r.head # Invalid THEN l[r.head].prev ELSE i
           w == [[[l EXCEPT ![n].prev = i] EXCEPT ![p].next = i]
                   EXCEPT ![i] = [prev |-> p, next |-> n]]
<1>1. l \in LinkTables /\ r.head \in Idx \cup {Invalid} /\ Invalid \notin Idx
  BY AsidAssumption DEF Rings, Invalid, Idx
<1>2. Pushed(r, i) = [link |-> w, head |-> i]
  BY DEF Pushed
<1>3. r.head # Invalid => /\ n \in U /\ p \in U /\ l[p].next = n /\ l[n].prev = p
                          /\ Joined(l, U, n) /\ Joined(l, U, p)
  BY DEF RingOK, Joined
<1>4. n \in V /\ p \in V /\ n \in Idx /\ p \in Idx /\ (n = i <=> p = i)
  BY <1>3
<1>5. w \in LinkTables
  BY <1>1, <1>4 DEF LinkTables
<1>6. \A j \in Idx : /\ w[j].next = IF j = i THEN n ELSE IF j = p THEN i ELSE l[j].next
                     /\ w[j].prev = IF j = i THEN p ELSE IF j = n THEN i ELSE l[j].prev
  BY <1>1, <1>4 DEF LinkTables
<1>7. \A j \in Idx \ V : w[j] = l[j]
  BY <1>1, <1>4 DEF LinkTables
<1> HIDE DEF w, n, p
<1>8. Joined(w, V, i) /\ Joined(w, V, p) /\ Joined(w, V, n)
  BY <1>3, <1>4, <1>6 DEF Joined, n, p
<1>9. ASSUME NEW j \in U, Joined(l, U, j)
      PROVE  Joined(w, V, j)
  <2>1. CASE j = n \/ j = p
    BY <2>1, <1>8
  <2>2. CASE j # n /\ j # p
    <3>1. l[j].prev \in U /\ l[j].next \in U /\ l[l[j].prev].next = j /\ l[l[j].next].prev = j
      BY <1>9 DEF Joined
    <3>2. l[j].prev # p /\ l[j].next # n
      BY <3>1, <2>2, <1>3, <1>4 DEF n, p
    <3>3. /\ w[j].prev = l[j].prev /\ w[l[j].prev].next = j
          /\ w[j].next = l[j].next /\ w[l[j].next].prev = j
      BY <3>1, <3>2, <2>2, <1>6
    <3> QED BY <3>1, <3>3 DEF Joined
  <2> QED BY <2>1, <2>2
<1>10. \A j \in V : w[j].prev # w[j].next =>
          Joined(w, V, j) /\ Joined(w, V, w[j].prev) /\ Joined(w, V, w[j].next)
  <2> SUFFICES ASSUME NEW j \in V, w[j].prev # w[j].next
               PROVE  Joined(w, V, j) /\ Joined(w, V, w[j].prev) /\ Joined(w, V, w[j].next)
    OBVIOUS
  <2>1. CASE j = i
    BY <2>1, <1>6, <1>8
  <2>2. CASE j # i /\ (j = n \/ j = p)
    <3>1. r.head # Invalid /\ j \in U /\ Joined(l, U, j)
      BY <2>2, <1>3 DEF n, p
    <3>2. /\ w[j].prev = IF j = n THEN i ELSE l[j].prev
          /\ w[j].next = IF j = p THEN i ELSE l[j].next
      BY <2>2, <1>6
    <3>3. /\ j = n /\ j # p => l[j].next \in U /\ Joined(l, U, l[j].next)
          /\ j = p /\ j # n => l[j].prev \in U /\ Joined(l, U, l[j].prev)
      BY <3>1, <1>3 DEF RingOK, Joined
    <3> QED BY <2>2, <3>1, <3>2, <3>3, <1>8, <1>9
  <2>3. CASE j # i /\ j # n /\ j # p
    <3>1. w[j].prev = l[j].prev /\ w[j].next = l[j].next
      BY <2>3, <1>6
    <3>2. /\ Joined(l, U, j) /\ Joined(l, U, l[j].prev) /\ Joined(l, U, l[j].next)
          /\ l[j].prev \in U /\ l[j].next \in U
      BY <2>3, <3>1 DEF RingOK, Joined
    <3> QED BY <2>3, <3>1, <3>2, <1>9
  <2> QED BY <2>1, <2>2, <2>3
<1>11. i \in V /\ Joined(w, V, i) /\ Joined(w, V, w[i].prev)
  BY <1>6, <1>8
<1> DEFINE m == Pushed(r, i)
<1>12. m.link = w /\ m.head = i /\ m \in Rings
  BY <1>2, <1>5 DEF Rings
<1> HIDE DEF m, V
<1>13. RingOK(m, V)
  BY <1>10, <1>11, <1>12 DEF RingOK
<1> QED BY <1>7, <1>12, <1>13 DEF m, V

\* The ring does not depend on the links of other entries.
LEMMA RingElsewhere ==
  ASSUME NEW r, NEW m, NEW U, RingOK(r, U), m.head = r.head,
         \A j \in U : m.link[j] = r.link[j]
  PROVE  RingOK(m, U)
<1>1. \A j \in U : Joined(r.link, U, j) => Joined(m.link, U, j)
  BY DEF Joined
<1>2. \A j \in U : Joined(r.link, U, j) => r.link[j].prev \in U /\ r.link[j].next \in U
  BY DEF Joined
<1> QED BY <1>1, <1>2 DEF RingOK

\* move_asid keeps the ring, if there is one, and the links of all other entries.
LEMMA MoveAsidOK ==
  ASSUME NEW r \in Rings, NEW U \in SUBSET Idx, PreemptAsids => RingOK(r, U),
         NEW i \in Idx, NEW remove \in BOOLEAN, NEW insert \in BOOLEAN, remove <=> i \in U
  PROVE  LET m == MoveAsid(r, i, remove, insert)
         IN /\ m \in Rings
            /\ PreemptAsids => RingOK(m, IF insert THEN U \cup {i} ELSE U \ {i})
            /\ \A j \in Idx \ (U \cup {i}) : m.link[j] = r.link[j]
            /\ ~PreemptAsids => m = r
<1> DEFINE u == IF remove THEN Unlinked(r, i) ELSE r
           m == MoveAsid(r, i, remove, insert)
<1>1. CASE ~PreemptAsids
  BY <1>1 DEF MoveAsid
<1>2. CASE PreemptAsids
  <2>1. u \in Rings /\ RingOK(u, U \ {i}) /\ \A j \in Idx \ U : u.link[j] = r.link[j]
    <3>1. CASE remove
      BY <3>1, <1>2, UnlinkedOK
    <3>2. CASE ~remove
      <4>1. U \ {i} = U
        BY <3>2
      <4> QED BY <3>2, <4>1, <1>2
    <3> QED BY <3>1, <3>2
  <2>2. m = IF insert THEN Pushed(u, i) ELSE u
    BY <1>2 DEF MoveAsid
  <2> HIDE DEF u, m
  <2>3. CASE insert
    <3> DEFINE W == U \ {i}
    <3>1. W \in SUBSET Idx /\ i \in Idx \ W /\ W \cup {i} = U \cup {i}
      OBVIOUS
    <3> HIDE DEF W
    <3>2. m = Pushed(u, i) /\ RingOK(u, W)
      BY <2>1, <2>2, <2>3 DEF W
    <3>3. /\ Pushed(u, i) \in Rings /\ RingOK(Pushed(u, i), W \cup {i})
          /\ \A j \in Idx \ (W \cup {i}) : Pushed(u, i).link[j] = u.link[j]
      BY <2>1, <3>1, <3>2, PushedOK
    <3>4. /\ m \in Rings /\ RingOK(m, U \cup {i})
          /\ \A j \in Idx \ (U \cup {i}) : m.link[j] = u.link[j]
      BY <3>1, <3>2, <3>3
    <3> QED BY <2>1, <2>3, <3>4, <1>2 DEF m
  <2>4. CASE ~insert
    BY <2>1, <2>2, <2>4, <1>2 DEF m
  <2> QED BY <2>3, <2>4
<1> QED BY <1>1, <1>2

\* Initially no ASID is valid and no space holds one.
LEMMA InitIInv == Init => IInv
<1> SUFFICES ASSUME Init PROVE IInv
  OBVIOUS
<1>1. TypeOK /\ AsidExclusive /\ FreeClosed /\ FreeOnce /\ FreeReached
  BY AsidAssumption DEF Init, TypeOK, AsidExclusive, FreeClosed, FreeOnce, FreeReached,
     Free, Idx, Invalid
<1>2. FreeRanked
  <2>1. [i \in Idx |-> 0] \in [Idx -> Nat]
    OBVIOUS
  <2> QED BY <2>1 DEF Init, FreeRanked, Rises, Free
<1>3. RingOK(Links, InUse)
  BY AsidAssumption DEF Init, RingOK, Links, InUse
<1> QED BY <1>1, <1>2, <1>3 DEF IInv

\* A non-empty set of naturals has a least element, which Least picks.
LEMMA LeastIsLeast ==
  ASSUME NEW S \in SUBSET Nat, S # {}
  PROVE  Least(S) \in S /\ \A k \in S : Least(S) <= k
<1>1. PICK j \in S : \A k \in S : ~(<<k, j>> \in OpToRel(<, Nat))
  BY NatLessThanWellFounded, WFMin
<1>2. \A k \in S : ~(k < j)
  BY <1>1 DEF OpToRel
<1>3. \A k \in S : j <= k
  BY <1>2
<1> QED BY <1>3 DEF Least

\* A non-empty set of entries has a greatest element.
LEMMA GreatestBelow ==
  ASSUME NEW S \in SUBSET Idx, S # {}
  PROVE  \E k \in S : \A z \in S : z <= k
<1> DEFINE T == {MaxNumAsids - z : z \in S}
<1>1. T \in SUBSET Nat /\ T # {}
  BY AsidAssumption DEF Idx
<1>2. PICK x \in T : \A y \in T : x <= y
  BY <1>1, LeastIsLeast
<1>3. PICK k \in S : x = MaxNumAsids - k
  OBVIOUS
<1>4. \A z \in S : MaxNumAsids - k <= MaxNumAsids - z
  BY <1>2, <1>3
<1>5. \A z \in S : z <= k
  BY <1>4, AsidAssumption DEF Idx
<1> QED BY <1>5

\* The next link of a fresh entry: the following fresh entry, or the old head.
LEMMA FreshNextSpec ==
  ASSUME IInv, NEW start \in Idx, NEW end \in Idx, NEW i \in Fresh(start, end)
  PROVE  LET fresh == Fresh(start, end)
             n == FreshNext(i, start, end)
         IN \/ n \in fresh /\ n > i /\ \A k \in fresh : k > i => n <= k
            \/ n = first_free /\ \A k \in fresh : ~(k > i)
<1> DEFINE fresh == Fresh(start, end)
           later == {j \in fresh : j > i}
<1>1. fresh \subseteq Nat
  BY AsidAssumption DEF Fresh, Idx
<1>2. CASE later = {}
  BY <1>2 DEF FreshNext
<1>3. CASE later # {}
  <2>1. Least(later) \in later /\ \A k \in later : Least(later) <= k
    <3>1. later \in SUBSET Nat BY <1>1
    <3> HIDE DEF later
    <3> QED BY <3>1, <1>3, LeastIsLeast
  <2> QED BY <2>1, <1>3 DEF FreshNext
<1> QED BY <1>2, <1>3

\* set_valid threads the fresh entries in front of the free list.
LEMMA SetValidIInv ==
  ASSUME IInv, NEW start \in Idx, NEW end \in Idx, SetValid(start, end)
  PROVE  IInv'
<1> DEFINE fresh == Fresh(start, end)
           succ(i) == FreshNext(i, start, end)
<1>0. TypeOK /\ AsidExclusive /\ FreeClosed /\ FreeOnce /\ FreeReached
  BY DEF IInv
<1>1. /\ fresh \subseteq Idx /\ fresh \subseteq Nat
      /\ \A i \in fresh : owner[i] = -1 /\ ~Free(i)
  BY AsidAssumption DEF Fresh, Idx, Free
<1>2. fresh # {} => Least(fresh) \in fresh /\ \A k \in fresh : Least(fresh) <= k
  BY <1>1, LeastIsLeast
<1>3. \A i \in fresh : \/ succ(i) \in fresh /\ succ(i) > i /\ \A k \in fresh : k > i => succ(i) <= k
                       \/ succ(i) = first_free /\ \A k \in fresh : ~(k > i)
  BY FreshNextSpec
<1>4. /\ first_free' = IF fresh = {} THEN first_free ELSE Least(fresh)
      /\ owner' = [i \in Idx |-> IF i \in fresh THEN 0 ELSE owner[i]]
      /\ link' = [i \in Idx |-> IF i \notin fresh THEN link[i]
                                ELSE [link[i] EXCEPT !.next = succ(i)]]
      /\ asid' = asid /\ lru_head' = lru_head /\ newer' = newer
  BY DEF SetValid
<1>a. \A i \in fresh : succ(i) \in Idx \cup {Invalid} /\ (succ(i) # Invalid => succ(i) \in Idx)
  BY <1>0, <1>1, <1>3 DEF TypeOK
<1>b. Invalid \notin Nat
  BY DEF Invalid
<1> HIDE DEF fresh, succ
<1>5. TypeOK'
  BY <1>0, <1>1, <1>2, <1>3, <1>4 DEF TypeOK
<1>6. AsidExclusive'
  BY <1>0, <1>1, <1>4, AsidAssumption DEF TypeOK, AsidExclusive
<1>7. \A i \in Idx : /\ Free(i)' <=> Free(i) \/ i \in fresh
                     /\ owner'[i] = 0 <=> Free(i) \/ i \in fresh
                     /\ link'[i].next = IF i \in fresh THEN succ(i) ELSE link[i].next
  BY <1>0, <1>1, <1>4 DEF Free, TypeOK
<1>8. first_free # Invalid => first_free \in Idx /\ Free(first_free) /\ first_free \notin fresh
  BY <1>0, <1>1 DEF TypeOK, FreeClosed
<1>9. FreeClosed'
  <2>1. (first_free # Invalid => Free(first_free))'
    BY <1>0, <1>1, <1>2, <1>4, <1>7, <1>8
  <2>2. ASSUME NEW i \in Idx, Free(i)', link'[i].next # Invalid
        PROVE  owner'[link'[i].next] = 0
    <3>1. CASE i \in fresh
      <4>1. link'[i].next = succ(i) /\ succ(i) \in Idx
        BY <2>2, <3>1, <1>7, <1>a
      <4>2. succ(i) \in fresh \/ Free(succ(i))
        BY <4>1, <2>2, <3>1, <1>3, <1>8
      <4> QED BY <4>1, <4>2, <1>7
    <3>2. CASE i \notin fresh
      BY <2>2, <3>2, <1>0, <1>7 DEF FreeClosed, TypeOK
    <3> QED BY <3>1, <3>2
  <2> QED BY <2>1, <2>2 DEF FreeClosed, Free, Invalid
<1>10. ASSUME NEW i \in fresh, NEW j \in fresh, i < j, succ(i) # Invalid
       PROVE  succ(i) # succ(j)
  <2>1. succ(i) \in fresh /\ succ(i) <= j
    BY <1>10, <1>1, <1>3
  <2>2. CASE succ(j) \in fresh /\ succ(j) > j
    <3>1. succ(i) \in Nat /\ succ(j) \in Nat /\ j \in Nat
      BY <2>1, <2>2, <1>1
    <3> QED BY <3>1, <2>1, <2>2
  <2>3. CASE succ(j) = first_free
    BY <2>1, <2>3, <1>1, <1>8, <1>b
  <2> QED BY <2>2, <2>3, <1>3
<1>11. FreeOnce'
  <2>1. ASSUME NEW i \in Idx, Free(i)', link'[i].next # Invalid
        PROVE  link'[i].next # first_free'
    <3>1. CASE fresh = {}
      BY <2>1, <3>1, <1>0, <1>4, <1>7 DEF FreeOnce
    <3>2. CASE fresh # {} /\ i \in fresh
      <4>1. link'[i].next = succ(i) /\ first_free' = Least(fresh)
        BY <3>2, <1>4, <1>7
      <4>2. CASE succ(i) \in fresh /\ succ(i) > i
        <5>1. succ(i) \in Nat /\ i \in Nat /\ Least(fresh) \in Nat /\ Least(fresh) <= i
          BY <4>2, <3>2, <1>1, <1>2
        <5> QED BY <5>1, <4>1, <4>2
      <4>3. CASE succ(i) = first_free
        BY <4>1, <4>3, <3>2, <2>1, <1>1, <1>2, <1>8
      <4> QED BY <4>2, <4>3, <3>2, <1>3
    <3>3. CASE fresh # {} /\ i \notin fresh
      BY <2>1, <3>3, <1>0, <1>1, <1>2, <1>4, <1>7 DEF FreeClosed
    <3> QED BY <3>1, <3>2, <3>3
  <2>2. ASSUME NEW i \in Idx, NEW j \in Idx, Free(i)', Free(j)', i # j,
               link'[i].next # Invalid
        PROVE  link'[i].next # link'[j].next
    <3>1. CASE i \in fresh /\ j \in fresh
      BY <2>2, <3>1, <1>1, <1>7, <1>10
    <3>2. CASE i \in fresh /\ j \notin fresh
      <4>1. link'[i].next = succ(i) /\ link'[j].next = link[j].next /\ Free(j)
        BY <2>2, <3>2, <1>7
      <4>2. link[j].next # Invalid => link[j].next \in Idx /\ Free(link[j].next)
                                      /\ link[j].next # first_free
        BY <4>1, <1>0 DEF FreeClosed, FreeOnce, TypeOK
      <4> QED BY <4>1, <4>2, <2>2, <3>2, <1>1, <1>3
    <3>3. CASE i \notin fresh /\ j \in fresh
      <4>1. link'[j].next = succ(j) /\ link'[i].next = link[i].next /\ Free(i)
        BY <2>2, <3>3, <1>7
      <4>2. link[i].next # Invalid => link[i].next \in Idx /\ Free(link[i].next)
                                      /\ link[i].next # first_free
        BY <4>1, <1>0 DEF FreeClosed, FreeOnce, TypeOK
      <4> QED BY <4>1, <4>2, <2>2, <3>3, <1>1, <1>3
    <3>4. CASE i \notin fresh /\ j \notin fresh
      BY <2>2, <3>4, <1>0, <1>7 DEF FreeOnce
    <3> QED BY <3>1, <3>2, <3>3, <3>4
  <2> QED BY <2>1, <2>2 DEF FreeOnce, Free, Invalid
<1>12. FreeReached'
  <2> SUFFICES ASSUME NEW j \in Idx, owner'[j] = 0, j # first_free'
               PROVE  \E k \in Idx : owner'[k] = 0 /\ link'[k].next = j
    BY DEF FreeReached, Free
  <2>1. CASE j \in fresh
    <3> DEFINE below == {k \in fresh : k < j}
    <3>1. Least(fresh) \in below
      BY <2>1, <1>1, <1>2, <1>4
    <3>2. PICK k \in below : \A z \in below : z <= k
      BY <3>1, <1>1, GreatestBelow
    <3>3. succ(k) = j
      <4>1. k \in Nat /\ j \in Nat /\ k \in fresh /\ k < j
        BY <3>2, <2>1, <1>1
      <4>2. succ(k) \in fresh /\ succ(k) \in Nat /\ succ(k) > k /\ succ(k) <= j
        BY <4>1, <2>1, <1>1, <1>3
      <4>3. ~(succ(k) < j)
        BY <3>2, <4>1, <4>2
      <4> QED BY <4>1, <4>2, <4>3
    <3> QED BY <3>2, <3>3, <1>1, <1>7
  <2>2. CASE j \notin fresh /\ j # first_free
    BY <2>2, <1>0, <1>1, <1>7 DEF FreeReached, Free
  <2>3. CASE j \notin fresh /\ j = first_free
    <3>1. fresh # {}
      BY <2>3, <1>4
    <3>2. PICK k \in fresh : \A z \in fresh : z <= k
      BY <3>1, <1>1, GreatestBelow
    <3>3. succ(k) = first_free
      <4>1. succ(k) \in fresh => succ(k) <= k /\ succ(k) \in Nat /\ k \in Nat
        BY <3>2, <1>1
      <4> QED BY <4>1, <1>3
    <3> QED BY <2>3, <3>2, <3>3, <1>1, <1>7
  <2> QED BY <2>1, <2>2, <2>3
<1>13. FreeRanked'
  <2>1. PICK rank \in [Idx -> Nat] : Rises(rank)
    BY DEF IInv, FreeRanked
  <2> DEFINE after == [j \in Idx |-> IF j \in fresh THEN j ELSE rank[j] + MaxNumAsids]
  <2>3. \A j \in Idx : j \in Nat /\ j < MaxNumAsids
    BY AsidAssumption DEF Idx
  <2>4. after \in [Idx -> Nat]
    BY <2>3, AsidAssumption
  <2>5. ASSUME NEW j \in Idx, owner'[j] = 0, link'[j].next # Invalid
        PROVE  after[j] < after[link'[j].next]
    <3>1. CASE j \in fresh /\ succ(j) \in fresh
      <4>1. link'[j].next = succ(j) /\ succ(j) > j /\ succ(j) \in Idx
        BY <3>1, <1>1, <1>3, <1>7, <1>8, <1>b
      <4> QED BY <3>1, <4>1, <2>3
    <3>2. CASE j \in fresh /\ succ(j) \notin fresh
      <4>1. link'[j].next = first_free /\ first_free \in Idx /\ first_free \notin fresh
        BY <3>2, <2>5, <1>3, <1>7, <1>8
      <4> QED BY <3>2, <4>1, <2>3, AsidAssumption
    <3>3. CASE j \notin fresh
      <4>1. link'[j].next = link[j].next /\ owner[j] = 0
        BY <3>3, <2>5, <1>7 DEF Free
      <4>2. link[j].next \in Idx /\ link[j].next \notin fresh
        BY <4>1, <2>5, <1>0, <1>1 DEF FreeClosed, Free, TypeOK
      <4>3. rank[j] < rank[link[j].next]
        BY <4>1, <2>1, <2>5 DEF Rises, Free
      <4> QED BY <3>3, <4>1, <4>2, <4>3, AsidAssumption
    <3> QED BY <3>1, <3>2, <3>3
  <2>6. PICK g \in [Idx -> Nat] : g = after
    BY <2>4
  <2>7. Rises(g)'
    BY <2>5, <2>6 DEF Rises, Free, Invalid
  <2> QED BY <2>7 DEF FreeRanked
<1>14. PreemptAsids => RingOK(Links, InUse)'
  <2>1. InUse' = InUse /\ Links'.head = Links.head
    BY <1>0, <1>1, <1>4, AsidAssumption DEF InUse, Links, TypeOK
  <2>2. \A j \in InUse : Links'.link[j] = Links.link[j]
    BY <1>0, <1>1, <1>4, AsidAssumption DEF Links, InUse
  <2> QED BY <2>1, <2>2, RingElsewhere DEF IInv
<1> QED BY <1>5, <1>6, <1>9, <1>11, <1>12, <1>13, <1>14 DEF IInv

\* allocate pops the head of the free list.
LEMMA AllocateFreeIInv ==
  ASSUME IInv, NEW s \in Spaces, AllocateFree(s)
  PROVE  IInv'
<1> DEFINE i == first_free
           m == MoveAsid(Links, i, FALSE, TRUE)
<1>0. TypeOK /\ AsidExclusive /\ FreeClosed /\ FreeOnce /\ FreeReached
  BY DEF IInv
<1>1. /\ i \in Idx /\ i # Invalid /\ Free(i) /\ asid[s] = Invalid
      /\ first_free' = link[i].next
      /\ link' = m.link /\ lru_head' = m.head
      /\ owner' = [owner EXCEPT ![i] = s]
      /\ asid' = [asid EXCEPT ![s] = i]
      /\ newer' = Used(newer, s)
  BY <1>0 DEF AllocateFree, NextFree, TypeOK, SetRing, FreeClosed
<1>2. /\ m \in Rings
      /\ PreemptAsids => RingOK(m, InUse \cup {i})
      /\ \A j \in Idx \ (InUse \cup {i}) : m.link[j] = link[j]
  <2>1. Links \in Rings /\ Links.link = link /\ InUse \in SUBSET Idx /\ i \notin InUse
    BY <1>0, <1>1, AsidAssumption DEF Links, Rings, LinkTables, TypeOK, InUse, Free
  <2>2. PreemptAsids => RingOK(Links, InUse)
    BY DEF IInv
  <2> QED BY <2>1, <2>2, <1>1, MoveAsidOK
<1> HIDE DEF m
<1>3. TypeOK'
  BY <1>0, <1>1, <1>2, HistoryType DEF TypeOK, Rings, LinkTables
<1>4. AsidExclusive'
  BY <1>0, <1>1, AsidAssumption DEF TypeOK, AsidExclusive, Free, Invalid, Idx
<1>5. \A j \in Idx : /\ owner'[j] = 0 <=> owner[j] = 0 /\ j # i
                     /\ owner'[j] = 0 => link'[j] = link[j]
  BY <1>0, <1>1, <1>2, AsidAssumption DEF TypeOK, Free, InUse
<1>6. FreeClosed'
  BY <1>0, <1>1, <1>3, <1>5 DEF FreeClosed, FreeOnce, TypeOK, Free
<1>7. FreeOnce'
  BY <1>0, <1>1, <1>3, <1>5 DEF FreeOnce, TypeOK, Free
<1>8. FreeReached'
  BY <1>0, <1>1, <1>3, <1>5 DEF FreeReached, FreeOnce, TypeOK, Free
<1>9. FreeRanked'
  BY <1>0, <1>1, <1>5 DEF IInv, FreeRanked, Rises, TypeOK, Free
<1>10. PreemptAsids => RingOK(Links, InUse)'
  <2>1. InUse' = InUse \cup {i} /\ Links'.link = m.link /\ Links'.head = m.head
    BY <1>0, <1>1, AsidAssumption DEF InUse, Links, TypeOK
  <2> QED BY <2>1, <1>2, RingElsewhere
<1> QED BY <1>3, <1>4, <1>6, <1>7, <1>8, <1>9, <1>10 DEF IInv

\* allocate takes the tail of the ring away from its space.
LEMMA AllocatePreemptIInv ==
  ASSUME IInv, NEW s \in Spaces, AllocatePreempt(s)
  PROVE  IInv'
<1> DEFINE i == link[lru_head].prev
           victim == owner[i]
           u == MoveAsid(Links, i, TRUE, FALSE)
           m == MoveAsid(u, i, FALSE, TRUE)
<1>0. TypeOK /\ AsidExclusive /\ FreeClosed /\ FreeOnce /\ FreeReached /\ RingOK(Links, InUse)
  BY DEF IInv, AllocatePreempt
<1>1. /\ PreemptAsids /\ asid[s] = Invalid /\ victim \in Spaces
      /\ first_free' = first_free
      /\ link' = m.link /\ lru_head' = m.head
      /\ owner' = [owner EXCEPT ![i] = s]
      /\ asid' = [asid EXCEPT ![victim] = Invalid, ![s] = i]
      /\ newer' = Used(Dropped(newer, victim), s)
      /\ lru_head # Invalid
  BY DEF AllocatePreempt, SetRing
<1>2. i \in Idx /\ i \in InUse /\ i # Invalid
  BY <1>0, <1>1, AsidAssumption DEF RingOK, Joined, Links, InUse, Invalid, Idx
<1>3. /\ m \in Rings /\ RingOK(m, InUse)
      /\ \A j \in Idx \ InUse : m.link[j] = link[j]
  <2>1. Links \in Rings /\ Links.link = link /\ InUse \in SUBSET Idx
    BY <1>0 DEF Links, Rings, LinkTables, TypeOK, InUse
  <2>2. /\ u \in Rings /\ RingOK(u, InUse \ {i})
        /\ \A j \in Idx \ InUse : u.link[j] = link[j]
    <3>1. InUse \cup {i} = InUse /\ TRUE \in BOOLEAN /\ FALSE \in BOOLEAN /\ (TRUE <=> i \in InUse)
      BY <1>2
    <3>2. /\ u \in Rings
          /\ PreemptAsids => RingOK(u, IF FALSE THEN InUse \cup {i} ELSE InUse \ {i})
          /\ \A j \in Idx \ (InUse \cup {i}) : u.link[j] = Links.link[j]
      BY <2>1, <3>1, <1>0, <1>2, MoveAsidOK
    <3> QED BY <2>1, <3>1, <3>2, <1>1
  <2> HIDE DEF u
  <2>3. /\ m \in Rings /\ RingOK(m, (InUse \ {i}) \cup {i})
        /\ \A j \in Idx \ ((InUse \ {i}) \cup {i}) : m.link[j] = u.link[j]
    <3>1. InUse \ {i} \in SUBSET Idx /\ i \notin InUse \ {i}
      BY <2>1
    <3> QED BY <2>2, <3>1, <1>1, <1>2, MoveAsidOK
  <2>4. (InUse \ {i}) \cup {i} = InUse
    BY <1>2
  <2> QED BY <2>2, <2>3, <2>4
<1> HIDE DEF m
<1>4. newer' \in [Spaces -> SUBSET Spaces]
  BY <1>0, <1>1, HistoryType DEF TypeOK
<1>5. victim # s
  BY <1>0, <1>1, <1>2 DEF AsidExclusive
<1>6. TypeOK'
  BY <1>0, <1>1, <1>2, <1>3, <1>4 DEF TypeOK, Rings, LinkTables
<1>7. AsidExclusive'
  BY <1>0, <1>1, <1>2, <1>5, AsidAssumption DEF TypeOK, AsidExclusive, Invalid, Idx
<1>8. \A j \in Idx : /\ owner'[j] = 0 <=> owner[j] = 0
                     /\ owner[j] = 0 => link'[j] = link[j]
  BY <1>0, <1>1, <1>2, <1>3, AsidAssumption DEF TypeOK, InUse
<1>9. FreeClosed' /\ FreeOnce' /\ FreeReached'
  BY <1>0, <1>1, <1>6, <1>8 DEF FreeClosed, FreeOnce, FreeReached, TypeOK, Free
<1>10. FreeRanked'
  BY <1>0, <1>1, <1>8 DEF IInv, FreeRanked, Rises, TypeOK, Free
<1>11. RingOK(Links, InUse)'
  <2>1. InUse' = InUse /\ Links'.link = m.link /\ Links'.head = m.head
    BY <1>0, <1>1, <1>2, AsidAssumption DEF InUse, Links, TypeOK
  <2> QED BY <2>1, <1>3, RingElsewhere
<1> QED BY <1>6, <1>7, <1>9, <1>10, <1>11 DEF IInv

\* reference moves an entry to the head of the ring.
LEMMA ReferenceIInv ==
  ASSUME IInv, NEW s \in Spaces, Reference(s)
  PROVE  IInv'
<1> DEFINE i == asid[s]
           m == MoveAsid(Links, i, TRUE, TRUE)
<1>0. TypeOK /\ AsidExclusive /\ FreeClosed /\ FreeOnce /\ FreeReached
  BY DEF IInv
<1>1. /\ i \in Idx /\ i \in InUse
      /\ link' = m.link /\ lru_head' = m.head
      /\ UNCHANGED <<asid, owner, first_free>>
      /\ newer' = Used(newer, s)
  BY <1>0 DEF Reference, TypeOK, SetRing, AsidExclusive, InUse
<1>2. /\ m \in Rings
      /\ PreemptAsids => RingOK(m, InUse)
      /\ \A j \in Idx \ InUse : m.link[j] = link[j]
  <2>1. Links \in Rings /\ Links.link = link /\ InUse \in SUBSET Idx /\ InUse \cup {i} = InUse
    BY <1>0, <1>1 DEF Links, Rings, LinkTables, TypeOK, InUse
  <2>2. PreemptAsids => RingOK(Links, InUse)
    BY DEF IInv
  <2>3. TRUE \in BOOLEAN /\ FALSE \in BOOLEAN /\ (TRUE <=> i \in InUse)
    BY <1>1
  <2>4. /\ m \in Rings
        /\ PreemptAsids => RingOK(m, IF TRUE THEN InUse \cup {i} ELSE InUse \ {i})
        /\ \A j \in Idx \ (InUse \cup {i}) : m.link[j] = Links.link[j]
    BY <2>1, <2>2, <2>3, <1>1, MoveAsidOK
  <2> QED BY <2>1, <2>4
<1> HIDE DEF m
<1>3. TypeOK'
  BY <1>0, <1>1, <1>2, HistoryType DEF TypeOK, Rings, LinkTables
<1>4. \A j \in Idx : owner[j] = 0 => link'[j] = link[j]
  BY <1>0, <1>2, <1>1, AsidAssumption DEF InUse
<1>5. AsidExclusive' /\ FreeClosed' /\ FreeOnce' /\ FreeReached'
  BY <1>0, <1>1, <1>3, <1>4 DEF AsidExclusive, FreeClosed, FreeOnce, FreeReached, TypeOK, Free
<1>6. FreeRanked'
  BY <1>0, <1>1, <1>4 DEF IInv, FreeRanked, Rises, TypeOK, Free
<1>7. PreemptAsids => RingOK(Links, InUse)'
  <2>1. InUse' = InUse /\ Links'.link = m.link /\ Links'.head = m.head
    BY <1>1 DEF InUse, Links
  <2> QED BY <2>1, <1>2, RingElsewhere
<1> QED BY <1>3, <1>5, <1>6, <1>7 DEF IInv

\* release pushes the entry in front of the free list.
LEMMA ReleaseIInv ==
  ASSUME IInv, NEW s \in Spaces, Release(s)
  PROVE  IInv'
<1> DEFINE i == asid[s]
           m == MoveAsid(Links, i, TRUE, FALSE)
<1>0. TypeOK /\ AsidExclusive /\ FreeClosed /\ FreeOnce /\ FreeReached
  BY DEF IInv
<1>1. /\ i \in Idx /\ owner[i] = s /\ ~Free(i) /\ i \in InUse
      /\ first_free' = i
      /\ link' = [m.link EXCEPT ![i].next = first_free] /\ lru_head' = m.head
      /\ owner' = [owner EXCEPT ![i] = 0]
      /\ asid' = [asid EXCEPT ![s] = Invalid]
      /\ newer' = Dropped(newer, s)
  BY <1>0, AsidAssumption DEF Release, Threaded, TypeOK, AsidExclusive, Free, InUse
<1>2. /\ m \in Rings
      /\ PreemptAsids => RingOK(m, InUse \ {i})
      /\ \A j \in Idx \ InUse : m.link[j] = link[j]
  <2>1. Links \in Rings /\ Links.link = link /\ InUse \in SUBSET Idx /\ InUse \cup {i} = InUse
    BY <1>0, <1>1 DEF Links, Rings, LinkTables, TypeOK, InUse
  <2>2. PreemptAsids => RingOK(Links, InUse)
    BY DEF IInv
  <2>3. TRUE \in BOOLEAN /\ FALSE \in BOOLEAN /\ (TRUE <=> i \in InUse)
    BY <1>1
  <2>4. /\ m \in Rings
        /\ PreemptAsids => RingOK(m, IF FALSE THEN InUse \cup {i} ELSE InUse \ {i})
        /\ \A j \in Idx \ (InUse \cup {i}) : m.link[j] = Links.link[j]
    BY <2>1, <2>2, <2>3, <1>1, MoveAsidOK
  <2> QED BY <2>1, <2>4
<1> HIDE DEF m
<1>3. TypeOK'
  BY <1>0, <1>1, <1>2, HistoryType DEF TypeOK, Rings, LinkTables
<1>4. AsidExclusive'
  BY <1>0, <1>1, AsidAssumption DEF TypeOK, AsidExclusive, Invalid, Idx
<1>5. \A j \in Idx : /\ owner'[j] = 0 <=> owner[j] = 0 \/ j = i
                     /\ owner'[j] = 0 => link'[j].next = IF j = i THEN first_free ELSE link[j].next
  BY <1>0, <1>1, <1>2, AsidAssumption DEF TypeOK, Free, InUse, Rings, LinkTables
<1>6. FreeClosed'
  BY <1>0, <1>1, <1>3, <1>5 DEF FreeClosed, TypeOK, Free
<1>7. FreeOnce'
  BY <1>0, <1>1, <1>3, <1>5 DEF FreeOnce, FreeClosed, TypeOK, Free
<1>8. FreeReached'
  BY <1>0, <1>1, <1>3, <1>5 DEF FreeReached, TypeOK, Free
<1>9. FreeRanked'
  <2>1. PICK rank \in [Idx -> Nat] : Rises(rank)
    BY DEF IInv, FreeRanked
  <2> DEFINE after == [j \in Idx |-> IF j = i THEN 0 ELSE rank[j] + 1]
  <2>2. after \in [Idx -> Nat]
    OBVIOUS
  <2>3. PICK g \in [Idx -> Nat] : g = after
    BY <2>2
  <2>4. ASSUME NEW j \in Idx, owner'[j] = 0, link'[j].next # Invalid
        PROVE  g[j] < g[link'[j].next]
    <3>1. CASE j = i
      <4>1. link'[j].next = first_free /\ first_free \in Idx /\ first_free # i
        BY <3>1, <2>4, <1>0, <1>1, <1>5 DEF FreeClosed, TypeOK, Free
      <4> QED BY <3>1, <4>1, <2>3
    <3>2. CASE j # i
      <4>1. link'[j].next = link[j].next /\ owner[j] = 0
        BY <3>2, <2>4, <1>5
      <4>2. link[j].next \in Idx /\ link[j].next # i
        BY <4>1, <2>4, <1>0, <1>1 DEF FreeClosed, Free, TypeOK
      <4>3. rank[j] < rank[link[j].next]
        BY <4>1, <2>1, <2>4 DEF Rises, Free
      <4> QED BY <3>2, <4>1, <4>2, <4>3, <2>3
    <3> QED BY <3>1, <3>2
  <2>5. Rises(g)'
    BY <2>4 DEF Rises, Free, Invalid
  <2> QED BY <2>5 DEF FreeRanked
<1>10. PreemptAsids => RingOK(Links, InUse)'
  <2>1. InUse' = InUse \ {i} /\ Links'.head = m.head
    BY <1>0, <1>1, AsidAssumption DEF InUse, Links, TypeOK
  <2>2. \A j \in InUse \ {i} : Links'.link[j] = m.link[j]
    BY <1>1, <1>2 DEF Links, InUse, Rings, LinkTables
  <2> QED BY <2>1, <2>2, <1>2, RingElsewhere
<1> QED BY <1>3, <1>4, <1>6, <1>7, <1>8, <1>9, <1>10 DEF IInv

\* Every step of the cache preserves the invariant.
LEMMA NextIInv == ASSUME IInv, [Next]_vars PROVE IInv'
<1>1. CASE UNCHANGED vars
  <2>1. TypeOK' /\ AsidExclusive' /\ FreeClosed' /\ FreeOnce' /\ FreeReached' /\ FreeRanked'
    BY <1>1 DEF vars, IInv, TypeOK, AsidExclusive, FreeClosed, FreeOnce, FreeReached,
       FreeRanked, Rises, Free
  <2>2. Links' = Links /\ InUse' = InUse
    BY <1>1 DEF vars, Links, InUse
  <2> QED BY <2>1, <2>2 DEF IInv
<1> QED
  BY <1>1, SetValidIInv, AllocateFreeIInv, AllocatePreemptIInv, ReferenceIInv, ReleaseIInv
     DEF Next

\* One step along the free list.
Succ(x) == IF x = Invalid THEN Invalid ELSE link[x].next

\* A function that follows the free list for n steps.
Follows(g, n) == /\ g \in [0 .. n -> Idx \cup {Invalid}]
                 /\ g[0] = first_free
                 /\ \A k \in 1 .. n : g[k] = Succ(g[k - 1])

\* The free list can be followed for any number of steps.
LEMMA WalkExists ==
  ASSUME TypeOK, NEW n \in Nat
  PROVE  \E g : Follows(g, n)
<1> DEFINE S == {k \in Nat : ~ \E g : Follows(g, k)}
<1>1. \A x \in Idx \cup {Invalid} : Succ(x) \in Idx \cup {Invalid}
  BY DEF Succ, TypeOK
<1>2. SUFFICES ASSUME S # {} PROVE FALSE
  OBVIOUS
<1>3. PICK k \in S : \A j \in S : k <= j
  BY <1>2, LeastIsLeast
<1>4. k # 0
  <2> DEFINE g == [j \in 0 .. 0 |-> first_free]
  <2>1. Follows(g, 0)
    BY DEF Follows, TypeOK
  <2> QED BY <2>1, <1>3
<1>5. k - 1 \in Nat /\ k - 1 \notin S
  BY <1>3, <1>4
<1>6. PICK g : Follows(g, k - 1)
  BY <1>5
<1> DEFINE h == [j \in 0 .. k |-> IF j = k THEN Succ(g[k - 1]) ELSE g[j]]
<1>7. g \in [0 .. k - 1 -> Idx \cup {Invalid}] /\ k - 1 \in 0 .. k - 1 /\ k \in Nat
  BY <1>5, <1>6 DEF Follows
<1>8. h \in [0 .. k -> Idx \cup {Invalid}]
  <2>1. Succ(g[k - 1]) \in Idx \cup {Invalid}
    BY <1>1, <1>7
  <2>2. \A j \in 0 .. k : j # k => j \in 0 .. k - 1
    BY <1>7
  <2> QED BY <2>1, <2>2, <1>7
<1>9. h[0] = first_free
  BY <1>4, <1>6, <1>7 DEF Follows
<1>10. ASSUME NEW j \in 1 .. k PROVE h[j] = Succ(h[j - 1])
  <2>1. j - 1 \in 0 .. k - 1 /\ j - 1 # k /\ h[j - 1] = g[j - 1]
    BY <1>7
  <2>2. CASE j = k
    BY <2>1, <2>2
  <2>3. CASE j # k
    <3>1. j \in 1 .. k - 1 /\ h[j] = g[j]
      BY <2>3, <1>7
    <3> QED BY <2>1, <3>1, <1>6 DEF Follows
  <2> QED BY <2>2, <2>3
<1>11. Follows(h, k)
  BY <1>8, <1>9, <1>10 DEF Follows
<1> QED BY <1>3, <1>11

\* FreeWalk follows the free list for as many steps as there are entries.
LEMMA WalkFollows ==
  ASSUME TypeOK
  PROVE  Follows(FreeWalk, MaxNumAsids)
<1> DEFINE N == MaxNumAsids
           Walk(f) == [n \in 0 .. N |-> IF n = 0 THEN first_free
                                        ELSE IF f[n - 1] = Invalid THEN Invalid
                                             ELSE link[f[n - 1]].next]
<1>1. N \in Nat
  BY AsidAssumption
<1>2. PICK g : Follows(g, N)
  BY <1>1, WalkExists
<1>3. g = Walk(g)
  <2>1. \A n \in 0 .. N : n # 0 => n \in 1 .. N
    BY <1>1
  <2>2. \A n \in 0 .. N : g[n] = Walk(g)[n]
    BY <1>1, <1>2, <2>1 DEF Follows, Succ
  <2> QED BY <1>2, <2>2 DEF Follows
<1>4. FreeWalk = CHOOSE f : f = Walk(f)
  BY DEF FreeWalk
<1>5. FreeWalk = Walk(FreeWalk)
  <2> HIDE DEF Walk
  <2> QED BY <1>3, <1>4
<1> DEFINE S == {n \in 0 .. N : FreeWalk[n] # g[n]}
<1>6. S = {}
  <2> SUFFICES ASSUME S # {} PROVE FALSE
    OBVIOUS
  <2>1. S \in SUBSET Nat
    BY <1>1
  <2>2. PICK k \in S : \A j \in S : k <= j
    BY <2>1, LeastIsLeast
  <2>3. FreeWalk[k] = Walk(FreeWalk)[k] /\ g[k] = Walk(g)[k] /\ k \in 0 .. N
    BY <1>3, <1>5
  <2>4. k # 0
    BY <2>2, <2>3
  <2>5. k - 1 \in 0 .. N /\ k - 1 \notin S
    BY <2>2, <2>4, <1>1
  <2> QED BY <2>2, <2>3, <2>4, <2>5
<1>7. FreeWalk = g
  <2>1. FreeWalk = [n \in 0 .. N |-> FreeWalk[n]] /\ g = [n \in 0 .. N |-> g[n]]
    BY <1>3, <1>5
  <2> QED BY <2>1, <1>6
<1> QED BY <1>2, <1>7

\* The invariant makes the free list exact.
LEMMA FreeListFromIInv == ASSUME IInv PROVE FreeListExact
<1> DEFINE W == FreeWalk
           N == MaxNumAsids
<1>0. TypeOK /\ FreeClosed /\ FreeReached /\ Invalid \notin Idx /\ N \in Nat /\ N > 0
  BY AsidAssumption DEF IInv, Invalid, Idx
<1>1. /\ W \in [0 .. N -> Idx \cup {Invalid}] /\ W[0] = first_free
      /\ \A k \in 1 .. N : W[k] = Succ(W[k - 1])
  BY <1>0, WalkFollows DEF Follows
<1> HIDE DEF W
<1>2. PICK rank \in [Idx -> Nat] : Rises(rank)
  BY DEF IInv, FreeRanked
<1>3. \A n \in 0 .. N : W[n] # Invalid => W[n] \in Idx /\ owner[W[n]] = 0
  <2> DEFINE S == {n \in 0 .. N : W[n] # Invalid /\ owner[W[n]] # 0}
  <2> SUFFICES ASSUME S # {} PROVE FALSE
    BY <1>1
  <2>1. S \in SUBSET Nat
    BY <1>0
  <2>2. PICK k \in S : \A j \in S : k <= j
    BY <2>1, LeastIsLeast
  <2>3. k # 0
    BY <2>2, <1>0, <1>1 DEF FreeClosed, Free
  <2>4. k - 1 \in 0 .. N /\ k - 1 \notin S /\ k \in 1 .. N
    BY <2>2, <2>3, <1>0
  <2>5. W[k] = Succ(W[k - 1]) /\ W[k] # Invalid
    BY <2>2, <2>4, <1>1
  <2>6. W[k - 1] # Invalid /\ W[k - 1] \in Idx /\ W[k] = link[W[k - 1]].next
    BY <2>4, <2>5, <1>1 DEF Succ
  <2>7. owner[W[k - 1]] = 0
    BY <2>4, <2>6
  <2> QED BY <2>2, <2>5, <2>6, <2>7, <1>0 DEF FreeClosed, Free
<1>4. \A n \in 0 .. N : W[n] # Invalid =>
        \A m \in 0 .. n - 1 : W[m] # Invalid /\ rank[W[m]] < rank[W[n]]
  <2> DEFINE S == {n \in 0 .. N : /\ W[n] # Invalid
                                  /\ \E m \in 0 .. n - 1 :
                                       ~(W[m] # Invalid /\ rank[W[m]] < rank[W[n]])}
  <2> SUFFICES ASSUME S # {} PROVE FALSE
    OBVIOUS
  <2>1. S \in SUBSET Nat
    BY <1>0
  <2>2. PICK k \in S : \A j \in S : k <= j
    BY <2>1, LeastIsLeast
  <2>3. PICK m \in 0 .. k - 1 : ~(W[m] # Invalid /\ rank[W[m]] < rank[W[k]])
    BY <2>2
  <2>4. k - 1 \in 0 .. N /\ k - 1 \notin S /\ k \in 1 .. N /\ k \in Nat /\ m \in Nat
    BY <2>2, <2>3, <1>0
  <2>5. W[k] = Succ(W[k - 1]) /\ W[k] # Invalid
    BY <2>2, <2>4, <1>1
  <2>6. W[k - 1] # Invalid /\ W[k - 1] \in Idx /\ W[k] = link[W[k - 1]].next
    BY <2>4, <2>5, <1>1 DEF Succ
  <2>7. rank[W[k - 1]] < rank[W[k]]
    BY <2>4, <2>5, <2>6, <1>2, <1>3 DEF Rises, Free
  <2>8. m # k - 1
    BY <2>3, <2>6, <2>7
  <2>9. m \in 0 .. (k - 1) - 1
    BY <2>3, <2>4, <2>8
  <2>10. W[m] # Invalid /\ rank[W[m]] < rank[W[k - 1]]
    BY <2>4, <2>6, <2>9
  <2>11. W[m] \in Idx /\ W[k] \in Idx
    <3>1. m \in 0 .. N /\ k \in 0 .. N
      BY <2>4, <2>9, <1>0
    <3> QED BY <3>1, <2>5, <2>10, <1>1
  <2> QED BY <2>3, <2>6, <2>7, <2>10, <2>11
<1>5. W[N] = Invalid
  <2> SUFFICES ASSUME W[N] # Invalid PROVE FALSE
    OBVIOUS
  <2>1. N \in 0 .. N /\ \A m \in 0 .. N : m = N \/ m \in 0 .. N - 1
    BY <1>0
  <2>2. \A m \in 0 .. N : W[m] # Invalid /\ W[m] \in Idx
    BY <2>1, <1>1, <1>4
  <2>3. W \in [0 .. N -> Idx]
    BY <2>2, <1>1
  <2>4. \A m, n \in 0 .. N : m < n => W[m] # W[n]
    <3> SUFFICES ASSUME NEW m \in 0 .. N, NEW n \in 0 .. N, m < n PROVE W[m] # W[n]
      OBVIOUS
    <3>1. m \in 0 .. n - 1
      BY <1>0
    <3>2. rank[W[m]] < rank[W[n]] /\ rank[W[n]] \in Nat
      BY <3>1, <2>2, <1>2, <1>4
    <3> QED BY <3>2
  <2>5. IsFiniteSet(0 .. N) /\ Cardinality(0 .. N) = N + 1 /\ IsFiniteSet(Idx) /\ Cardinality(Idx) = N
    BY <1>0, FS_Interval DEF Idx
  <2>6. PICK m, n \in 0 .. N : m # n /\ W[m] = W[n]
    BY <2>3, <2>5, <1>0, FS_PigeonHole
  <2>7. m < n \/ n < m
    BY <2>6, <1>0
  <2> QED BY <2>4, <2>6, <2>7
<1>6. \A i \in Idx : owner[i] = 0 => \E n \in 0 .. N : W[n] = i
  <2> DEFINE U == {i \in Idx : owner[i] = 0 /\ \A n \in 0 .. N : W[n] # i}
             T == {rank[i] : i \in U}
  <2> SUFFICES ASSUME U # {} PROVE FALSE
    OBVIOUS
  <2>1. T \in SUBSET Nat /\ T # {}
    BY <1>2
  <2>2. PICK x \in T : \A y \in T : x <= y
    BY <2>1, LeastIsLeast
  <2>3. PICK i \in U : x = rank[i]
    OBVIOUS
  <2>4. 0 \in 0 .. N /\ i # first_free
    BY <2>3, <1>0, <1>1
  <2>5. PICK j \in Idx : owner[j] = 0 /\ link[j].next = i
    BY <2>3, <2>4, <1>0 DEF FreeReached, Free
  <2>6. rank[j] < rank[i] /\ rank[j] \in Nat /\ rank[i] \in Nat
    BY <2>3, <2>5, <1>0, <1>2 DEF Rises, Free
  <2>7. j \notin U
    BY <2>2, <2>3, <2>6
  <2>8. PICK n \in 0 .. N : W[n] = j
    BY <2>5, <2>7
  <2>9. n # N /\ j # Invalid
    BY <2>5, <2>8, <1>0, <1>5
  <2>10. n + 1 \in 1 .. N /\ n + 1 \in 0 .. N /\ (n + 1) - 1 = n
    BY <2>8, <2>9, <1>0
  <2>11. W[n + 1] = i
    BY <2>5, <2>8, <2>9, <2>10, <1>1 DEF Succ
  <2> QED BY <2>3, <2>10, <2>11
<1>7. {W[n] : n \in 0 .. N} \ {Invalid} = {i \in Idx : owner[i] = 0}
  BY <1>0, <1>3, <1>6
<1> QED BY <1>5, <1>7 DEF FreeListExact, W

(***************************************************************************)
(* Whatever the number of spaces and of hardware ASIDs, in whatever order   *)
(* set_valid, get and release are called and whether ASIDs are preempted or *)
(* not, no ASID belongs to two spaces and the table agrees with the spaces. *)
(***************************************************************************)
THEOREM AsidExclusiveAlways == Spec => []AsidExclusive
<1>1. IInv /\ [Next]_vars => IInv'
  BY NextIInv
<1>2. IInv => AsidExclusive
  BY DEF IInv
<1> QED BY InitIInv, <1>1, <1>2, PTL DEF Spec

(***************************************************************************)
(* Popping from first_free meets exactly the valid ASIDs nobody holds, and  *)
(* ends: release, set_valid and the ring, which uses the same links, leak   *)
(* none and never close the free list to a cycle.                           *)
(***************************************************************************)
THEOREM FreeListAlwaysExact == Spec => []FreeListExact
<1>1. IInv /\ [Next]_vars => IInv'
  BY NextIInv
<1>2. IInv => FreeListExact
  BY FreeListFromIInv
<1> QED BY InitIInv, <1>1, <1>2, PTL DEF Spec
=============================================================================
