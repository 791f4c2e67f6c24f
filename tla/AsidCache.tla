------------------------------ MODULE AsidCache ------------------------------
(***************************************************************************)
(* The address-space-identifier cache of include/asid.h (asid_cache_t and   *)
(* asid_t).  Hardware ASIDs are handed out to address spaces from a free    *)
(* list threaded through the links of the table.  When the kernel is built  *)
(* with CONFIG_PREEMPT_ASIDS the ASIDs in use also form a ring in order of  *)
(* use, and an exhausted cache takes the ASID at the ring's tail away from  *)
(* its space.                                                               *)
(***************************************************************************)
EXTENDS Integers

CONSTANTS Spaces,        \* the asid_t objects, one per address space
          MaxNumAsids,   \* CONFIG_MAX_NUM_ASIDS
          PreemptAsids   \* CONFIG_PREEMPT_ASIDS

ASSUME AsidAssumption == /\ MaxNumAsids \in Nat \ {0}
                         /\ PreemptAsids \in BOOLEAN
                         /\ Spaces \cap {0, -1} = {}

VARIABLES asid,        \* asid_t::asid of every space
          owner,       \* asids[i].asid: a space, 0 when free, -1 when not valid
          link,        \* asids[i].next and asids[i].prev
          first_free,  \* head of the free list
          lru_head,    \* most recently used ASID
          newer        \* history: the holders used since a holder's last use

vars == <<asid, owner, link, first_free, lru_head, newer>>

Idx     == 0 .. MaxNumAsids - 1
Invalid == -1

Init == /\ asid = [s \in Spaces |-> Invalid]
        /\ owner = [i \in Idx |-> -1]
        /\ link = [i \in Idx |-> [prev |-> Invalid, next |-> Invalid]]
        /\ first_free = Invalid
        /\ lru_head = Invalid
        /\ newer = [s \in Spaces |-> {}]

(***************************************************************************)
(* set_valid: the entries of start..end that are not valid yet are put, in  *)
(* ascending order, in front of the free list.                              *)
(***************************************************************************)
Least(S) == CHOOSE j \in S : \A k \in S : j <= k

Fresh(start, end) == {i \in start .. end : owner[i] = -1}

\* What the loop leaves in the next link of a fresh entry.
FreshNext(i, start, end) ==
  LET later == {j \in Fresh(start, end) : j > i}
  IN IF later = {} THEN first_free ELSE Least(later)

SetValid(start, end) ==
  LET fresh == Fresh(start, end)
  IN /\ first_free' = IF fresh = {} THEN first_free ELSE Least(fresh)
     /\ owner' = [i \in Idx |-> IF i \in fresh THEN 0 ELSE owner[i]]
     /\ link' = [i \in Idx |->
                   IF i \notin fresh THEN link[i]
                   ELSE [link[i] EXCEPT !.next = FreshNext(i, start, end)]]
     /\ UNCHANGED <<asid, lru_head, newer>>

\* The removing half of move_asid, on a pair [link, head].
Unlinked(r, i) ==
  LET p == r.link[i].prev
      n == r.link[i].next
      h == IF r.head = i THEN n ELSE r.head
  IN IF p # n
     THEN [link |-> [[r.link EXCEPT ![p].next = n] EXCEPT ![n].prev = p], head |-> h]
     ELSE [link |-> r.link, head |-> Invalid]

\* The inserting half of move_asid: i becomes the head of the ring.
Pushed(r, i) ==
  LET n == IF r.head # Invalid THEN r.head ELSE i
      p == IF r.head # Invalid THEN r.link[r.head].prev ELSE i
      l == [[r.link EXCEPT ![n].prev = i] EXCEPT ![p].next = i]
  IN [link |-> [l EXCEPT ![i] = [prev |-> p, next |-> n]], head |-> i]

\* move_asid, empty unless the kernel preempts ASIDs.
MoveAsid(r, i, remove, insert) ==
  IF ~PreemptAsids THEN r
  ELSE LET u == IF remove THEN Unlinked(r, i) ELSE r
       IN IF insert THEN Pushed(u, i) ELSE u

\* History: s is the latest user; s no longer holds an ASID.
Used(h, s)    == [t \in Spaces |-> IF t = s THEN {}
                                   ELSE IF asid[t] = Invalid THEN h[t] ELSE h[t] \cup {s}]
Dropped(h, s) == [t \in Spaces |-> IF t = s THEN {} ELSE h[t] \ {s}]

SetRing(r) == link' = r.link /\ lru_head' = r.head
Links == [link |-> link, head |-> lru_head]

\* What allocate() leaves in first_free when it pops i.
MutStaleHead(i) == i
NextFree(i) == link[i].next

\* asid_t::get of a space without an ASID while the free list has one.
AllocateFree(s) ==
  /\ asid[s] = Invalid
  /\ first_free # Invalid
  /\ LET i == first_free IN
       /\ SetRing(MoveAsid(Links, i, FALSE, TRUE))
       /\ first_free' = NextFree(i)
       /\ owner' = [owner EXCEPT ![i] = s]
       /\ asid' = [asid EXCEPT ![s] = i]
       /\ newer' = Used(newer, s)

(***************************************************************************)
(* asid_t::get of a space without an ASID, the free list being empty: the   *)
(* ring's tail is preempted.  Without CONFIG_PREEMPT_ASIDS the kernel stops *)
(* in enter_kdebug; with an empty ring it would read asids[-1].             *)
(***************************************************************************)
AllocatePreempt(s) ==
  /\ PreemptAsids
  /\ asid[s] = Invalid
  /\ first_free = Invalid /\ lru_head # Invalid
  /\ LET i == link[lru_head].prev
         victim == owner[i]
     IN /\ victim \in Spaces
        /\ SetRing(MoveAsid(MoveAsid(Links, i, TRUE, FALSE), i, FALSE, TRUE))
        /\ owner' = [owner EXCEPT ![i] = s]
        /\ asid' = [asid EXCEPT ![victim] = Invalid, ![s] = i]
        /\ newer' = Used(Dropped(newer, victim), s)
        /\ UNCHANGED first_free

\* asid_t::get of a space that holds an ASID: reference.
Reference(s) ==
  /\ asid[s] # Invalid
  /\ SetRing(MoveAsid(Links, asid[s], TRUE, TRUE))
  /\ newer' = Used(newer, s)
  /\ UNCHANGED <<asid, owner, first_free>>

\* release() makes i point at the free list it is pushed on.
MutUnthreaded(l, i) == l
Threaded(l, i) == [l EXCEPT ![i].next = first_free]

\* asid_t::release: the entry goes back to the front of the free list.
Release(s) ==
  /\ asid[s] # Invalid
  /\ LET i == asid[s]
         r == MoveAsid(Links, i, TRUE, FALSE)
     IN /\ link' = Threaded(r.link, i)
        /\ lru_head' = r.head
        /\ owner' = [owner EXCEPT ![i] = 0]
        /\ first_free' = i
  /\ asid' = [asid EXCEPT ![s] = Invalid]
  /\ newer' = Dropped(newer, s)

Next == \/ \E start, end \in Idx : start <= end /\ SetValid(start, end)
        \/ \E s \in Spaces : \/ AllocateFree(s)
                             \/ AllocatePreempt(s)
                             \/ Reference(s)
                             \/ Release(s)

Spec == Init /\ [][Next]_vars
-----------------------------------------------------------------------------
TypeOK == /\ asid \in [Spaces -> Idx \cup {Invalid}]
          /\ owner \in [Idx -> Spaces \cup {0, -1}]
          /\ link \in [Idx -> [prev : Idx \cup {Invalid}, next : Idx \cup {Invalid}]]
          /\ first_free \in Idx \cup {Invalid}
          /\ lru_head \in Idx \cup {Invalid}
          /\ newer \in [Spaces -> SUBSET Spaces]

\* The free list as asid_cache_t::allocate would pop it.
FreeWalk[n \in 0 .. MaxNumAsids] ==
  IF n = 0 THEN first_free
  ELSE IF FreeWalk[n - 1] = Invalid THEN Invalid ELSE link[FreeWalk[n - 1]].next

(***************************************************************************)
(* Two address spaces never hold the same hardware ASID, and the table and  *)
(* the spaces agree on who holds it: what get() wrote into asid_t::asid is  *)
(* what allocate(), preempt() and release() recorded in asids[].            *)
(***************************************************************************)
AsidExclusive == \A s \in Spaces, i \in Idx : asid[s] = i <=> owner[i] = s

(***************************************************************************)
(* Popping from first_free until it is -1 meets exactly the valid ASIDs     *)
(* nobody holds: none is leaked by release() or set_valid(), none is handed *)
(* out twice, and the list has no cycle.                                    *)
(***************************************************************************)
FreeListExact ==
  /\ FreeWalk[MaxNumAsids] = Invalid
  /\ {FreeWalk[n] : n \in 0 .. MaxNumAsids} \ {Invalid} = {i \in Idx : owner[i] = 0}

(***************************************************************************)
(* "ASIDs may be pre-empted and managed in a LRU manner" (asid.h): the ring *)
(* entry allocate() would preempt belongs to the space whose last get() is  *)
(* the longest ago.                                                         *)
(***************************************************************************)
PreemptsLeastRecentlyUsed ==
  (PreemptAsids /\ first_free = Invalid /\ lru_head # Invalid)
    => LET victim == owner[link[lru_head].prev]
       IN newer[victim] = {s \in Spaces : asid[s] # Invalid} \ {victim}
=============================================================================
