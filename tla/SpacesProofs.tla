----------------------------- MODULE SpacesProofs -----------------------------
(***************************************************************************)
(* The address spaces of module Spaces, for every number of threads,        *)
(* spaces, frames and UTCB locations.  What the thread counts say does not  *)
(* depend on where UTCBs are; what the UTCB pages say is proved for the     *)
(* system in which a thread is activated with a UTCB location ("unset" is   *)
(* not in Env): activation without one breaks it.                           *)
(***************************************************************************)
EXTENDS Spaces, FiniteSetTheorems, TLAPS

(***************************************************************************)
(* The invariant of the thread counts.  A space specifier names a thread by *)
(* its id: the id of a thread that does not exist is nil.                   *)
(***************************************************************************)
IdsNameThreads == \A t \in Tcbs : id[t] # Null => exists(t)

CountInv == TypeOK /\ IdsNameThreads /\ SpaceCounted

(***************************************************************************)
(* The invariant of the UTCB pages.  A space_t that kmem hands out is       *)
(* empty, and the pages a space maps lie in its UTCB area, where            *)
(* release_kernel_mapping finds all of them.                                *)
(***************************************************************************)
FreshSpaces == \A s \in Spaces \ live : area[s] = {} /\ ptab[s] = NoPages
PagesInArea == \A s \in Spaces, p \in Pages :
                 ptab[s][p] # Null => \E l \in area[s] : p = PageOf(l)

PageInv == FreshSpaces /\ PagesInArea /\ UtcbPagesExact /\ UtcbInArea

-----------------------------------------------------------------------------
(* How a thread enters and leaves a space. *)

\* Members is a finite set: there are finitely many threads.
LEMMA MembersFinite ==
  ASSUME NEW s
  PROVE  IsFiniteSet(Members(s))
BY SpacesAssumption, FS_Subset DEF Members

\* create_inactive and add_tcb keep the counts: the new thread is counted in
\* its space and nowhere else.
LEMMA CreatedCounts ==
  ASSUME CountInv, NEW d \in Tcbs, NEW v \in Versions, NEW s \in Spaces,
         NEW l \in Locations \cup {Unset}, ~exists(d), Created(d, v, s, l)
  PROVE  SpaceCounted' /\ IdsNameThreads'
<1>1. space[d] = Null /\ Null \notin Spaces /\ Null \notin Versions
  BY SpacesAssumption DEF exists
<1>2. \A r \in Spaces : Members(r)' = IF r = s THEN Members(r) \cup {d} ELSE Members(r)
  BY <1>1 DEF Members, Created, CountInv, TypeOK
<1>3. d \notin Members(s)
  BY <1>1 DEF Members
<1>4. Cardinality(Members(s) \cup {d}) = Cardinality(Members(s)) + 1
  BY <1>3, MembersFinite, FS_AddElement
<1>5. \A r \in Spaces : count'[r] = IF r = s THEN count[r] + 1 ELSE count[r]
  BY DEF Created, add_tcb, CountInv, TypeOK
<1>6. \A r \in Spaces : count'[r] = Cardinality(Members(r)')
  BY <1>2, <1>4, <1>5 DEF CountInv, SpaceCounted
<1>7. \A r \in Spaces : r \in live' <=> Members(r)' # {}
  BY <1>2 DEF Created, CountInv, SpaceCounted
<1>8. SpaceCounted'
  BY <1>6, <1>7 DEF SpaceCounted
<1>9. IdsNameThreads'
  BY <1>1 DEF Created, CountInv, TypeOK, IdsNameThreads, exists
<1> QED
  BY <1>8, <1>9

\* The last thread of a space is alone in it.
LEMMA LastThreadAlone ==
  ASSUME CountInv, NEW d \in Tcbs, exists(d)
  PROVE  LastThread(space[d]) <=> Members(space[d]) \ {d} = {}
<1> DEFINE s == space[d]
<1>1. s \in Spaces /\ d \in Members(s)
  BY DEF exists, CountInv, TypeOK, Members
<1>2. IsFiniteSet(Members(s) \ {d}) /\ Cardinality(Members(s) \ {d}) = Cardinality(Members(s)) - 1
  BY <1>1, MembersFinite, FS_RemoveElement
<1> QED
  BY <1>1, <1>2, FS_EmptySet DEF LastThread, CountInv, SpaceCounted

\* The thread delete_tcb takes out of its space was counted there, and the
\* space that goes is the one without a thread left.
LEMMA DeletedCounts ==
  ASSUME CountInv, NEW c \in Tcbs, NEW d \in Tcbs, Delete(c, d)
  PROVE  SpaceCounted' /\ IdsNameThreads'
<1> DEFINE s == space[d]
<1>1. s \in Spaces /\ Null \notin Spaces
  BY SpacesAssumption DEF Delete, exists, CountInv, TypeOK
<1>2. \A r \in Spaces : Members(r)' = IF r = s THEN Members(r) \ {d} ELSE Members(r)
  BY <1>1 DEF Members, Delete, CountInv, TypeOK
<1>3. d \in Members(s)
  BY DEF Members
<1>4. Cardinality(Members(s) \ {d}) = Cardinality(Members(s)) - 1
  BY <1>3, MembersFinite, FS_RemoveElement
<1>5. \A r \in Spaces : count'[r] = IF r = s THEN count[r] - 1 ELSE count[r]
  BY <1>1 DEF Delete, CountInv, TypeOK
<1>6. \A r \in Spaces : count'[r] = Cardinality(Members(r)')
  BY <1>2, <1>4, <1>5 DEF CountInv, SpaceCounted
<1>7. LastThread(s) <=> Members(s) \ {d} = {}
  BY LastThreadAlone DEF Delete
<1>8. live' = IF LastThread(s) THEN live \ {s} ELSE live
  BY DEF Delete, FreeSpace
<1>9. \A r \in Spaces : r \in live' <=> Members(r)' # {}
  BY <1>1, <1>2, <1>3, <1>7, <1>8 DEF CountInv, SpaceCounted
<1>10. SpaceCounted'
  BY <1>6, <1>9 DEF SpaceCounted
<1>11. IdsNameThreads'
  BY DEF Delete, CountInv, TypeOK, IdsNameThreads, exists
<1> QED
  BY <1>10, <1>11

\* A call that moves no thread leaves the counts alone.
LEMMA UnmovedCounts ==
  ASSUME SpaceCounted, UNCHANGED <<space, live, count>>
  PROVE  SpaceCounted'
BY DEF SpaceCounted, Members
-----------------------------------------------------------------------------
(* Types. *)

\* The page of every location a thread can have is a page of its space.
LEMMA PageOfType ==
  ASSUME NEW l \in Locations \cup {Null}
  PROVE  PageOf(l) \in Pages
BY DEF Pages

\* The thread a space specifier names is in a space.
LEMMA NamedSpace ==
  ASSUME CountInv, NEW e \in Tcbs, NEW w \in Versions, id[e] = w
  PROVE  space[e] \in Spaces
BY SpacesAssumption DEF CountInv, TypeOK, IdsNameThreads, exists

\* allocate_utcb maps a frame at a page of the space.
LEMMA AllocateType ==
  ASSUME TypeOK, NEW s \in Spaces, NEW l \in Locations \cup {Null}, NEW f \in Frames,
         allocate_utcb(s, l, f)
  PROVE  taken' \subseteq Frames /\ ptab' \in [Spaces -> [Pages -> Frames \cup {Null}]]
<1>1. CASE UNCHANGED <<taken, ptab>>
  BY <1>1 DEF TypeOK
<1>2. CASE taken' = taken \cup {f} /\ ptab' = [ptab EXCEPT ![s][PageOf(l)] = f]
  BY <1>2, PageOfType DEF TypeOK
<1> QED
  BY <1>1, <1>2 DEF allocate_utcb

\* Every call of SYS_THREAD_CONTROL and SYS_SPACE_CONTROL keeps the types.
LEMMA CreatedType ==
  ASSUME TypeOK, NEW d \in Tcbs, NEW v \in Versions, NEW s \in Spaces,
         NEW l \in Locations \cup {Unset}, Created(d, v, s, l)
  PROVE  /\ id' \in [Tcbs -> Versions \cup {Null}]
         /\ location' \in [Tcbs -> Locations \cup {Null}]
         /\ space' \in [Tcbs -> Spaces \cup {Null}]
         /\ count' \in [Spaces -> Int]
         /\ live' \subseteq Spaces
         /\ area' \in [Spaces -> Areas \cup {{}}]
BY DEF TypeOK, Created, add_tcb

\* The location a thread ends up with is one of its space, or none.
LEMMA NewLocationType ==
  ASSUME TypeOK, NEW d \in Tcbs, NEW l \in Locations \cup {Unset}
  PROVE  NewLocation(d, l) \in Locations \cup {Null}
BY DEF TypeOK, NewLocation

LEMMA DeleteType ==
  ASSUME CountInv, NEW c \in Tcbs, NEW d \in Tcbs, Delete(c, d)
  PROVE  TypeOK'
<1> DEFINE s == space[d]
<1>1. s \in Spaces
  BY DEF Delete, exists, CountInv, TypeOK
<1>2. /\ id' \in [Tcbs -> Versions \cup {Null}]
      /\ space' \in [Tcbs -> Spaces \cup {Null}]
      /\ location' \in [Tcbs -> Locations \cup {Null}]
      /\ utcb' \in [Tcbs -> Frames \cup {Null}]
      /\ count' \in [Spaces -> Int]
      /\ asserts' \subseteq {"remove_tcb", "activate"}
  BY <1>1 DEF Delete, Failed, CountInv, TypeOK
<1>3. NoPages \in [Pages -> Frames \cup {Null}]
  BY DEF NoPages
<1>4. /\ live' \subseteq Spaces /\ taken' \subseteq Frames
      /\ area' \in [Spaces -> Areas \cup {{}}]
      /\ ptab' \in [Spaces -> [Pages -> Frames \cup {Null}]]
  <2>1. CASE FreeSpace(s)
    BY <1>1, <1>3, <2>1 DEF FreeSpace, CountInv, TypeOK
  <2>2. CASE UNCHANGED <<live, ptab, area, taken>>
    BY <2>2 DEF CountInv, TypeOK
  <2> QED
    BY <2>1, <2>2 DEF Delete
<1> QED
  BY <1>2, <1>4 DEF TypeOK

-----------------------------------------------------------------------------
(* The counts, call by call. *)

LEMMA CountsCreateSpace ==
  ASSUME CountInv, NEW c \in Tcbs, NEW d \in Tcbs, NEW v \in Versions,
         NEW l \in Locations \cup {Unset}, CreateSpace(c, d, v, l)
  PROVE  CountInv'
<1>1. PICK s \in Spaces \ live : Created(d, v, s, l)
  BY DEF CreateSpace
<1>2. SpaceCounted' /\ IdsNameThreads'
  BY <1>1, CreatedCounts DEF CreateSpace
<1>3. TypeOK'
  BY <1>1, CreatedType DEF CreateSpace, CountInv, TypeOK
<1> QED
  BY <1>2, <1>3 DEF CountInv

LEMMA CountsCreateInactive ==
  ASSUME CountInv, NEW c \in Tcbs, NEW d \in Tcbs, NEW v \in Versions, NEW e \in Tcbs,
         NEW w \in Versions, NEW l \in Locations \cup {Unset},
         CreateInactive(c, d, v, e, w, l)
  PROVE  CountInv'
<1>1. space[e] \in Spaces /\ Created(d, v, space[e], l)
  BY NamedSpace DEF CreateInactive
<1>2. SpaceCounted' /\ IdsNameThreads'
  BY <1>1, CreatedCounts DEF CreateInactive
<1>3. TypeOK'
  BY <1>1, CreatedType DEF CreateInactive, CountInv, TypeOK
<1> QED
  BY <1>2, <1>3 DEF CountInv

LEMMA CountsCreateActive ==
  ASSUME CountInv, NEW c \in Tcbs, NEW d \in Tcbs, NEW v \in Versions, NEW e \in Tcbs,
         NEW w \in Versions, NEW l \in Locations \cup {Unset},
         CreateActive(c, d, v, e, w, l)
  PROVE  CountInv'
<1>1. space[e] \in Spaces /\ Created(d, v, space[e], l)
  BY NamedSpace DEF CreateActive
<1>2. SpaceCounted' /\ IdsNameThreads'
  BY <1>1, CreatedCounts DEF CreateActive
<1>3. PICK f \in Frames : allocate_utcb(space[e], l, f) /\ utcb' = [utcb EXCEPT ![d] = f]
  BY DEF CreateActive
<1>4. taken' \subseteq Frames /\ ptab' \in [Spaces -> [Pages -> Frames \cup {Null}]]
  BY <1>1, <1>3, AllocateType DEF CreateActive, CountInv
<1>5. utcb' \in [Tcbs -> Frames \cup {Null}] /\ asserts' \subseteq {"remove_tcb", "activate"}
  BY <1>3 DEF CreateActive, CountInv, TypeOK
<1>6. TypeOK'
  BY <1>1, <1>4, <1>5, CreatedType DEF CountInv, TypeOK
<1> QED
  BY <1>2, <1>6 DEF CountInv

\* Modification, refused or not, and SYS_SPACE_CONTROL move no thread.
LEMMA CountsModify ==
  ASSUME CountInv, NEW c \in Tcbs, NEW d \in Tcbs, NEW v \in Versions, NEW e \in Tcbs,
         NEW w \in Versions, NEW l \in Locations \cup {Unset},
         ModifyRefused(c, d, e, w, l) \/ Modify(c, d, v, e, w, l)
  PROVE  CountInv'
<1>1. SpaceCounted'
  BY UnmovedCounts DEF ModifyRefused, Modify, CountInv
<1>2. IdsNameThreads'
  BY DEF ModifyRefused, Modify, CountInv, TypeOK, IdsNameThreads, exists
<1>3. TypeOK'
  BY NewLocationType DEF ModifyRefused, Modify, CountInv, TypeOK
<1> QED
  BY <1>1, <1>2, <1>3 DEF CountInv

LEMMA CountsActivate ==
  ASSUME CountInv, NEW c \in Tcbs, NEW d \in Tcbs, NEW v \in Versions, NEW e \in Tcbs,
         NEW w \in Versions, NEW l \in Locations \cup {Unset},
         Activate(c, d, v, e, w, l)
  PROVE  CountInv'
<1>1. SpaceCounted'
  BY UnmovedCounts DEF Activate, CountInv
<1>2. IdsNameThreads'
  BY DEF Activate, CountInv, TypeOK, IdsNameThreads, exists
<1>3. space[d] \in Spaces
  BY DEF Activate, exists, CountInv, TypeOK
<1>4. NewLocation(d, l) \in Locations \cup {Null}
  BY NewLocationType DEF CountInv
<1>5. PICK f \in Frames : /\ allocate_utcb(space[d], NewLocation(d, l), f)
                          /\ utcb' = [utcb EXCEPT ![d] = f]
  BY DEF Activate
<1>6. taken' \subseteq Frames /\ ptab' \in [Spaces -> [Pages -> Frames \cup {Null}]]
  BY <1>3, <1>4, <1>5, AllocateType DEF CountInv
<1>7. utcb' \in [Tcbs -> Frames \cup {Null}] /\ asserts' \subseteq {"remove_tcb", "activate"}
  BY <1>5 DEF Activate, Failed, CountInv, TypeOK
<1>8. TypeOK'
  BY <1>4, <1>6, <1>7 DEF Activate, CountInv, TypeOK
<1> QED
  BY <1>1, <1>2, <1>8 DEF CountInv

LEMMA CountsSpaceControl ==
  ASSUME CountInv, NEW c \in Tcbs, NEW e \in Tcbs, NEW w \in Versions, NEW a \in Areas,
         SpaceControl(c, e, w, a)
  PROVE  CountInv'
<1>1. space[e] \in Spaces
  BY NamedSpace DEF SpaceControl
<1>2. TypeOK'
  BY <1>1 DEF SpaceControl, CountInv, TypeOK
<1>3. SpaceCounted'
  BY UnmovedCounts DEF SpaceControl, CountInv
<1>4. IdsNameThreads'
  BY DEF SpaceControl, CountInv, IdsNameThreads, exists
<1> QED
  BY <1>2, <1>3, <1>4 DEF CountInv

\* The root task is counted in its space.
LEMMA CountsInit ==
  ASSUME Init
  PROVE  CountInv
<1>1. Members(RootSpace) = {RootTask} /\ \A s \in Spaces \ {RootSpace} : Members(s) = {}
  BY SpacesAssumption DEF Init, Members
<1>2. SpaceCounted
  <2>1. Cardinality({RootTask}) = 1 /\ Cardinality({}) = 0
    BY FS_Singleton, FS_EmptySet
  <2>2. live = {RootSpace} /\ count = [s \in Spaces |-> IF s = RootSpace THEN 1 ELSE 0]
    BY DEF Init
  <2> QED
    BY <1>1, <2>1, <2>2, SpacesAssumption DEF SpaceCounted
<1>3. IdsNameThreads
  BY SpacesAssumption DEF Init, IdsNameThreads, exists
<1>4. TypeOK
  BY SpacesAssumption DEF Init, TypeOK
<1> QED
  BY <1>2, <1>3, <1>4 DEF CountInv

\* Every step keeps the counts.
LEMMA CountsNext ==
  ASSUME CountInv, [Next]_vars
  PROVE  CountInv'
<1>1. CASE UNCHANGED vars
  BY <1>1 DEF vars, CountInv, TypeOK, IdsNameThreads, exists, SpaceCounted, Members
<1>2. CASE Next
  <2>1. PICK c \in Tcbs, d \in Tcbs :
          ThreadControl(c, d) \/ \E w \in Versions, a \in Areas : SpaceControl(c, d, w, a)
    BY <1>2 DEF Next
  <2>2. CASE \E w \in Versions, a \in Areas : SpaceControl(c, d, w, a)
    BY <2>2, CountsSpaceControl
  <2>3. CASE Delete(c, d)
    BY <2>3, DeletedCounts, DeleteType DEF CountInv
  <2>4. CASE \E v \in Versions, l \in Locations \cup {Unset} : CreateSpace(c, d, v, l)
    BY <2>4, CountsCreateSpace
  <2>5. ASSUME NEW v \in Versions, NEW l \in Locations \cup {Unset}, NEW e \in Tcbs,
               NEW w \in Versions,
               \/ CreateInactive(c, d, v, e, w, l)
               \/ CreateActive(c, d, v, e, w, l)
               \/ ModifyRefused(c, d, e, w, l)
               \/ Modify(c, d, v, e, w, l)
               \/ Activate(c, d, v, e, w, l)
        PROVE  CountInv'
    BY <2>5, CountsCreateInactive, CountsCreateActive, CountsModify, CountsActivate
  <2> QED
    BY <2>1, <2>2, <2>3, <2>4, <2>5 DEF ThreadControl
<1> QED
  BY <1>1, <1>2

(***************************************************************************)
(* A space_t is freed by delete_tcb of its last thread and no other way:    *)
(* its thread_count is the number of its threads, whatever calls are made   *)
(* and wherever their UTCBs are.                                            *)
(***************************************************************************)
THEOREM SpacesAreCounted == Spec => []SpaceCounted
<1>1. Init => CountInv
  BY CountsInit
<1>2. CountInv /\ [Next]_vars => CountInv'
  BY CountsNext
<1>3. CountInv => SpaceCounted
  BY DEF CountInv
<1> QED
  BY <1>1, <1>2, <1>3, PTL DEF Spec
-----------------------------------------------------------------------------
(* The UTCB pages. *)

\* allocate_utcb at a location of the area: the page it maps is new, and the
\* pages that were mapped stay.
LEMMA AllocatePages ==
  ASSUME CountInv, PageInv, NEW s \in live, NEW l \in area[s], NEW f \in Frames,
         allocate_utcb(s, l, f), UNCHANGED <<live, area>>
  PROVE  /\ FreshSpaces' /\ PagesInArea' /\ UtcbPagesExact'
         /\ ptab'[s][PageOf(l)] = f
         /\ \A r \in Spaces, p \in Pages : ptab[r][p] # Null => ptab'[r][p] = ptab[r][p]
<1>1. s \in Spaces /\ l \in Locations /\ PageOf(l) \in Pages
  BY PageOfType, SpacesAssumption DEF CountInv, TypeOK
<1>2. Null \notin Frames
  BY SpacesAssumption
<1>3. CASE ptab[s][PageOf(l)] = f /\ UNCHANGED <<taken, ptab>>
  BY <1>3 DEF PageInv, FreshSpaces, PagesInArea, UtcbPagesExact
<1>4. CASE /\ ptab[s][PageOf(l)] = Null /\ f \in Frames \ taken
           /\ taken' = taken \cup {f}
           /\ ptab' = [ptab EXCEPT ![s][PageOf(l)] = f]
  <2>1. \A r \in Spaces, p \in Pages :
          ptab'[r][p] = IF r = s /\ p = PageOf(l) THEN f ELSE ptab[r][p]
    BY <1>1, <1>4 DEF CountInv, TypeOK
  <2>2. \A r \in Spaces, p \in Pages : ptab[r][p] # Null => ptab'[r][p] = ptab[r][p]
    BY <1>4, <2>1
  <2>3. FreshSpaces'
    BY <1>1, <1>4 DEF PageInv, FreshSpaces, NoPages, CountInv, TypeOK
  <2>4. PagesInArea'
    BY <2>1 DEF PageInv, PagesInArea
  <2>5. \A r \in Spaces, p \in Pages : ptab[r][p] # f
    BY <1>2, <1>4 DEF PageInv, UtcbPagesExact, FreshSpaces, NoPages
  <2>6. UtcbPagesExact'
    <3>1. taken' = {g \in Frames : \E r \in live', p \in Pages : ptab'[r][p] = g}
      <4>1. ASSUME NEW g \in taken'
            PROVE  g \in Frames /\ \E r \in live', p \in Pages : ptab'[r][p] = g
        BY <1>1, <1>2, <1>4, <2>1, <2>2, <4>1 DEF PageInv, UtcbPagesExact, CountInv, TypeOK
      <4>2. ASSUME NEW g \in Frames, NEW r \in live', NEW p \in Pages, ptab'[r][p] = g
            PROVE  g \in taken'
        BY <1>1, <1>4, <2>1, <4>2 DEF PageInv, UtcbPagesExact, CountInv, TypeOK
      <4> QED
        BY <4>1, <4>2
    <3>2. \A r, q \in Spaces, p, o \in Pages :
            (ptab'[r][p] = ptab'[q][o] /\ ptab'[r][p] # Null) => r = q /\ p = o
      BY <2>1, <2>5 DEF PageInv, UtcbPagesExact
    <3> QED
      BY <3>1, <3>2 DEF UtcbPagesExact
  <2>7. ptab'[s][PageOf(l)] = f
    BY <1>1, <2>1
  <2> QED
    BY <2>2, <2>3, <2>4, <2>6, <2>7
<1> QED
  BY <1>3, <1>4 DEF allocate_utcb

\* free() of a space: release_kernel_mapping gives back exactly the frames the
\* space maps.
LEMMA FreedPages ==
  ASSUME CountInv, PageInv, NEW s \in Spaces, FreeSpace(s)
  PROVE  FreshSpaces' /\ PagesInArea' /\ UtcbPagesExact'
<1>1. Null \notin Frames
  BY SpacesAssumption
<1>2. \A r \in Spaces : /\ ptab'[r] = IF r = s THEN NoPages ELSE ptab[r]
                        /\ area'[r] = IF r = s THEN {} ELSE area[r]
  BY DEF FreeSpace, CountInv, TypeOK
<1>3. \A p \in Pages : NoPages[p] = Null
  BY DEF NoPages
<1>4. FreshSpaces'
  BY <1>2 DEF FreeSpace, PageInv, FreshSpaces
<1>5. PagesInArea'
  BY <1>2, <1>3 DEF PageInv, PagesInArea
<1>6. \A g : g \in Released(s) <=> \E p \in Pages : g = ptab[s][p] /\ g # Null
  <2>1. ASSUME NEW g, g \in Released(s)
        PROVE  \E p \in Pages : g = ptab[s][p] /\ g # Null
    <3>1. PICK l \in area[s] : g = ptab[s][PageOf(l)] /\ g # Null
      BY <2>1 DEF Released
    <3>2. l \in Locations
      BY SpacesAssumption DEF CountInv, TypeOK
    <3> QED
      BY <3>1, <3>2, PageOfType
  <2>2. ASSUME NEW g, NEW p \in Pages, g = ptab[s][p], g # Null
        PROVE  g \in Released(s)
    BY <2>2 DEF Released, PageInv, PagesInArea
  <2> QED
    BY <2>1, <2>2
<1>7. taken' = {g \in Frames : \E r \in live', p \in Pages : ptab'[r][p] = g}
  <2>1. ASSUME NEW g \in taken'
        PROVE  g \in Frames /\ \E r \in live', p \in Pages : ptab'[r][p] = g
    <3>1. g \in taken /\ g \notin Released(s) /\ g \in Frames
      BY <2>1 DEF FreeSpace, CountInv, TypeOK
    <3>2. PICK r \in live, p \in Pages : ptab[r][p] = g
      BY <3>1 DEF PageInv, UtcbPagesExact
    <3>3. r # s
      BY <1>1, <1>6, <3>1, <3>2
    <3> QED
      BY <1>2, <3>1, <3>2, <3>3 DEF FreeSpace, CountInv, TypeOK
  <2>2. ASSUME NEW g \in Frames, NEW r \in live', NEW p \in Pages, ptab'[r][p] = g
        PROVE  g \in taken'
    <3>1. r \in live /\ r # s /\ r \in Spaces
      BY DEF FreeSpace, CountInv, TypeOK
    <3>2. ptab[r][p] = g /\ g # Null
      BY <1>1, <1>2, <2>2, <3>1
    <3>3. g \in taken
      BY <3>1, <3>2 DEF PageInv, UtcbPagesExact
    <3>4. g \notin Released(s)
      BY <1>6, <3>1, <3>2 DEF PageInv, UtcbPagesExact
    <3> QED
      BY <3>3, <3>4 DEF FreeSpace
  <2> QED
    BY <2>1, <2>2
<1>8. \A r, q \in Spaces, p, o \in Pages :
        (ptab'[r][p] = ptab'[q][o] /\ ptab'[r][p] # Null) => r = q /\ p = o
  BY <1>2, <1>3 DEF PageInv, UtcbPagesExact
<1> QED
  BY <1>4, <1>5, <1>7, <1>8 DEF UtcbPagesExact

\* Calls that map and unmap nothing keep the pages; a space that becomes live
\* has none.
LEMMA KeptPages ==
  ASSUME CountInv, PageInv, live \subseteq live', live' \subseteq Spaces,
         UNCHANGED <<area, ptab, taken>>
  PROVE  FreshSpaces' /\ PagesInArea' /\ UtcbPagesExact'
<1>1. FreshSpaces' /\ PagesInArea'
  BY DEF PageInv, FreshSpaces, PagesInArea
<1>2. \A s \in live' \ live, p \in Pages : ptab[s][p] = Null
  BY DEF PageInv, FreshSpaces, NoPages
<1>3. Null \notin Frames
  BY SpacesAssumption
<1>4. UtcbPagesExact'
  BY <1>2, <1>3 DEF PageInv, UtcbPagesExact
<1> QED
  BY <1>1, <1>4
\* A space with a thread in it is live.
LEMMA LiveSpace ==
  ASSUME CountInv, NEW t \in Tcbs, exists(t)
  PROVE  space[t] \in live
BY DEF CountInv, TypeOK, SpaceCounted, Members, exists

\* A thread that does not exist has no UTCB.
LEMMA NoUtcb ==
  ASSUME PageInv, NEW t \in Tcbs, ~exists(t)
  PROVE  utcb[t] = Null
BY DEF PageInv, UtcbInArea, is_activated

\* The threads other than d keep their UTCBs when the mapped pages stay.
LEMMA OtherUtcbs ==
  ASSUME CountInv, PageInv, NEW d \in Tcbs,
         UNCHANGED area,
         \A r \in Spaces, p \in Pages : ptab[r][p] # Null => ptab'[r][p] = ptab[r][p],
         \A t \in Tcbs \ {d} : /\ space'[t] = space[t] /\ utcb'[t] = utcb[t]
                               /\ location'[t] = location[t],
         is_activated(d)' => /\ exists(d)'
                             /\ location'[d] \in area[space'[d]]
                             /\ ptab'[space'[d]][PageOf(location'[d])] = utcb'[d]
  PROVE  UtcbInArea'
<1>1. SUFFICES ASSUME NEW t \in Tcbs \ {d}, is_activated(t)
               PROVE  /\ exists(t)'
                      /\ location'[t] \in area'[space'[t]]
                      /\ ptab'[space'[t]][PageOf(location'[t])] = utcb'[t]
  BY DEF UtcbInArea, is_activated
<1>2. /\ exists(t) /\ location[t] \in area[space[t]]
      /\ ptab[space[t]][PageOf(location[t])] = utcb[t] /\ utcb[t] # Null
  BY <1>1 DEF PageInv, UtcbInArea, is_activated
<1>3. space[t] \in Spaces /\ PageOf(location[t]) \in Pages
  BY <1>2, PageOfType DEF CountInv, TypeOK, exists
<1> QED
  BY <1>2, <1>3 DEF exists

LEMMA PagesDelete ==
  ASSUME CountInv, PageInv, NEW c \in Tcbs, NEW d \in Tcbs, Delete(c, d)
  PROVE  PageInv'
<1> DEFINE s == space[d]
<1>1. s \in Spaces
  BY DEF Delete, exists, CountInv, TypeOK
<1>2. /\ \A t \in Tcbs \ {d} : /\ space'[t] = space[t] /\ utcb'[t] = utcb[t]
                                /\ location'[t] = location[t]
      /\ ~is_activated(d)'
  BY DEF Delete, is_activated, CountInv, TypeOK
<1>3. CASE LastThread(s)
  <2>1. FreeSpace(s)
    BY <1>3 DEF Delete
  <2>2. \A t \in Tcbs \ {d} : space[t] # s
    BY <1>3, LastThreadAlone DEF Delete, Members
  <2>3. \A t \in Tcbs \ {d} : exists(t) =>
          area'[space[t]] = area[space[t]] /\ ptab'[space[t]] = ptab[space[t]]
    BY <1>1, <2>1, <2>2 DEF FreeSpace, CountInv, TypeOK, exists
  <2>4. UtcbInArea'
    BY <1>2, <2>3 DEF PageInv, UtcbInArea, is_activated, exists
  <2> QED
    BY <1>1, <2>1, <2>4, FreedPages DEF PageInv
<1>4. CASE ~LastThread(s)
  <2>1. UNCHANGED <<live, ptab, area, taken>>
    BY <1>4 DEF Delete
  <2>2. FreshSpaces' /\ PagesInArea' /\ UtcbPagesExact'
    BY <2>1, KeptPages DEF CountInv, TypeOK
  <2>3. UtcbInArea'
    BY <1>2, <2>1, OtherUtcbs
  <2> QED
    BY <2>2, <2>3 DEF PageInv
<1> QED
  BY <1>3, <1>4

\* A new inactive thread, in a space of its own or in that of another one.
LEMMA PagesCreated ==
  ASSUME CountInv, PageInv, NEW d \in Tcbs, NEW v \in Versions, NEW s \in Spaces,
         NEW l \in Locations \cup {Unset}, ~exists(d), Created(d, v, s, l),
         UNCHANGED <<utcb, ptab, taken>>
  PROVE  PageInv'
<1>1. FreshSpaces' /\ PagesInArea' /\ UtcbPagesExact'
  BY KeptPages DEF Created, CountInv, TypeOK
<1>2. ~is_activated(d)'
  BY NoUtcb DEF is_activated
<1>3. \A t \in Tcbs \ {d} : /\ space'[t] = space[t] /\ utcb'[t] = utcb[t]
                            /\ location'[t] = location[t]
  BY DEF Created, CountInv, TypeOK
<1>4. UtcbInArea'
  BY <1>2, <1>3, OtherUtcbs DEF Created
<1> QED
  BY <1>1, <1>4 DEF PageInv

LEMMA PagesCreateActive ==
  ASSUME CountInv, PageInv, NEW c \in Tcbs, NEW d \in Tcbs, NEW v \in Versions,
         NEW e \in Tcbs, NEW w \in Versions, NEW l \in Locations \cup {Unset},
         CreateActive(c, d, v, e, w, l)
  PROVE  PageInv'
<1> DEFINE s == space[e]
<1>1. s \in Spaces /\ s \in live /\ s # Null
  BY NamedSpace, LiveSpace, SpacesAssumption DEF CreateActive, exists
<1>2. l # Unset /\ l \in area[s] /\ Created(d, v, s, l)
  BY DEF CreateActive, check_utcb_location
<1>3. PICK f \in Frames : allocate_utcb(s, l, f) /\ utcb' = [utcb EXCEPT ![d] = f]
  BY DEF CreateActive
<1>4. UNCHANGED <<live, area>>
  BY <1>1, <1>2 DEF Created
<1>5. /\ FreshSpaces' /\ PagesInArea' /\ UtcbPagesExact'
      /\ ptab'[s][PageOf(l)] = f
      /\ \A r \in Spaces, p \in Pages : ptab[r][p] # Null => ptab'[r][p] = ptab[r][p]
  BY <1>1, <1>2, <1>3, <1>4, AllocatePages
<1>6. /\ space'[d] = s /\ location'[d] = l /\ utcb'[d] = f
      /\ \A t \in Tcbs \ {d} : /\ space'[t] = space[t] /\ utcb'[t] = utcb[t]
                                /\ location'[t] = location[t]
  BY <1>2, <1>3 DEF Created, CountInv, TypeOK
<1>7. UtcbInArea'
  <2>1. exists(d)'
    BY <1>1, <1>6 DEF exists
  <2> QED
    BY <1>2, <1>4, <1>5, <1>6, <2>1, OtherUtcbs
<1> QED
  BY <1>5, <1>7 DEF PageInv

\* A new location is for inactive threads only.
LEMMA PagesModify ==
  ASSUME CountInv, PageInv, NEW c \in Tcbs, NEW d \in Tcbs, NEW v \in Versions,
         NEW e \in Tcbs, NEW w \in Versions, NEW l \in Locations \cup {Unset},
         ModifyRefused(c, d, e, w, l) \/ Modify(c, d, v, e, w, l)
  PROVE  PageInv'
<1>1. UNCHANGED <<space, utcb, live, area, ptab, taken>>
  BY DEF ModifyRefused, Modify
<1>2. FreshSpaces' /\ PagesInArea' /\ UtcbPagesExact'
  BY <1>1, KeptPages DEF CountInv, TypeOK
<1>3. \A t \in Tcbs : is_activated(t) => location'[t] = location[t]
  BY DEF ModifyRefused, Modify, Relocates, NewLocation, CountInv, TypeOK
<1>4. UtcbInArea'
  BY <1>1, <1>3 DEF PageInv, UtcbInArea, is_activated, exists
<1> QED
  BY <1>2, <1>4 DEF PageInv

\* Activation at a location that is given.
LEMMA PagesActivate ==
  ASSUME "unset" \notin Env, CountInv, PageInv, NEW c \in Tcbs, NEW d \in Tcbs,
         NEW v \in Versions, NEW e \in Tcbs, NEW w \in Versions,
         NEW l \in Locations \cup {Unset}, Activate(c, d, v, e, w, l)
  PROVE  PageInv'
<1> DEFINE s == space[d]
<1>1. s \in Spaces /\ s \in live /\ exists(d)
  BY LiveSpace DEF Activate, exists, CountInv, TypeOK
<1>2. l # Unset /\ l \in area[s] /\ NewLocation(d, l) = l
  BY DEF Activate, check_utcb_location, NewLocation
<1>3. PICK f \in Frames : allocate_utcb(s, l, f) /\ utcb' = [utcb EXCEPT ![d] = f]
  BY <1>2 DEF Activate
<1>4. UNCHANGED <<live, area, space>>
  BY DEF Activate
<1>5. /\ FreshSpaces' /\ PagesInArea' /\ UtcbPagesExact'
      /\ ptab'[s][PageOf(l)] = f
      /\ \A r \in Spaces, p \in Pages : ptab[r][p] # Null => ptab'[r][p] = ptab[r][p]
  BY <1>1, <1>2, <1>3, <1>4, AllocatePages
<1>6. /\ location'[d] = l /\ utcb'[d] = f
      /\ \A t \in Tcbs \ {d} : /\ space'[t] = space[t] /\ utcb'[t] = utcb[t]
                                /\ location'[t] = location[t]
  BY <1>2, <1>3 DEF Activate, CountInv, TypeOK
<1>7. UtcbInArea'
  <2>1. exists(d)' /\ space'[d] = s
    BY <1>1, <1>4 DEF exists
  <2> QED
    BY <1>2, <1>4, <1>5, <1>6, <2>1, OtherUtcbs
<1> QED
  BY <1>5, <1>7 DEF PageInv

\* The space that is initialized has no pages and no active threads yet.
LEMMA PagesSpaceControl ==
  ASSUME CountInv, PageInv, NEW c \in Tcbs, NEW e \in Tcbs, NEW w \in Versions,
         NEW a \in Areas, SpaceControl(c, e, w, a)
  PROVE  PageInv'
<1> DEFINE s == space[e]
<1>1. s \in Spaces /\ s \in live /\ area[s] = {}
  BY NamedSpace, LiveSpace, SpacesAssumption DEF SpaceControl, exists, is_initialized
<1>2. \A r \in Spaces : area'[r] = IF r = s THEN a ELSE area[r]
  BY <1>1 DEF SpaceControl, CountInv, TypeOK
<1>3. UNCHANGED <<space, utcb, location, live, ptab, taken>>
  BY DEF SpaceControl
<1>4. FreshSpaces'
  BY <1>1, <1>2, <1>3 DEF PageInv, FreshSpaces
<1>5. PagesInArea'
  BY <1>1, <1>2, <1>3 DEF PageInv, PagesInArea
<1>6. UtcbPagesExact'
  BY <1>3 DEF PageInv, UtcbPagesExact
<1>7. UtcbInArea'
  BY <1>1, <1>2, <1>3 DEF PageInv, UtcbInArea, is_activated, exists, CountInv, TypeOK
<1> QED
  BY <1>4, <1>5, <1>6, <1>7 DEF PageInv

\* The root task's UTCB is the one page that is mapped.
LEMMA PagesInit ==
  ASSUME Init
  PROVE  PageInv
<1>1. PICK v \in Versions, a \in Areas, f \in Frames : \E l \in a :
        /\ space    = [t \in Tcbs |-> IF t = RootTask THEN RootSpace ELSE Null]
        /\ location = [t \in Tcbs |-> IF t = RootTask THEN l ELSE Null]
        /\ utcb     = [t \in Tcbs |-> IF t = RootTask THEN f ELSE Null]
        /\ live     = {RootSpace}
        /\ area     = [s \in Spaces |-> IF s = RootSpace THEN a ELSE {}]
        /\ ptab     = [s \in Spaces |-> [p \in Pages |-> IF s = RootSpace /\ p = PageOf(l)
                                                         THEN f ELSE Null]]
        /\ taken    = {f}
  BY DEF Init
<1>2. PICK l \in a :
        /\ space    = [t \in Tcbs |-> IF t = RootTask THEN RootSpace ELSE Null]
        /\ location = [t \in Tcbs |-> IF t = RootTask THEN l ELSE Null]
        /\ utcb     = [t \in Tcbs |-> IF t = RootTask THEN f ELSE Null]
        /\ live     = {RootSpace}
        /\ area     = [s \in Spaces |-> IF s = RootSpace THEN a ELSE {}]
        /\ ptab     = [s \in Spaces |-> [p \in Pages |-> IF s = RootSpace /\ p = PageOf(l)
                                                         THEN f ELSE Null]]
        /\ taken    = {f}
  BY <1>1
<1>3. l \in Locations /\ PageOf(l) \in Pages /\ RootSpace \in Spaces /\ Null \notin Spaces
        /\ Null \notin Frames
  BY PageOfType, SpacesAssumption
<1>4. \A s \in Spaces, p \in Pages :
        ptab[s][p] = IF s = RootSpace /\ p = PageOf(l) THEN f ELSE Null
  BY <1>2
<1>5. FreshSpaces
  BY <1>2 DEF FreshSpaces, NoPages
<1>6. PagesInArea
  BY <1>2, <1>3, <1>4 DEF PagesInArea
<1>7. UtcbPagesExact
  BY <1>2, <1>3, <1>4 DEF UtcbPagesExact
<1>8. UtcbInArea
  BY <1>2, <1>3, <1>4 DEF UtcbInArea, is_activated, exists
<1> QED
  BY <1>5, <1>6, <1>7, <1>8 DEF PageInv

\* Every step keeps the pages, when activations give a location.
LEMMA PagesNext ==
  ASSUME "unset" \notin Env, CountInv, PageInv, [Next]_vars
  PROVE  PageInv'
<1>1. CASE UNCHANGED vars
  BY <1>1 DEF vars, PageInv, FreshSpaces, PagesInArea, UtcbPagesExact, UtcbInArea,
              is_activated, exists
<1>2. CASE Next
  <2>1. PICK c \in Tcbs, d \in Tcbs :
          ThreadControl(c, d) \/ \E w \in Versions, a \in Areas : SpaceControl(c, d, w, a)
    BY <1>2 DEF Next
  <2>2. CASE \E w \in Versions, a \in Areas : SpaceControl(c, d, w, a)
    BY <2>2, PagesSpaceControl
  <2>3. CASE Delete(c, d)
    BY <2>3, PagesDelete
  <2>4. CASE \E v \in Versions, l \in Locations \cup {Unset} : CreateSpace(c, d, v, l)
    BY <2>4, PagesCreated DEF CreateSpace
  <2>5. ASSUME NEW v \in Versions, NEW l \in Locations \cup {Unset}, NEW e \in Tcbs,
               NEW w \in Versions, CreateInactive(c, d, v, e, w, l)
        PROVE  PageInv'
    BY <2>5, NamedSpace, PagesCreated DEF CreateInactive
  <2>6. ASSUME NEW v \in Versions, NEW l \in Locations \cup {Unset}, NEW e \in Tcbs,
               NEW w \in Versions,
               \/ CreateActive(c, d, v, e, w, l)
               \/ ModifyRefused(c, d, e, w, l)
               \/ Modify(c, d, v, e, w, l)
               \/ Activate(c, d, v, e, w, l)
        PROVE  PageInv'
    BY <2>6, PagesCreateActive, PagesModify, PagesActivate
  <2> QED
    BY <2>1, <2>2, <2>3, <2>4, <2>5, <2>6 DEF ThreadControl
<1> QED
  BY <1>1, <1>2

(***************************************************************************)
(* No UTCB page is leaked and none is shared: what kmem has handed out for  *)
(* UTCBs is what live spaces map, each frame at one place.  The invariant   *)
(* it rests on is PagesInArea: release_kernel_mapping looks for pages in    *)
(* the UTCB area only, and a thread activated outside of it would leave its *)
(* page behind; for that reason the theorem asks for activations with a     *)
(* UTCB location.                                                           *)
(***************************************************************************)
THEOREM UtcbPagesAreExact == ASSUME "unset" \notin Env PROVE Spec => []UtcbPagesExact
<1>1. Init => CountInv /\ PageInv
  BY CountsInit, PagesInit
<1>2. CountInv /\ PageInv /\ [Next]_vars => (CountInv /\ PageInv)'
  BY CountsNext, PagesNext
<1>3. PageInv => UtcbPagesExact
  BY DEF PageInv
<1> QED
  BY <1>1, <1>2, <1>3, PTL DEF Spec

(***************************************************************************)
(* The UTCB of every active thread lies in the UTCB area of its space, in   *)
(* the page mapped at its location: spaces that are freed and used again,   *)
(* threads that are moved while inactive and pages that are shared by       *)
(* several UTCBs never leave a thread with a page that is not its own.      *)
(***************************************************************************)
THEOREM UtcbsAreInTheirArea == ASSUME "unset" \notin Env PROVE Spec => []UtcbInArea
<1>1. Init => CountInv /\ PageInv
  BY CountsInit, PagesInit
<1>2. CountInv /\ PageInv /\ [Next]_vars => (CountInv /\ PageInv)'
  BY CountsNext, PagesNext
<1>3. PageInv => UtcbInArea
  BY DEF PageInv
<1> QED
  BY <1>1, <1>2, <1>3, PTL DEF Spec
(***************************************************************************)
(* No assertion of these calls fails: remove_tcb finds a thread to count    *)
(* down in the space of every thread, and activate a UTCB location that     *)
(* lies in the UTCB area.                                                   *)
(***************************************************************************)
THEOREM NoSpaceAssertionFails == ASSUME "unset" \notin Env PROVE Spec => [](asserts = {})
<1>1. Init => CountInv /\ asserts = {}
  BY CountsInit DEF Init
<1>2. CountInv /\ [Next]_vars => CountInv'
  BY CountsNext
<1>3. CountInv /\ asserts = {} /\ [Next]_vars => (asserts = {})'
  <2>0. SUFFICES ASSUME CountInv, asserts = {}, [Next]_vars
                 PROVE  asserts' = {}
    OBVIOUS
  <2>1. ASSUME NEW c \in Tcbs, NEW d \in Tcbs, Delete(c, d)
        PROVE  asserts' = {}
    <3>1. space[d] \in Spaces /\ d \in Members(space[d])
      BY <2>0, <2>1 DEF Delete, exists, CountInv, TypeOK, Members
    <3>2. count[space[d]] # 0
      BY <2>0, <3>1, MembersFinite, FS_EmptySet DEF CountInv, SpaceCounted
    <3> QED
      BY <2>0, <2>1, <3>2 DEF Delete, Failed
  <2>2. ASSUME NEW c \in Tcbs, NEW d \in Tcbs, NEW v \in Versions, NEW e \in Tcbs,
               NEW w \in Versions, NEW l \in Locations \cup {Unset},
               Activate(c, d, v, e, w, l)
        PROVE  asserts' = {}
    <3>1. l # Unset
      BY <2>2 DEF Activate
    <3>2. NewLocation(d, l) \in area[space[d]]
      BY <2>2, <3>1 DEF Activate, check_utcb_location, NewLocation
    <3> QED
      BY <2>0, <2>2, <3>2 DEF Activate, Failed
  <2>3. ASSUME NEW c \in Tcbs, NEW d \in Tcbs, ThreadControl(c, d)
        PROVE  asserts' = {}
    <3>1. ASSUME NEW v \in Versions, NEW l \in Locations \cup {Unset}, CreateSpace(c, d, v, l)
          PROVE  UNCHANGED asserts
      BY <3>1 DEF CreateSpace
    <3>2. ASSUME NEW v \in Versions, NEW l \in Locations \cup {Unset}, NEW e \in Tcbs,
                 NEW w \in Versions,
                 \/ CreateInactive(c, d, v, e, w, l) \/ CreateActive(c, d, v, e, w, l)
                 \/ ModifyRefused(c, d, e, w, l)     \/ Modify(c, d, v, e, w, l)
          PROVE  UNCHANGED asserts
      BY <3>2 DEF CreateInactive, CreateActive, ModifyRefused, Modify
    <3> QED
      BY <2>0, <2>1, <2>2, <2>3, <3>1, <3>2 DEF ThreadControl
  <2>4. ASSUME NEW c \in Tcbs, NEW d \in Tcbs, NEW w \in Versions, NEW a \in Areas,
               SpaceControl(c, d, w, a)
        PROVE  asserts' = {}
    BY <2>0, <2>4 DEF SpaceControl
  <2>5. CASE UNCHANGED vars
    BY <2>0, <2>5 DEF vars
  <2> QED
    BY <2>0, <2>3, <2>4, <2>5 DEF Next
<1> QED
  BY <1>1, <1>2, <1>3, PTL DEF Spec
=============================================================================
