-------------------------------- MODULE Spaces --------------------------------
(***************************************************************************)
(* SYS_THREAD_CONTROL and SYS_SPACE_CONTROL (thread.cc, space.cc): the life *)
(* of address spaces.  A space_t is allocated with its first thread, counts *)
(* its threads, and is freed with the last one; its UTCB pages are fetched  *)
(* from kmem when a thread is activated and given back when it is freed.    *)
(* The calls run with interrupts off, each is one step.  A call that is     *)
(* refused before it changes anything is not a step.                        *)
(***************************************************************************)
EXTENDS Integers, FiniteSets

CONSTANTS Tcbs,       \* thread numbers of user threads
          Versions,   \* versions of a global thread id
          Spaces,     \* the space_t objects kmem can provide
          Frames,     \* the pages kmem can provide for UTCBs
          Locations,  \* UTCB locations
          PageOf(_),  \* the page of the address space a location is in
          Areas,      \* UTCB areas that are large enough, sets of locations
          RootTask,   \* the thread create_root_server starts
          RootSpace,  \* and its space
          Null,       \* NULL, and NILTHREAD
          Unset,      \* ~0UL, the UTCB location that is not given
          Env         \* "unset": activations without a location are possible

ASSUME SpacesAssumption ==
  /\ IsFiniteSet(Tcbs)
  /\ Areas \subseteq (SUBSET Locations) \ {{}}
  /\ Null \notin Versions \cup Spaces \cup Frames \cup Locations
  /\ Unset \notin Locations
  /\ RootTask \in Tcbs /\ RootSpace \in Spaces

VARIABLES id,        \* tcb_t::myself_global, its version
          space,     \* tcb_t::space
          location,  \* get_utcb_location(), from tcb_t::myself_local
          utcb,      \* tcb_t::utcb, the page it points into
          live,      \* the space_t objects allocated
          count,     \* space_t::thread_count
          area,      \* space_t::utcb_area; {}, which fits no UTCB, until init()
          ptab,      \* the UTCB pages a space maps, by page
          taken,     \* the frames allocated for UTCBs
          asserts    \* the assertions that failed

vars == <<id, space, location, utcb, live, count, area, ptab, taken, asserts>>

\* A location that was never set lies in a page of its own, outside all areas.
Pages   == {PageOf(l) : l \in Locations \cup {Null}}
NoPages == [p \in Pages |-> Null]

exists(t)         == space[t] # Null
is_activated(t)   == utcb[t] # Null
is_initialized(s) == area[s] # {}

\* create_root_server: the root task runs in a space of its own.
Init == \E v \in Versions, a \in Areas, f \in Frames : \E l \in a :
  /\ id       = [t \in Tcbs |-> IF t = RootTask THEN v ELSE Null]
  /\ space    = [t \in Tcbs |-> IF t = RootTask THEN RootSpace ELSE Null]
  /\ location = [t \in Tcbs |-> IF t = RootTask THEN l ELSE Null]
  /\ utcb     = [t \in Tcbs |-> IF t = RootTask THEN f ELSE Null]
  /\ live     = {RootSpace}
  /\ count    = [s \in Spaces |-> IF s = RootSpace THEN 1 ELSE 0]
  /\ area     = [s \in Spaces |-> IF s = RootSpace THEN a ELSE {}]
  /\ ptab     = [s \in Spaces |-> [p \in Pages |-> IF s = RootSpace /\ p = PageOf(l)
                                                   THEN f ELSE Null]]
  /\ taken    = {f}
  /\ asserts  = {}

\* A thread of a privileged space makes the call.
Caller(c) == space[c] = RootSpace /\ is_activated(c)

(***************************************************************************)
(* check_utcb_location: the UTCB lies in the UTCB area of the space.  For   *)
(* the location ~0UL the sum location + sizeof (utcb_t) wraps around, and   *)
(* every area that reaches as far as the sum contains the "range".          *)
(***************************************************************************)
check_utcb_location(s, l) == IF l = Unset THEN is_initialized(s) ELSE l \in area[s]

(***************************************************************************)
(* allocate_utcb: the page at the thread's UTCB location in space s, or a   *)
(* new one.  f is the frame the UTCB is in afterwards.                      *)
(***************************************************************************)
MutAlwaysNew(s, l, f) ==
  /\ f \in Frames \ taken
  /\ taken' = taken \cup {f}
  /\ ptab' = [ptab EXCEPT ![s][PageOf(l)] = f]
allocate_utcb(s, l, f) ==
  \/ /\ ptab[s][PageOf(l)] = f
     /\ UNCHANGED <<taken, ptab>>
  \/ /\ ptab[s][PageOf(l)] = Null /\ f \in Frames \ taken
     /\ taken' = taken \cup {f}
     /\ ptab' = [ptab EXCEPT ![s][PageOf(l)] = f]

Failed(what, fails) == asserts' = IF fails THEN asserts \cup {what} ELSE asserts

\* space_t::free unmaps everything; release_kernel_mapping gives the pages in
\* the UTCB area back.
Released(s) == {ptab[s][p] : p \in {PageOf(l) : l \in area[s]}} \ {Null}

MutNoPagesFreed(s) ==
  /\ live' = live \ {s}
  /\ ptab' = [ptab EXCEPT ![s] = NoPages]
  /\ area' = [area EXCEPT ![s] = {}]
  /\ UNCHANGED taken
\* free() and free_space(); the next allocate_space finds the object zeroed.
FreeSpace(s) ==
  /\ live' = live \ {s}
  /\ ptab' = [ptab EXCEPT ![s] = NoPages]
  /\ area' = [area EXCEPT ![s] = {}]
  /\ taken' = taken \ Released(s)

(***************************************************************************)
(* SYS_THREAD_CONTROL, the space specifier is nil: delete_tcb, and the      *)
(* space goes with its last thread.                                         *)
(***************************************************************************)
LastThread(s) == count[s] - 1 = 0

Delete(c, d) ==
  /\ Caller(c) /\ d # c /\ exists(d)
  /\ LET s == space[d] IN
       /\ count' = [count EXCEPT ![s] = @ - 1]
       /\ Failed("remove_tcb", count[s] = 0)
       /\ IF LastThread(s) THEN FreeSpace(s) ELSE UNCHANGED <<live, ptab, area, taken>>
  /\ id' = [id EXCEPT ![d] = Null]
  /\ space' = [space EXCEPT ![d] = Null]
  /\ location' = [location EXCEPT ![d] = Null]
  /\ utcb' = [utcb EXCEPT ![d] = Null]

(***************************************************************************)
(* SYS_THREAD_CONTROL of a thread that does not exist.  <<d, v>> is the     *)
(* thread's id, <<e, w>> the space specifier, l the UTCB location.          *)
(***************************************************************************)
\* The space of an existing thread, or allocate_space.
MutNotCounted(s) == count' = count
add_tcb(s)       == count' = [count EXCEPT ![s] = @ + 1]

\* create_inactive, set_utcb_location, set_space and add_tcb.
Created(d, v, s, l) ==
  /\ id' = [id EXCEPT ![d] = v]
  /\ location' = [location EXCEPT ![d] = IF l = Unset THEN Null ELSE l]
  /\ space' = [space EXCEPT ![d] = s]
  /\ add_tcb(s)
  /\ live' = live \cup {s}
  /\ UNCHANGED area

\* An inactive thread, alone in a space that is not initialized ...
CreateSpace(c, d, v, l) ==
  /\ Caller(c) /\ ~exists(d)
  /\ \E s \in Spaces \ live : Created(d, v, s, l)
  /\ UNCHANGED <<utcb, ptab, taken, asserts>>

\* ... or in the space of another thread ...
CreateInactive(c, d, v, e, w, l) ==
  /\ Caller(c) /\ ~exists(d) /\ id[e] = w
  /\ Created(d, v, space[e], l)
  /\ UNCHANGED <<utcb, ptab, taken, asserts>>

\* ... where, with a pager, it is activated at once.
CreateActive(c, d, v, e, w, l) ==
  /\ Caller(c) /\ ~exists(d) /\ id[e] = w
  /\ is_initialized(space[e])
  /\ l # Unset /\ check_utcb_location(space[e], l)
  /\ Created(d, v, space[e], l)
  /\ \E f \in Frames : /\ allocate_utcb(space[e], l, f)
                       /\ utcb' = [utcb EXCEPT ![d] = f]
  /\ UNCHANGED asserts

(***************************************************************************)
(* SYS_THREAD_CONTROL of a thread that exists.  A UTCB location is stored,  *)
(* if it fits the thread's space and the thread is inactive, before the     *)
(* space specifier is looked at.                                            *)
(***************************************************************************)
Relocates(d, l) == l = Unset \/ (~is_activated(d) /\ check_utcb_location(space[d], l))
NewLocation(d, l) == IF l = Unset THEN location[d] ELSE l

\* EINVALID_SPACE: there is no such space, but the new location stays.
ModifyRefused(c, d, e, w, l) ==
  /\ Caller(c) /\ exists(d) /\ l # Unset /\ Relocates(d, l)
  /\ id[e] # w
  /\ location' = [location EXCEPT ![d] = l]
  /\ UNCHANGED <<id, space, utcb, live, count, area, ptab, taken, asserts>>

\* No pager, or a new one for a thread that is active.
Modify(c, d, v, e, w, l) ==
  /\ Caller(c) /\ exists(d) /\ Relocates(d, l)
  /\ id[e] = w /\ space[d] = space[e]
  /\ id' = [id EXCEPT ![d] = v]
  /\ location' = [location EXCEPT ![d] = NewLocation(d, l)]
  /\ UNCHANGED <<space, utcb, live, count, area, ptab, taken, asserts>>

\* An inactive thread gets a pager: activate().
Activate(c, d, v, e, w, l) ==
  /\ Caller(c) /\ exists(d) /\ ~is_activated(d) /\ Relocates(d, l)
  /\ l = Unset => "unset" \in Env
  /\ id[e] = w /\ space[d] = space[e]
  /\ check_utcb_location(space[d], l)
  /\ id' = [id EXCEPT ![d] = v]
  /\ location' = [location EXCEPT ![d] = NewLocation(d, l)]
  /\ \E f \in Frames : /\ allocate_utcb(space[d], NewLocation(d, l), f)
                       /\ utcb' = [utcb EXCEPT ![d] = f]
  /\ Failed("activate", NewLocation(d, l) \notin area[space[d]])
  /\ UNCHANGED <<space, live, count, area>>

\* SYS_SPACE_CONTROL: the first call for a space initializes it.
SpaceControl(c, e, w, a) ==
  /\ Caller(c) /\ id[e] = w
  /\ ~is_initialized(space[e])
  /\ area' = [area EXCEPT ![space[e]] = a]
  /\ UNCHANGED <<id, space, location, utcb, live, count, ptab, taken, asserts>>

ThreadControl(c, d) ==
  \/ Delete(c, d)
  \/ \E v \in Versions, l \in Locations \cup {Unset} :
       \/ CreateSpace(c, d, v, l)
       \/ \E e \in Tcbs, w \in Versions :
            \/ CreateInactive(c, d, v, e, w, l)
            \/ CreateActive(c, d, v, e, w, l)
            \/ ModifyRefused(c, d, e, w, l)
            \/ Modify(c, d, v, e, w, l)
            \/ Activate(c, d, v, e, w, l)

Next == \E c, d \in Tcbs :
          \/ ThreadControl(c, d)
          \/ \E w \in Versions, a \in Areas : SpaceControl(c, d, w, a)

Spec == Init /\ [][Next]_vars
-----------------------------------------------------------------------------
TypeOK == /\ id \in [Tcbs -> Versions \cup {Null}]
          /\ space \in [Tcbs -> Spaces \cup {Null}]
          /\ location \in [Tcbs -> Locations \cup {Null}]
          /\ utcb \in [Tcbs -> Frames \cup {Null}]
          /\ live \subseteq Spaces /\ taken \subseteq Frames
          /\ count \in [Spaces -> Int]
          /\ area \in [Spaces -> Areas \cup {{}}]
          /\ ptab \in [Spaces -> [Pages -> Frames \cup {Null}]]
          /\ asserts \subseteq {"remove_tcb", "activate"}

Members(s) == {t \in Tcbs : space[t] = s}

(***************************************************************************)
(* The thread count of a space is the number of threads in it: a space_t is *)
(* freed with its last thread, not before (no thread is in a space that was *)
(* given back to kmem) and not later (no space without threads is kept).    *)
(***************************************************************************)
SpaceCounted == /\ \A s \in Spaces : count[s] = Cardinality(Members(s))
                /\ \A s \in Spaces : s \in live <=> Members(s) # {}

(***************************************************************************)
(* The frames taken for UTCBs are the ones mapped in some live space, each  *)
(* at one place: none is leaked when a space is freed (release_kernel_      *)
(* mapping) and none is shared between spaces.                              *)
(***************************************************************************)
UtcbPagesExact ==
  /\ taken = {f \in Frames : \E s \in live, p \in Pages : ptab[s][p] = f}
  /\ \A s, r \in Spaces, p, q \in Pages :
       (ptab[s][p] = ptab[r][q] /\ ptab[s][p] # Null) => s = r /\ p = q

(***************************************************************************)
(* The UTCB of an active thread is where its location says, inside the UTCB *)
(* area of its space and in the page mapped there ("UTCB location has       *)
(* already been checked during thread creation", activate).                 *)
(***************************************************************************)
UtcbInArea == \A t \in Tcbs : is_activated(t) =>
                /\ exists(t)
                /\ location[t] \in area[space[t]]
                /\ ptab[space[t]][PageOf(location[t])] = utcb[t]

\* ASSERT (check_utcb_location ()) in activate.
ActivateAssert == "activate" \notin asserts
=============================================================================
