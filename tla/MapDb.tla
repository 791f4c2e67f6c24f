-------------------------------- MODULE MapDb --------------------------------
(***************************************************************************)
(* The mapping database (mapping.cc, mapping.h) of a machine with two page  *)
(* sizes, as on ia32: mdb_map and mdb_flush, called by map_fpage and        *)
(* unmap_fpage with one page table entry at a time.                         *)
(*                                                                         *)
(* The mappings of a frame form a tree.  It is kept as a list in preorder   *)
(* with the depth of every node; a node's previous pointer is stored as its *)
(* XOR with the page table entry, so each of the two can only be read by    *)
(* who knows the other.  Mappings of small pages out of a large one hang    *)
(* off an array of root nodes, one for every small frame.  A dual node is   *)
(* the pair of pointers to a list and to an array.                          *)
(***************************************************************************)
EXTENDS Integers, FiniteSets, FiniteSetsExt

CONSTANTS Pages,   \* page table entries: a space other than sigma0 and the virtual
                   \* address of a small page, or
          Large,   \* the one of a large page
          Width,   \* mdb_arraysize: small frames in the large one
          Spare,   \* buffers beyond one for every page
          Granted, \* the pages that are granted, and
          Asked,   \* the rights that are asked for: to write, or not
          Top,     \* the array of large frames, sigma0's
          Sigma0, Null, None,
          Env      \* "split": all large mappings that were mapped in parts are flushed,
                   \* "part": and parts of them, whatever they were mapped to

ASSUME MapDbAssumption ==
  /\ Width \in Nat \ {0} /\ Granted \subseteq Pages /\ Asked \subseteq BOOLEAN
  /\ {Sigma0, None} \cap Pages = {} /\ Sigma0 # None

VARIABLES pt,      \* the page tables: node, frames and rights of the entries in use
          node,    \* mapnode_t: prev XOR pg (kept as a pair), space, depth, next
          arr,     \* the arrays of root nodes; Top is the one of large frames
          origin   \* history: the mapping each entry was mapped from

vars == <<pt, node, arr, origin>>

Frames == 0 .. Width - 1
\* Map nodes and arrays of root nodes, named for the page they are usually for.
Nodes  == Pages \cup Spare
Arrays == Nodes \cup {Sigma0}
Size(p) == IF p[2] = Large THEN 1 ELSE 0

Unused  == [node |-> Null, frames |-> {}, w |-> FALSE]
Present == {p \in Pages : pt[p].node # Null}

\* Links to the next nodes, in map nodes and in root nodes; and the two kinds of
\* places a map node can be hooked to.
NoLinks    == [map |-> Null, root |-> Null]
EmptyArray == [i \in Frames |-> NoLinks]
AtMap(n)     == <<"map", n>>
AtRoot(a, i) == <<"root", a, i>>

\* init_mdb: sigma0 owns the whole address space, here one large frame.
Init == /\ pt = [p \in Pages |-> Unused]
        /\ node = [n \in Nodes |-> Null]
        /\ arr = [x \in Arrays \cup {Top} |-> IF x = Top THEN [i \in {0} |-> NoLinks] ELSE Null]
        /\ origin = [p \in Pages |-> None]

(***************************************************************************)
(* mdb_alloc_buffer returns any free buffer.  All are alike: the model takes *)
(* the one with the name it looks for, if that is free.                     *)
(***************************************************************************)
FreshNode(t)  == IF node[t] = Null THEN t ELSE CHOOSE n \in Nodes : node[n] = Null
FreshArray(n) == IF arr[n] = Null THEN n ELSE CHOOSE x \in Arrays : arr[x] = Null
CanAlloc      == (\E n \in Nodes : node[n] = Null) /\ (\E x \in Arrays : arr[x] = Null)
-----------------------------------------------------------------------------
(***************************************************************************)
(* The XOR of previous pointer and page table entry: reading one with the   *)
(* wrong other gives neither.                                               *)
(***************************************************************************)
Garbage == <<"garbage">>
get_pgent(nd, n, prev) == IF nd[n].prev = prev THEN nd[n].pg ELSE Garbage
get_prev(nd, n, pg)    == IF nd[n].pg = pg THEN nd[n].prev ELSE Garbage

\* A store is the nodes, the arrays and the page tables at one time.  The list
\* node behind a place:
NextMap(s, at) == IF at[1] = "map" THEN s.node[at[2]].map ELSE s.arr[at[2]][at[3]].map

SetNext(s, at, n) ==
  IF at[1] = "map" THEN [s EXCEPT !.node[at[2]].map = n]
                   ELSE [s EXCEPT !.arr[at[2]][at[3]].map = n]

\* set_backlink (at, get_pgent (from)), if there is a node n.
MutBacklinkKept(s, n, from, at) == s
Relinked(s, n, from, at) ==
  IF n = Null THEN s
  ELSE [s EXCEPT !.node[n].prev = at, !.node[n].pg = get_pgent(s.node, n, from)]

\* mdb_map: a new node for pg right behind the place at.
Hooked(s, n, at, pg, depth) ==
  LET nmap == NextMap(s, at)
      new  == [prev |-> at, pg |-> pg, space |-> pg[1], depth |-> depth,
               map |-> nmap, root |-> Null]
  IN Relinked(SetNext([s EXCEPT !.node[n] = new], at, n), nmap, at, AtMap(n))

remove_map(s, at, n) ==
  LET nmap == s.node[n].map
  IN Relinked([SetNext(s, at, nmap) EXCEPT !.node[n] = Null], nmap, AtMap(n), at)

Store == [node |-> node, arr |-> arr, pt |-> pt]

(***************************************************************************)
(* mdb_map (map): entry f, or sigma0, gives its frames fr to entry t.  A     *)
(* page of the same size is hooked below the node; a smaller one below the  *)
(* root node of its frame, in an array that is created for the first.       *)
(***************************************************************************)
\* The array of the small frames below a place, new if there was none.
ArrayBelow(at, root) == IF root # Null THEN root
                        ELSE FreshArray(IF at[1] = "map" THEN at[2] ELSE Sigma0)
WithArray(s, at, a) ==
  LET s1 == IF s.arr[a] = Null THEN [s EXCEPT !.arr[a] = EmptyArray] ELSE s
  IN IF at[1] = "map" THEN [s1 EXCEPT !.node[at[2]].root = a]
                      ELSE [s1 EXCEPT !.arr[at[2]][at[3]].root = a]

MutSameDepth(n) == IF n = Null THEN 1 ELSE node[n].depth
BelowDepth(n)   == IF n = Null THEN 1 ELSE node[n].depth + 1

Index(fr) == CHOOSE i \in fr : TRUE

mdb_map(n, f, t, fr) ==
  LET down(at, root) == LET a == ArrayBelow(at, root)
                        IN Hooked(WithArray(Store, at, a), n, AtRoot(a, Index(fr)), t,
                                  BelowDepth(IF f = Sigma0 THEN Null ELSE pt[f].node))
  IN IF f = Sigma0
     THEN IF Size(t) = 1 THEN Hooked(Store, n, AtRoot(Top, 0), t, BelowDepth(Null))
                         ELSE down(AtRoot(Top, 0), arr[Top][0].root)
     ELSE LET m == pt[f].node
          IN IF Size(t) = Size(f) THEN Hooked(Store, n, AtMap(m), t, BelowDepth(m))
                                  ELSE down(AtMap(m), node[m].root)

FramesOf(f) == IF f = Sigma0 THEN Frames ELSE pt[f].frames
Writable(f) == f = Sigma0 \/ pt[f].w

\* map_fpage, the "real work" for an entry t that is not in use.
MapPage(f, t, fr, w) ==
  /\ CanAlloc
  /\ f = Sigma0 \/ f \in Present
  /\ t \notin Present
  /\ IF Size(t) = 1 THEN fr = Frames ELSE Cardinality(fr) = 1
  /\ fr \subseteq FramesOf(f)
  /\ LET n == FreshNode(t)
         s == mdb_map(n, f, t, fr)
     IN /\ node' = s.node /\ arr' = s.arr
        /\ pt' = [pt EXCEPT ![t] = [node |-> n, frames |-> fr, w |-> w /\ Writable(f)]]
  /\ origin' = [origin EXCEPT ![t] = f]

(***************************************************************************)
(* mdb_map (grant): the node is reused for entry t, and f is cleared.       *)
(***************************************************************************)
Reused(n, f, t) == [node EXCEPT ![n].prev = get_prev(node, n, f), ![n].pg = t,
                                 ![n].space = t[1]]

GrantPage(f, t, w) ==
  /\ f \in Present \cap Granted /\ t \notin Present /\ Size(f) = Size(t)
  /\ node' = Reused(pt[f].node, f, t)
  /\ pt' = [pt EXCEPT ![t] = [pt[f] EXCEPT !.w = w /\ pt[f].w], ![f] = Unused]
  /\ origin' = [p \in Pages |-> IF p = t THEN origin[f]
                                ELSE IF p = f THEN None
                                ELSE IF origin[p] = f THEN t ELSE origin[p]]
  /\ UNCHANGED arr
-----------------------------------------------------------------------------
Tree == INSTANCE Derivation
          WITH frames <- [p \in Pages |-> pt[p].frames],
               writable <- {p \in Pages : pt[p].w}

(***************************************************************************)
(* mdb_flush: the loop visits node f.map of entry f.pg, in a list of pages  *)
(* of size f.size.  The node is removed, or loses its rights, or (f.self is *)
(* false) is left alone; prev is the place the list goes on from.           *)
(***************************************************************************)
Visited(s, f) ==
  LET prev == get_prev(s.node, f.map, f.pg)
  IN CASE f.self /\ f.all  -> [s |-> [remove_map(s, prev, f.map) EXCEPT !.pt[f.pg] = Unused],
                               prev |-> prev]
       [] f.self /\ ~f.all -> [s |-> [s EXCEPT !.pt[f.pg].w = FALSE], prev |-> AtMap(f.map)]
       [] ~f.self          -> [s |-> s, prev |-> AtMap(f.map)]

(***************************************************************************)
(* Where the loop goes from a node with the links nmap and nroot: into its  *)
(* array, all of it or the root node of the frame flushed; to the next node *)
(* in the list; or back up from the array, which is freed as if root were   *)
(* at its end.                                                              *)
(***************************************************************************)
Left(f) == [f EXCEPT !.map = Null]
Onward(s, f, prev, nmap, nroot) ==
  CASE nroot # Null /\ f.size - 1 < f.tsize ->
         [Left(f) EXCEPT !.size = @ - 1, !.root = <<nroot, -1>>, !.rcnt = Width,
                         !.saved = [prev |-> prev, map |-> nmap, root |-> f.root, rcnt |-> f.rcnt]]
    [] nroot # Null /\ f.size - 1 >= f.tsize ->
         [Left(f) EXCEPT !.size = @ - 1, !.root = <<nroot, f.frame - 1>>, !.rcnt = 1]
    [] nroot = Null /\ nmap # Null ->
         [f EXCEPT !.map = nmap, !.pg = get_pgent(s.node, nmap, prev)]
    [] nroot = Null /\ nmap = Null /\ f.size < f.tsize /\ f.root # Null ->
         [f EXCEPT !.map = f.saved.map, !.root = f.saved.root, !.rcnt = f.saved.rcnt,
                   !.size = @ + 1,
                   !.pg = IF f.saved.map = Null THEN @
                          ELSE get_pgent(s.node, f.saved.map, f.saved.prev)]
    [] OTHER -> Left(f)

\* The array that is freed on the way up.  If root is not at its last root node the
\* address is wrong and the array stays; what is freed instead is not modelled.
Freed(s, f, nmap, nroot) ==
  IF /\ nroot = Null /\ nmap = Null /\ f.size < f.tsize /\ f.root # Null
     /\ f.all /\ f.root[2] = Width - 1
  THEN [s EXCEPT !.arr[f.root[1]] = Null] ELSE s

\* The next root node, of the f.rcnt there are behind f.root, that has mappings.
Occupied(s, f) == {k \in 1 .. f.rcnt : s.arr[f.root[1]][f.root[2] + k].map # Null}
Scanned(s, f) ==
  IF f.map # Null \/ f.rcnt = 0 THEN f
  ELSE IF Occupied(s, f) = {} THEN [f EXCEPT !.root[2] = @ + f.rcnt, !.rcnt = 0]
  ELSE LET k  == Min(Occupied(s, f))
           at == AtRoot(f.root[1], f.root[2] + k)
       IN [f EXCEPT !.root[2] = @ + k, !.rcnt = @ - k, !.map = NextMap(s, at),
                    !.pg = get_pgent(s.node, NextMap(s, at), at)]

\* The loop ends behind the subtree of the node it started with.
MutWholeList(s, f) == f.map = Null
Finished(s, f)     == f.map = Null \/ s.node[f.map].depth <= f.start

RECURSIVE FlushLoop(_, _)
FlushLoop(s, f) ==
  LET here == s.node[f.map]
      v    == Visited(s, f)
      s1   == Freed(v.s, f, here.map, here.root)
      next == Scanned(s1, Onward(s1, f, v.prev, here.map, here.root))
  IN IF Finished(s1, next) THEN s1
     ELSE FlushLoop(s1, [next EXCEPT !.self = @ \/ next.size <= next.tsize])

\* mdb_flush of pages of size t in entry p, at the small frame i.
mdb_flush(p, i, t, all, self) ==
  FlushLoop(Store,
            [map |-> pt[p].node, pg |-> p, size |-> Size(p), tsize |-> t, frame |-> i,
             all |-> all, self |-> self, start |-> node[pt[p].node].depth,
             root |-> Null, rcnt |-> 0, saved |-> Null])

\* The mappings that were mapped in parts: their nodes have an array.
InParts == {q \in Present : node[pt[q].node].root # Null}

(***************************************************************************)
(* The loop leaves an array after the first root node with mappings, and    *)
(* never if there is none: it does what it should if the last root node and *)
(* no other has mappings.  An unmap that leaves p itself also leaves it its *)
(* pointer to the array.                                                    *)
(***************************************************************************)
LastOnly(x) == \A i \in Frames : arr[x][i].map # Null <=> i = Width - 1
Regular(p, self) == \A q \in InParts : q \in Tree!Derived(p) \cup {p} =>
                      LastOnly(node[pt[q].node].root) /\ (self \/ q # p)
UsualPage(p, self) == Regular(p, self) \/ (self /\ "split" \in Env)

(***************************************************************************)
(* On its way to the root node of the small frame the loop drops the rest   *)
(* of the list of large pages: it reaches all mappings of the frame if only *)
(* one of the large pages derived from p was mapped in parts.               *)
(***************************************************************************)
OneArray(p) == \A q, r \in InParts : q # r => ~({q, r} \subseteq Tree!Derived(p) \cup {p})
UsualPart(p) == Size(p) = 1 /\ (OneArray(p) \/ "part" \in Env)

(***************************************************************************)
(* unmap_fpage for one entry: all rights or the right to write are revoked  *)
(* for the entry and all derived from it (self), or for these only.  A page *)
(* is unmapped as a whole, or one small frame out of a large page, of which *)
(* the page itself is not flushed.                                          *)
(***************************************************************************)
Flush(p, i, t, all, self) ==
  LET s == mdb_flush(p, i, t, all, self)
  IN /\ node' = s.node /\ arr' = s.arr /\ pt' = s.pt
     /\ origin' = [q \in Pages |-> IF s.pt[q].node = Null THEN None ELSE origin[q]]

UnmapPage(p, all, self) ==
  /\ p \in Present
  /\ UsualPage(p, self)
  /\ Flush(p, Min(pt[p].frames), Size(p), all, self)

UnmapPart(p, i, all) ==
  /\ p \in Present
  /\ UsualPart(p)
  /\ Flush(p, i, 0, all, FALSE)

Next == \/ \E f \in Pages \cup {Sigma0}, t \in Pages, fr \in SUBSET Frames, w \in Asked :
             MapPage(f, t, fr, w)
        \/ \E f, t \in Pages, w \in Asked : GrantPage(f, t, w)
        \/ \E p \in Pages, all, self \in BOOLEAN : UnmapPage(p, all, self)
        \/ \E p \in Pages, i \in Frames, all \in BOOLEAN : UnmapPart(p, i, all)

Spec == Init /\ [][Next]_vars
-----------------------------------------------------------------------------
(***************************************************************************)
(* Every mapping can be found from its page table entry and from the list   *)
(* it is in: the entry of a node points back to it, and its XORed back link *)
(* decodes to the place whose next pointer leads to it, through all the     *)
(* insertions, grants and removals around it.  There are no other nodes and *)
(* no arrays that are not in use.                                           *)
(***************************************************************************)
LinksExact ==
  /\ \A n \in Nodes : node[n] # Null =>
       /\ node[n].pg \in Present /\ pt[node[n].pg].node = n
       /\ node[n].space = node[n].pg[1]
       /\ node[n].prev # Garbage /\ NextMap(Store, node[n].prev) = n
  /\ \A p \in Present : node[pt[p].node] # Null
  /\ \A x \in Arrays : arr[x] # Null <=>
       arr[Top][0].root = x \/ \E n \in Nodes : node[n] # Null /\ node[n].root = x

(***************************************************************************)
(* The database implements the tree of derivations: what is mapped goes     *)
(* back to sigma0, within the memory and the rights of what it was mapped   *)
(* from, and only a revocation of Derivation takes anything away.           *)
(***************************************************************************)
ImplementsDerivation == Tree!Spec

(***************************************************************************)
(* "Recursively revokes access attributes of indicated mapping": in every   *)
(* state, mdb_flush of any entry would revoke exactly what was derived from *)
(* it in the memory that is flushed, and the entry itself if it is asked    *)
(* to.  It finds all of that by following the lists, arrays and depths that *)
(* were left by all the calls before.                                       *)
(***************************************************************************)
Revokes(p, F, all, self, s) ==
  LET R == Tree!Revoked(p, F, self)
  IN \A q \in Pages : s.pt[q] = IF q \notin R THEN pt[q]
                               ELSE IF all THEN Unused ELSE [pt[q] EXCEPT !.w = FALSE]

FlushExact ==
  \A p \in Present, all \in BOOLEAN :
    /\ \A self \in BOOLEAN : UsualPage(p, self) =>
         Revokes(p, pt[p].frames, all, self, mdb_flush(p, Min(pt[p].frames), Size(p), all, self))
    /\ UsualPart(p) => \A i \in Frames :
         Revokes(p, {i}, all, FALSE, mdb_flush(p, i, 0, all, FALSE))

\* "If all access rights are revoked, the mapping will be recursively removed":
\* nothing stays that was derived from a mapping that is gone.
RecursivelyRemoved == \A p \in Present : origin[p] \in Present \cup {Sigma0}
=============================================================================
