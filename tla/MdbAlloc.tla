------------------------------- MODULE MdbAlloc -------------------------------
(***************************************************************************)
(* The buffer allocator of the mapping database (mapping_alloc.cc) on top   *)
(* of kmem_t.  Small buffers of one size come from pages of that size: the  *)
(* head of a page holds its management structure and a list of its free     *)
(* buffers, and the pages that have a free buffer form a list per size.  A  *)
(* page is fetched from kmem when the list is empty and given back when its *)
(* last buffer is freed.  Large sizes go to kmem directly.                  *)
(***************************************************************************)
EXTENDS KMemory, Sequences

CONSTANTS PageSize,    \* MDB_ALLOC_CHUNKSZ
          MngSize,     \* sizeof (mdb_mng_t)
          MdbSizes,    \* the sizes mdb_buflist_init adds, each once
          OtherSizes,  \* sizes that the rest of the kernel takes from kmem
          Colours,     \* what alloc_aligned() is asked for
          MaxOthers    \* bound: blocks the rest of the kernel holds at once

\* kmem_t asserts that what it is asked for is at most, or a multiple of, a chunk;
\* a page has room for a buffer of every size below its own.
ASSUME MdbAssumption ==
  /\ PageSize \in Nat \ {0} /\ PageSize % ChunkSize = 0 /\ MngSize \in Nat \ {0}
  /\ MdbSizes \subseteq Nat \ {0} /\ OtherSizes \subseteq Nat \ {0}
  /\ \A s \in MdbSizes : IF s >= PageSize THEN s % ChunkSize = 0 ELSE MngSize + s <= PageSize
  /\ \A s \in OtherSizes : s > ChunkSize => s % ChunkSize = 0

\* What the integers of this model stand for is right for such sizes only: alloc()
\* takes curr & (size - 1) for the remainder, which it is for powers of two, and the
\* unsigned counter of mdb_buflist_init must not step below zero.
PowerOfTwo(n) == \E k \in 0 .. n : n = 2^k
ASSUME WordAssumption ==
  /\ PowerOfTwo(PageSize) /\ \A c \in Colours : PowerOfTwo(c.span)
  /\ \A s \in OtherSizes \cup {m \in MdbSizes : m >= PageSize} : PowerOfTwo(Rounded(s))
  /\ \A s \in MdbSizes : s < PageSize => PageSize % s < MngSize

VARIABLES mng,            \* the management structure of every page, by address
          list_of_lists,  \* mdb_buflists[].list_of_lists, by size
          bufs            \* the buffers callers have, [at, size]

vars == <<kmem, mng, list_of_lists, bufs>>

\* mdb_buflist_init: as many buffers as leave room for the management structure.
max_free(size) == Cardinality({k \in 1 .. PageSize : PageSize - k * size >= MngSize})

Large(size) == size >= PageSize
Small       == {s \in MdbSizes : ~Large(s)}
NoPage      == [num_free |-> -1]

Init == /\ KInit
        /\ mng = [c \in AllChunks |-> NoPage]
        /\ list_of_lists = [s \in Small |-> Null]
        /\ bufs = {}

\* The page a buffer lies in, found by masking its address.
PageOf(addr) == addr - (addr % PageSize)

(***************************************************************************)
(* mdb_alloc_buffer                                                         *)
(***************************************************************************)
FreshPage(page, size) ==
  [freelist      |-> [k \in 1 .. max_free(size) |->
                        page + PageSize - (max_free(size) - (k - 1)) * size],
   num_free      |-> max_free(size),
   next_freelist |-> Null,
   prev_freelist |-> Null,
   bl            |-> size]

\* The head page loses the first buffer of its list, and leaves the list of
\* pages with its last one.
Popped(m, page, size) ==
  LET l == [m EXCEPT ![page].freelist = Tail(@), ![page].num_free = @ - 1]
      n == m[page].next_freelist
  IN IF l[page].num_free # 0
     THEN mng' = l /\ list_of_lists' = [list_of_lists EXCEPT ![size] = page]
     ELSE /\ list_of_lists' = [list_of_lists EXCEPT ![size] = n]
          /\ mng' = IF n # Null THEN [l EXCEPT ![n].prev_freelist = Null] ELSE l

AllocBuffer(size) ==
  IF Large(size)
  THEN /\ CanAlloc(size, Any)
       /\ AllocStep(size, Any)
       /\ bufs' = bufs \cup {[at |-> AllocAt(size, Any), size |-> size]}
       /\ UNCHANGED <<mng, list_of_lists>>
  ELSE LET fetch == list_of_lists[size] = Null
           page  == IF fetch THEN AllocAt(PageSize, Any) ELSE list_of_lists[size]
           m     == IF fetch THEN [mng EXCEPT ![page] = FreshPage(page, size)] ELSE mng
       IN /\ fetch => CanAlloc(PageSize, Any)
          /\ IF fetch THEN AllocStep(PageSize, Any) ELSE UNCHANGED kmem
          /\ Popped(m, page, size)
          /\ bufs' = bufs \cup {[at |-> Head(m[page].freelist), size |-> size]}

(***************************************************************************)
(* mdb_free_buffer                                                          *)
(***************************************************************************)
\* A page that was full goes to the front of the list of pages.
Relisted(m, page, size) ==
  LET h == list_of_lists[size]
      l == [m EXCEPT ![page].next_freelist = h, ![page].prev_freelist = Null]
  IN /\ mng' = IF h # Null THEN [l EXCEPT ![h].prev_freelist = page] ELSE l
     /\ list_of_lists' = [list_of_lists EXCEPT ![size] = page]
     /\ UNCHANGED kmem

\* A page that is free again leaves it and goes back to kmem.
MutForwardOnly(m, page) ==
  LET p == m[page].prev_freelist
      n == m[page].next_freelist
  IN IF p # Null THEN [m EXCEPT ![p].next_freelist = n] ELSE m
Bridged(m, page) ==
  LET p == m[page].prev_freelist
      n == m[page].next_freelist
      l == IF n # Null THEN [m EXCEPT ![n].prev_freelist = p] ELSE m
  IN IF list_of_lists[m[page].bl] # page /\ p # Null
     THEN [l EXCEPT ![p].next_freelist = n] ELSE l

Returned(m, page, size) ==
  /\ mng' = [Bridged(m, page) EXCEPT ![page] = NoPage]
  /\ list_of_lists' = IF list_of_lists[size] = page
                      THEN [list_of_lists EXCEPT ![size] = m[page].next_freelist]
                      ELSE list_of_lists
  /\ FreeStep([at |-> page, size |-> PageSize])

MutNeverReturned(m, page, size) ==
  IF m[page].num_free = 1 THEN Relisted(m, page, size)
  ELSE mng' = m /\ UNCHANGED <<kmem, list_of_lists>>
PageStep(m, page, size) ==
  CASE m[page].num_free = 1 -> Relisted(m, page, size)
    [] m[page].num_free # 1 /\ m[page].num_free = max_free(size) -> Returned(m, page, size)
    [] OTHER -> mng' = m /\ UNCHANGED <<kmem, list_of_lists>>

FreeBuffer(b) ==
  /\ bufs' = bufs \ {b}
  /\ IF Large(b.size)
     THEN FreeStep(b) /\ UNCHANGED <<mng, list_of_lists>>
     ELSE LET page == PageOf(b.at)
              m == [mng EXCEPT ![page].freelist = <<b.at>> \o @, ![page].num_free = @ + 1]
          IN PageStep(m, page, mng[page].bl)

(***************************************************************************)
(* The rest of the kernel takes blocks from kmem and gives them back.       *)
(***************************************************************************)
Pages  == {c \in AllChunks : mng[c] # NoPage}
others == {b \in held : ~(b \in bufs \/ (b.at \in Pages /\ b.size = PageSize))}

Alloc(size)         == /\ Cardinality(others) < MaxOthers /\ CanAlloc(size, Any)
                       /\ AllocStep(size, Any)
                       /\ UNCHANGED <<mng, list_of_lists, bufs>>
AllocAligned(size, colour) == /\ Cardinality(others) < MaxOthers /\ CanAlloc(size, colour)
                              /\ AllocStep(size, colour)
                              /\ UNCHANGED <<mng, list_of_lists, bufs>>
Free(b) == FreeStep(b) /\ UNCHANGED <<mng, list_of_lists, bufs>>
Add(r)  == AddStep(r) /\ UNCHANGED <<mng, list_of_lists, bufs>>

Next == \/ \E s \in MdbSizes : AllocBuffer(s)
        \/ \E b \in bufs : FreeBuffer(b)
        \/ \E s \in OtherSizes : Alloc(s)
        \/ \E s \in OtherSizes, c \in Colours : AllocAligned(s, c)
        \/ \E b \in others : Free(b)
        \/ \E r \in Added : Add(r)

Spec == Init /\ [][Next]_vars
-----------------------------------------------------------------------------
\* The sizes kmem_t is asked for.
Sizes == {s \in MdbSizes : Large(s)} \cup OtherSizes \cup {PageSize}

TypeOK == /\ kmem_free_list \in AllChunks \cup {Null}
          /\ free_chunks \in 0 .. Cardinality(AllChunks)
          /\ word \in [AllChunks -> AllChunks \cup {Null}]
          /\ memory \subseteq AllChunks
          /\ \A b \in held : b.size \in Sizes
          /\ \A b \in bufs : b.size \in MdbSizes
          /\ list_of_lists \in [Small -> AllChunks \cup {Null}]
          /\ \A c \in Pages : mng[c].bl \in Small

(***************************************************************************)
(* "out of kernel memory" (kmem_t::alloc) is reported only when every       *)
(* aligned free block contains the last free chunk.                         *)
(***************************************************************************)
OutOfMemory == FailsOnlyAtTail(Sizes)

Pool == INSTANCE MemPool WITH
          Sizes   <- {Rounded(s) : s \in Sizes},
          Regions <- {Boot} \cup Added,
          free    <- List,
          blocks  <- {Chunks(b.at, b.size) : b \in held}

(***************************************************************************)
(* kmem_t, with its list of chunks, implements the pool of MemPool: what    *)
(* its callers hold are disjoint, aligned blocks of the memory it was       *)
(* given, and freeing one makes exactly its chunks available again.         *)
(***************************************************************************)
ImplementsMemPool == Pool!Spec

\* The pages of a size that list_of_lists reaches in n steps.
Listed(s) ==
  LET at[k \in Places] == IF k = 0 THEN list_of_lists[s]
                          ELSE LET p == at[k - 1] IN IF p = Null THEN Null ELSE mng[p].next_freelist
  IN [k \in Places |-> at[k]]

(***************************************************************************)
(* ASSERT_BL, and that no page is forgotten: the list of a size is a        *)
(* doubly linked list, ends, and holds exactly the pages of that size with  *)
(* a free buffer; num_free counts the list of free buffers.                 *)
(***************************************************************************)
PagesListed ==
  \A s \in Small :
    LET l == Listed(s) IN
      /\ l[Cardinality(AllChunks)] = Null
      /\ {l[k] : k \in Places} \ {Null} = {p \in Pages : mng[p].bl = s /\ mng[p].num_free > 0}
      /\ \A k \in Places : l[k] # Null =>
           /\ mng[l[k]].prev_freelist = IF k = 0 THEN Null ELSE l[k - 1]
           /\ mng[l[k]].num_free = Len(mng[l[k]].freelist)

Words(b) == b.at .. b.at + b.size - 1

(***************************************************************************)
(* The words of a page that is held from kmem are its management structure, *)
(* its free buffers and the buffers callers hold, all disjoint; callers     *)
(* hold nothing of a page that went back, and a page with nothing handed    *)
(* out does go back (unless it has room for one buffer only).               *)
(***************************************************************************)
BuffersDisjoint ==
  /\ \A b, d \in bufs : b # d => Words(b) \cap Words(d) = {}
  /\ \A b \in bufs : ~Large(b.size) => PageOf(b.at) \in Pages
  /\ \A p \in Pages :
       LET free == {mng[p].freelist[k] : k \in DOMAIN mng[p].freelist}
           out  == {b.at : b \in {d \in bufs : PageOf(d.at) = p}}
       IN /\ [at |-> p, size |-> PageSize] \in held
          /\ free \cap out = {}
          /\ Cardinality(free \cup out) = max_free(mng[p].bl)
          /\ \A a \in free \cup out : p + MngSize <= a /\ a + mng[p].bl <= p + PageSize
          /\ max_free(mng[p].bl) > 1 => out # {}
=============================================================================
