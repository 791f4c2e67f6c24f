------------------------------- MODULE KMemory -------------------------------
(***************************************************************************)
(* kmem_t, the kernel's memory allocator (kmemory.cc): free chunks are kept *)
(* on one list in order of their addresses, linked through their first      *)
(* words.  alloc() takes the first aligned run of neighbours it meets,      *)
(* free() threads the chunks of a block and puts them where their address   *)
(* belongs.  Every call holds the spinlock from its first to its last       *)
(* access and is one step.                                                  *)
(***************************************************************************)
EXTENDS Integers, FiniteSets

CONSTANTS ChunkSize,  \* KMEM_CHUNKSIZE
          Boot,       \* the chunks init() is called with
          Added,      \* the regions add() is called with: sets of chunks
          Null

\* A region is a run of neighbouring chunks.
ASSUME KMemoryAssumption ==
  /\ ChunkSize \in Nat \ {0}
  /\ Null \notin Nat
  /\ IsFiniteSet(Added)
  /\ \A r \in {Boot} \cup Added :
       /\ IsFiniteSet(r) /\ \A c \in r : c \in Nat /\ c % ChunkSize = 0
       /\ \E at \in r : r = {at + i * ChunkSize : i \in 0 .. Cardinality(r) - 1}

VARIABLES kmem_free_list, free_chunks,
          word,    \* the first word of every chunk
          memory,  \* chunks given to the allocator so far
          held     \* the blocks callers have, [at, size]

kmem == <<kmem_free_list, free_chunks, word, memory, held>>

AllChunks == UNION ({Boot} \cup Added)

Least(S) == CHOOSE x \in S : \A y \in S : x <= y
Greatest(S) == CHOOSE x \in S : \A y \in S : x >= y

\* max(size, KMEM_CHUNKSIZE), and the chunks of a block.
Rounded(size) == IF size > ChunkSize THEN size ELSE ChunkSize
Chunks(at, size) == {at + i * ChunkSize : i \in 0 .. (Rounded(size) \div ChunkSize) - 1}

\* The chunk i links after c.
After(w, c, i) ==
  LET at[k \in 0 .. i] == IF k = 0 THEN c
                          ELSE LET p == at[k - 1] IN IF p = Null THEN Null ELSE w[p]
  IN at[i]

Pos(i) == After(word, kmem_free_list, i)
Places == 0 .. Cardinality(AllChunks)

(***************************************************************************)
(* alloc() tests the chunk curr: it is aligned to the size, a power of two, *)
(* the list goes on with its neighbours, and it does not end with the last  *)
(* of them.                                                                 *)
(***************************************************************************)
MutUnaligned(c, size) ==
  /\ \A i \in 1 .. (size \div ChunkSize) - 1 : After(word, c, i) = c + i * ChunkSize
  /\ After(word, c, size \div ChunkSize) # Null
MutNoNeighbours(c, size) ==
  /\ c % size = 0
  /\ After(word, c, size \div ChunkSize) # Null
Fits(c, size) ==
  /\ c % size = 0
  /\ \A i \in 1 .. (size \div ChunkSize) - 1 : After(word, c, i) = c + i * ChunkSize
  /\ After(word, c, size \div ChunkSize) # Null

\* The places on the list where alloc() finds a block; alloc_aligned() wants
\* the address bits under mask, which end at span, to be those of alignment.
Any == [span |-> 1, align |-> 0]
Found(size, colour) ==
  {i \in Places : /\ Pos(i) # Null
                  /\ Fits(Pos(i), Rounded(size))
                  /\ Pos(i) % colour.span = colour.align % colour.span}

\* The block at place i is unlinked and zeroed.
Remaining(i, size) == After(word, Pos(i), Rounded(size) \div ChunkSize)

Taken(i, size) ==
  LET c == Pos(i)
      zeroed == [d \in AllChunks |-> IF d \in Chunks(c, size) THEN Null ELSE word[d]]
  IN /\ kmem_free_list' = IF i = 0 THEN Remaining(i, size) ELSE kmem_free_list
     /\ word' = IF i = 0 THEN zeroed ELSE [zeroed EXCEPT ![Pos(i - 1)] = Remaining(i, size)]
     /\ free_chunks' = free_chunks - Rounded(size) \div ChunkSize
     /\ held' = held \cup {[at |-> c, size |-> size]}
     /\ UNCHANGED memory

\* alloc() and alloc_aligned(); a block that is not found changes nothing.
CanAlloc(size, colour)  == Found(size, colour) # {}
AllocAt(size, colour)   == Pos(Least(Found(size, colour)))
AllocStep(size, colour) == Taken(Least(Found(size, colour)), size)

\* The place free() stops at: no chunk there, or one not below the address.
MutInFront(at) == 0
InsertPlace(at) == Least({i \in Places : Pos(i) = Null \/ at <= Pos(i)})

\* Where its loop over the chunks of the block, which links them, ends.
LastChunk(at, size) == at + Rounded(size) - ChunkSize

Inserted(at, size) ==
  LET cs   == Chunks(at, size)
      i    == InsertPlace(at)
      last == LastChunk(at, size)
      w    == [d \in AllChunks |-> IF d \in cs \ {last} THEN d + ChunkSize
                                   ELSE IF d = last THEN Pos(i)
                                   ELSE IF i > 0 /\ d = Pos(i - 1) THEN at
                                   ELSE word[d]]
  IN /\ word' = w
     /\ kmem_free_list' = IF i = 0 THEN at ELSE kmem_free_list
     /\ free_chunks' = free_chunks + Rounded(size) \div ChunkSize

FreeStep(b) == /\ Inserted(b.at, b.size)
               /\ held' = held \ {b}
               /\ UNCHANGED memory

\* init(): the list is empty before the boot memory is freed into it.
KInit == /\ kmem_free_list = Least(Boot)
         /\ free_chunks = Cardinality(Boot)
         /\ word = [c \in AllChunks |->
                      IF c \in Boot /\ c + ChunkSize \in Boot THEN c + ChunkSize ELSE Null]
         /\ memory = Boot
         /\ held = {}

\* add(), called by the boot code for every further region of memory.
AddStep(r) == /\ r \cap memory = {}
              /\ Inserted(Least(r), Cardinality(r) * ChunkSize)
              /\ memory' = memory \cup r
              /\ UNCHANGED held
-----------------------------------------------------------------------------
List  == {Pos(i) : i \in Places} \ {Null}
Owned == UNION {Chunks(b.at, b.size) : b \in held}

(***************************************************************************)
(* KMEM_CHECK and the order free() and alloc() rely on: following the list  *)
(* from kmem_free_list meets free_chunks chunks, with rising addresses, and *)
(* they are the chunks nobody holds.                                        *)
(***************************************************************************)
FreeListSorted ==
  /\ Pos(free_chunks) = Null
  /\ \A i \in 0 .. free_chunks - 1 : Pos(i) # Null /\ (i > 0 => Pos(i - 1) < Pos(i))
  /\ List = memory \ Owned

(***************************************************************************)
(* alloc() gives up ("out of kernel memory") only if no aligned block is    *)
(* free except where it would take the last chunk of the list.              *)
(***************************************************************************)
FailsOnlyAtTail(sizes) ==
  \A size \in sizes, c \in List :
    (/\ Found(size, Any) = {}
     /\ c % Rounded(size) = 0
     /\ Chunks(c, size) \subseteq List)
      => Greatest(List) \in Chunks(c, size)
=============================================================================
