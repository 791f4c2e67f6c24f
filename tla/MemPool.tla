------------------------------- MODULE MemPool -------------------------------
(***************************************************************************)
(* What kmem_t promises its callers, without its free list: memory given to *)
(* it by init() and add() is either free or part of exactly one block, an   *)
(* allocation takes a naturally aligned run of free chunks, and a block     *)
(* that is freed is free again, all of it.                                  *)
(***************************************************************************)
EXTENDS Integers

CONSTANTS ChunkSize,  \* KMEM_CHUNKSIZE
          Sizes,      \* sizes of blocks, multiples of ChunkSize
          Regions     \* what init() and add() bring: sets of chunk addresses

VARIABLES memory,  \* addresses of the chunks the pool was given
          free,    \* those that nobody holds
          blocks   \* the blocks callers hold, each the set of its chunks

vars == <<memory, free, blocks>>

Chunks(at, size) == {at + i * ChunkSize : i \in 0 .. (size \div ChunkSize) - 1}

Init == memory \in Regions /\ free = memory /\ blocks = {}

Add(r) == /\ r \cap memory = {}
          /\ memory' = memory \cup r
          /\ free' = free \cup r
          /\ UNCHANGED blocks

Alloc(at, size) == /\ Chunks(at, size) \subseteq free
                   /\ at % size = 0
                   /\ free' = free \ Chunks(at, size)
                   /\ blocks' = blocks \cup {Chunks(at, size)}
                   /\ UNCHANGED memory

Free(b) == /\ blocks' = blocks \ {b}
           /\ free' = free \cup b
           /\ UNCHANGED memory

Next == \/ \E r \in Regions : Add(r)
        \/ \E at \in free, size \in Sizes : Alloc(at, size)
        \/ \E b \in blocks : Free(b)

Spec == Init /\ [][Next]_vars
-----------------------------------------------------------------------------
\* No chunk is both free and held, or held twice; none is lost.
Partition == /\ free \cup UNION blocks = memory
             /\ \A b \in blocks : b \cap free = {}
             /\ \A b, d \in blocks : b # d => b \cap d = {}
=============================================================================
