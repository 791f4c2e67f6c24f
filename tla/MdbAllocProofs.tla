--------------------------- MODULE MdbAllocProofs ---------------------------
(***************************************************************************)
(* Proofs about the two allocators: the list of free chunks of kmem_t, and  *)
(* the pages and buffers of the mapping database on top of it.              *)
(***************************************************************************)
EXTENDS MdbAlloc, FiniteSetTheorems, NaturalsInduction, WellFoundedInduction, TLAPS

(***************************************************************************)
(* Induction on natural numbers and the existence of functions defined by   *)
(* recursion on them, by way of the least counterexample, in a form without *)
(* operator parameters.                                                     *)
(***************************************************************************)
\* A non-empty set of naturals has a least element.
LEMMA LeastExists ==
  ASSUME NEW S \in SUBSET Nat, S # {}
  PROVE  \E j \in S : \A k \in S : j <= k
<1>1. PICK j \in S : \A k \in S : ~(<<k, j>> \in OpToRel(<, Nat))
  BY NatLessThanWellFounded, WFMin
<1>2. \A k \in S : ~(k < j)
  BY <1>1 DEF OpToRel
<1> QED BY <1>2

\* A set that has 0, and the successor of each of its members, has all naturals.
LEMMA InductiveSet ==
  ASSUME NEW S, 0 \in S, \A k \in Nat : k \in S => k + 1 \in S
  PROVE  \A k \in Nat : k \in S
<1> DEFINE T == {k \in Nat : k \notin S}
<1> SUFFICES ASSUME T # {} PROVE FALSE
  OBVIOUS
<1>1. PICK k \in T : \A j \in T : k <= j
  BY LeastExists
<1>2. k - 1 \in Nat /\ k - 1 \notin T
  BY <1>1
<1> QED BY <1>1, <1>2

\* What holds first, and after a step if it held before, holds all along.
LEMMA Induction ==
  ASSUME NEW n \in Nat, NEW F, NEW D,
         F[0] \in D, \A k \in 1 .. n : F[k - 1] \in D => F[k] \in D
  PROVE  \A k \in 0 .. n : F[k] \in D
<1> DEFINE S == {k \in 0 .. n : F[k] \notin D}
<1> SUFFICES ASSUME S # {} PROVE FALSE
  OBVIOUS
<1>1. S \in SUBSET Nat
  OBVIOUS
<1>2. PICK k \in S : \A j \in S : k <= j
  BY <1>1, LeastExists
<1>3. k # 0
  BY <1>2
<1>4. k \in 1 .. n /\ k - 1 \in 0 .. n /\ k - 1 \notin S
  BY <1>2, <1>3
<1> QED BY <1>2, <1>4

\* f starts with base and goes on with G, a function of the step and the last value.
Iterates(f, n, base, G, D) ==
  /\ f \in [0 .. n -> D]
  /\ f[0] = base
  /\ \A k \in 1 .. n : f[k] = G[<<k, f[k - 1]>>]

\* There is such a function.
LEMMA IterationExists ==
  ASSUME NEW D, NEW base \in D, NEW n \in Nat, NEW G \in [(1 .. n) \X D -> D]
  PROVE  \E f : Iterates(f, n, base, G, D)
<1> DEFINE S == {k \in 0 .. n : ~ \E f : Iterates(f, k, base, G, D)}
<1> SUFFICES ASSUME S # {} PROVE FALSE
  OBVIOUS
<1>1. S \in SUBSET Nat
  OBVIOUS
<1>2. PICK k \in S : \A j \in S : k <= j
  BY <1>1, LeastExists
<1>3. k # 0
  <2> DEFINE f == [j \in 0 .. 0 |-> base]
  <2>1. Iterates(f, 0, base, G, D)
    BY DEF Iterates
  <2> QED BY <2>1, <1>2
<1>4. k \in 1 .. n /\ k \in Nat /\ k - 1 \in 0 .. n /\ k - 1 \notin S
  BY <1>2, <1>3
<1>5. PICK f : Iterates(f, k - 1, base, G, D)
  BY <1>4
<1> DEFINE h == [j \in 0 .. k |-> IF j = k THEN G[<<k, f[k - 1]>>] ELSE f[j]]
<1>6. f \in [0 .. k - 1 -> D] /\ k - 1 \in 0 .. k - 1
  BY <1>4, <1>5 DEF Iterates
<1>7. h \in [0 .. k -> D]
  <2>1. G[<<k, f[k - 1]>>] \in D
    BY <1>4, <1>6
  <2>2. \A j \in 0 .. k : j # k => j \in 0 .. k - 1
    BY <1>4
  <2> QED BY <2>1, <2>2, <1>6
<1>8. h[0] = base
  BY <1>3, <1>4, <1>5 DEF Iterates
<1>9. ASSUME NEW j \in 1 .. k PROVE h[j] = G[<<j, h[j - 1]>>]
  <2>1. j - 1 \in 0 .. k - 1 /\ j - 1 # k /\ h[j - 1] = f[j - 1]
    BY <1>4
  <2>2. CASE j = k
    <3>1. h[k] = G[<<k, f[k - 1]>>]
      BY <1>4
    <3> HIDE DEF h
    <3> QED BY <3>1, <2>1, <2>2
  <2>3. CASE j # k
    <3>1. j \in 1 .. k - 1 /\ h[j] = f[j]
      BY <2>3, <1>4
    <3> QED BY <2>1, <3>1, <1>5 DEF Iterates
  <2> QED BY <2>2, <2>3
<1>10. Iterates(h, k, base, G, D)
  BY <1>7, <1>8, <1>9 DEF Iterates
<1> QED BY <1>2, <1>10

(* Arithmetic of chunks *)

Aligned(x) == x \in Nat /\ x % ChunkSize = 0

\* Multiples of the chunk size.
LEMMA MultipleOf ==
  ASSUME NEW x, Aligned(x)
  PROVE  x \div ChunkSize \in Nat /\ x = (x \div ChunkSize) * ChunkSize
BY KMemoryAssumption DEF Aligned

\* A multiple of the chunk size is aligned.
LEMMA MultipleAligned ==
  ASSUME NEW i \in Nat
  PROVE  i * ChunkSize \in Nat /\ Aligned(i * ChunkSize) /\ (i * ChunkSize) \div ChunkSize = i
BY KMemoryAssumption DEF Aligned

\* Multiples are ordered as their factors.
LEMMA MultipleOrder ==
  ASSUME NEW i \in Nat, NEW j \in Nat
  PROVE  /\ i * ChunkSize < j * ChunkSize <=> i < j
         /\ i < j => i * ChunkSize + ChunkSize <= j * ChunkSize
         /\ (i + j) * ChunkSize = i * ChunkSize + j * ChunkSize
         /\ (i + 1) * ChunkSize = i * ChunkSize + ChunkSize
         /\ 0 * ChunkSize = 0
BY KMemoryAssumption

\* Chunks stay aligned, and are a chunk apart.
LEMMA AlignedAdd ==
  ASSUME NEW x, Aligned(x), NEW i \in Nat
  PROVE  Aligned(x + i * ChunkSize)
<1>1. PICK k \in Nat : x = k * ChunkSize
  BY MultipleOf
<1>2. x + i * ChunkSize = (k + i) * ChunkSize /\ k + i \in Nat
  BY <1>1, MultipleOrder
<1> QED BY <1>2, MultipleAligned

\* Aligned addresses are a chunk apart.
LEMMA AlignedApart ==
  ASSUME NEW x, Aligned(x), NEW y, Aligned(y), x < y
  PROVE  x + ChunkSize <= y
<1>1. PICK i \in Nat : x = i * ChunkSize
  BY MultipleOf
<1>2. PICK j \in Nat : y = j * ChunkSize
  BY MultipleOf
<1>3. i < j
  BY <1>1, <1>2, MultipleOrder
<1> QED BY <1>1, <1>2, <1>3, MultipleOrder

\* An aligned address from at on, and less than n chunks behind it, is one of the n.
LEMMA AlignedWithin ==
  ASSUME NEW at, Aligned(at), NEW y, Aligned(y), NEW n \in Nat,
         at <= y, y < at + n * ChunkSize
  PROVE  \E i \in 0 .. n - 1 : y = at + i * ChunkSize
<1>1. PICK i \in Nat : at = i * ChunkSize
  BY MultipleOf
<1>2. PICK j \in Nat : y = j * ChunkSize
  BY MultipleOf
<1>3. at + n * ChunkSize = (i + n) * ChunkSize /\ i + n \in Nat
  BY <1>1, MultipleOrder
<1>4. i <= j /\ j < i + n
  <2>1. ~(j < i)
    BY <1>1, <1>2, MultipleOrder, MultipleAligned
  <2> QED BY <2>1, <1>1, <1>2, <1>3, MultipleOrder
<1>5. j - i \in Nat /\ i + (j - i) = j
  BY <1>4
<1>6. (i + (j - i)) * ChunkSize = i * ChunkSize + (j - i) * ChunkSize
  BY <1>5, MultipleOrder
<1> QED BY <1>1, <1>2, <1>4, <1>5, <1>6
-----------------------------------------------------------------------------
(* Chunks of a block *)

\* n chunks from at on.
Run(at, n) == {at + i * ChunkSize : i \in 0 .. n - 1}

\* A run has n chunks: the aligned addresses in its range.
LEMMA RunFacts ==
  ASSUME NEW at, Aligned(at), NEW n \in Nat
  PROVE  /\ IsFiniteSet(Run(at, n)) /\ Cardinality(Run(at, n)) = n
         /\ \A c \in Run(at, n) : Aligned(c) /\ at <= c /\ c < at + n * ChunkSize
         /\ \A c : Aligned(c) /\ at <= c /\ c < at + n * ChunkSize => c \in Run(at, n)
         /\ n # 0 => at \in Run(at, n)
<1>0. at \in Nat /\ ChunkSize \in Nat /\ ChunkSize # 0
  BY KMemoryAssumption DEF Aligned
<1>1. \A i \in 0 .. n - 1 : i \in Nat /\ i * ChunkSize \in Nat /\ i * ChunkSize < n * ChunkSize
  BY MultipleOrder, MultipleAligned
<1>2. \A c \in Run(at, n) : Aligned(c) /\ at <= c /\ c < at + n * ChunkSize
  <2> SUFFICES ASSUME NEW i \in 0 .. n - 1
               PROVE  /\ Aligned(at + i * ChunkSize) /\ at <= at + i * ChunkSize
                      /\ at + i * ChunkSize < at + n * ChunkSize
    BY DEF Run
  <2>1. Aligned(at + i * ChunkSize)
    BY <1>1, AlignedAdd
  <2>2. n * ChunkSize \in Nat
    BY MultipleAligned
  <2> QED BY <2>1, <2>2, <1>0, <1>1
<1>3. ASSUME NEW c, Aligned(c) /\ at <= c /\ c < at + n * ChunkSize PROVE c \in Run(at, n)
  <2>1. \E i \in 0 .. n - 1 : c = at + i * ChunkSize
    BY <1>3, AlignedWithin
  <2> QED BY <2>1 DEF Run
<1>4. n # 0 => at \in Run(at, n)
  <2>1. n # 0 => 0 \in 0 .. n - 1 /\ at + 0 * ChunkSize = at
    BY <1>0, MultipleOrder
  <2> QED BY <2>1 DEF Run
<1>5. IsFiniteSet(Run(at, n)) /\ Cardinality(Run(at, n)) = n
  <2> DEFINE f == [i \in 0 .. n - 1 |-> at + i * ChunkSize]
  <2>1. IsFiniteSet(0 .. n - 1) /\ Cardinality(0 .. n - 1) = n
    BY FS_Interval
  <2>2. f \in Surjection(0 .. n - 1, Run(at, n))
    BY DEF Run, Surjection
  <2>3. ASSUME NEW i \in 0 .. n - 1, NEW j \in 0 .. n - 1, f[i] = f[j] PROVE i = j
    <3>1. i * ChunkSize = j * ChunkSize
      BY <2>3, <1>0, <1>1
    <3>2. ~(i < j) /\ ~(j < i)
      BY <3>1, <1>1, MultipleOrder
    <3> QED BY <3>2
  <2>4. f \in Injection(0 .. n - 1, Run(at, n))
    BY <2>2, <2>3 DEF Injection, IsInjective, Surjection
  <2> HIDE DEF f
  <2> QED BY <2>1, <2>2, <2>4, FS_Surjection
<1> QED BY <1>2, <1>3, <1>4, <1>5
-----------------------------------------------------------------------------
(* Following links *)

Words0 == [AllChunks -> AllChunks \cup {Null}]

\* f has the chunks up to N links behind c.
IsWalk(f, w, c, N) ==
  /\ f \in [0 .. N -> AllChunks \cup {Null}]
  /\ f[0] = c
  /\ \A n \in 1 .. N : f[n] = IF f[n - 1] = Null THEN Null ELSE w[f[n - 1]]
  /\ \A n \in 0 .. N : After(w, c, n) = f[n]

\* The chunks i links behind c, for i up to N, are the steps of one walk.
LEMMA AfterWalk ==
  ASSUME NEW w \in Words0, NEW c \in AllChunks \cup {Null}, NEW N \in Nat
  PROVE  \E f : IsWalk(f, w, c, N)
<1> DEFINE D == AllChunks \cup {Null}
           Hop(p) == IF p = Null THEN Null ELSE w[p]
           G == [kx \in (1 .. N) \X D |-> Hop(kx[2])]
<1>2. \A p \in D : Hop(p) \in D
  BY DEF Words0
<1>3. G \in [(1 .. N) \X D -> D]
  BY <1>2
<1> HIDE DEF D, G, Hop
<1>4. PICK f : Iterates(f, N, c, G, D)
  <2>1. c \in D
    BY DEF D
  <2> QED BY <2>1, <1>3, IterationExists
<1>5. f \in [0 .. N -> D] /\ f[0] = c
  BY <1>4 DEF Iterates
<1>6. ASSUME NEW n \in 1 .. N PROVE f[n] = Hop(f[n - 1])
  <2>1. f[n] = G[<<n, f[n - 1]>>] /\ n - 1 \in 0 .. N
    BY <1>4 DEF Iterates
  <2>2. <<n, f[n - 1]>> \in (1 .. N) \X D
    BY <2>1, <1>5
  <2> QED BY <2>1, <2>2 DEF G
<1>7. ASSUME NEW n \in 0 .. N PROVE After(w, c, n) = f[n]
  <2> DEFINE Walk(g) == [k \in 0 .. n |-> IF k = 0 THEN c ELSE Hop(g[k - 1])]
             h == [k \in 0 .. n |-> f[k]]
             W == CHOOSE g : g = Walk(g)
  <2>1. n \in Nat /\ 0 \in 0 .. n /\ n \in 0 .. n
    OBVIOUS
  <2>2. \A k \in 0 .. n : k # 0 => k \in 1 .. N /\ k \in 1 .. n /\ k - 1 \in 0 .. n
    OBVIOUS
  <2>3. \A k \in 0 .. n : h[k] = Walk(h)[k]
    BY <2>2, <1>5, <1>6
  <2>4. h = Walk(h)
    BY <2>3
  <2>5. W = Walk(W)
    <3> HIDE DEF Walk, h
    <3> QED BY <2>4
  <2>6. After(w, c, n) = W[n]
    BY DEF After, Hop
  <2> HIDE DEF W
  <2> DEFINE F == [k \in 0 .. n |-> <<W[k], f[k]>>]
             E == {<<x, x>> : x \in D}
  <2>7. F[0] \in E
    BY <2>1, <2>5, <1>5
  <2>8. ASSUME NEW k \in 1 .. n, F[k - 1] \in E PROVE F[k] \in E
    <3>1. k \in 0 .. n /\ k - 1 \in 0 .. n /\ k # 0 /\ k \in 1 .. N
      OBVIOUS
    <3>2. W[k - 1] = f[k - 1] /\ f[k - 1] \in D
      BY <3>1, <2>8
    <3>3. W[k] = Hop(W[k - 1])
      BY <3>1, <2>5
    <3>4. f[k] = Hop(f[k - 1])
      BY <3>1, <1>6
    <3> QED BY <3>1, <3>2, <3>3, <3>4, <1>2
  <2> HIDE DEF F, E
  <2>9. \A k \in 0 .. n : F[k] \in E
    BY <2>1, <2>7, <2>8, Induction
  <2>10. <<W[n], f[n]>> \in E
    BY <2>1, <2>9 DEF F
  <2> QED BY <2>6, <2>10 DEF E
<1>8. IsWalk(f, w, c, N)
  BY <1>5, <1>6, <1>7 DEF D, Hop, IsWalk
<1> QED BY <1>8

\* The recursion of After.
LEMMA AfterRec ==
  ASSUME NEW w \in Words0, NEW c \in AllChunks \cup {Null}
  PROVE  /\ After(w, c, 0) = c
         /\ \A i \in Nat : /\ After(w, c, i) \in AllChunks \cup {Null}
                           /\ After(w, c, i + 1) = IF After(w, c, i) = Null THEN Null
                                                   ELSE w[After(w, c, i)]
<1>1. ASSUME NEW i \in Nat
      PROVE  /\ After(w, c, 0) = c
             /\ After(w, c, i) \in AllChunks \cup {Null}
             /\ After(w, c, i + 1) = IF After(w, c, i) = Null THEN Null ELSE w[After(w, c, i)]
  <2>0. PICK N \in Nat : N = i + 1
    OBVIOUS
  <2>1. PICK f : IsWalk(f, w, c, N)
    BY AfterWalk
  <2>2. 0 \in 0 .. N /\ i \in 0 .. N /\ N \in 0 .. N /\ N \in 1 .. N /\ N - 1 = i
    BY <2>0
  <2> QED BY <2>0, <2>1, <2>2 DEF IsWalk
<1>2. 0 \in Nat
  OBVIOUS
<1> QED BY <1>1, <1>2
-----------------------------------------------------------------------------
(* Lists in the order of a rank *)

\* All chunks are aligned, and finitely many.
LEMMA ChunksFacts ==
  /\ IsFiniteSet(AllChunks) /\ Cardinality(AllChunks) \in Nat
  /\ \A c \in AllChunks : Aligned(c)
  /\ AllChunks \subseteq Nat /\ Null \notin AllChunks
  /\ ChunkSize \in Nat /\ ChunkSize # 0
<1>1. IsFiniteSet({Boot} \cup Added) /\ \A r \in {Boot} \cup Added : IsFiniteSet(r)
  <2>1. IsFiniteSet(Added \cup {Boot})
    BY KMemoryAssumption, FS_AddElement
  <2>2. Added \cup {Boot} = {Boot} \cup Added
    OBVIOUS
  <2> QED BY <2>1, <2>2, KMemoryAssumption
<1>2. IsFiniteSet(AllChunks)
  BY <1>1, FS_UNION DEF AllChunks
<1>3. \A c \in AllChunks : Aligned(c)
  BY KMemoryAssumption DEF AllChunks, Aligned
<1> QED BY <1>2, <1>3, FS_CardinalityType, KMemoryAssumption DEF Aligned

Below(F, o, x) == {d \in F : o[d] < o[x]}

\* x is the first chunk of F whose rank is above lo, or Null if there is none.
Follows(F, o, lo, x) ==
  IF x = Null THEN \A d \in F : o[d] <= lo
  ELSE x \in F /\ lo < o[x] /\ \A d \in F : o[d] <= lo \/ o[x] <= o[d]

\* The ranks o tell the chunks of F apart, and are all above lo.
Ranked(F, o, lo) ==
  /\ F \in SUBSET AllChunks /\ o \in [AllChunks -> Int] /\ lo \in Int
  /\ \A c, d \in F : o[c] = o[d] => c = d
  /\ \A c \in F : lo < o[c]

\* The links w, from head on, go through F in the order of the ranks.
Chain(F, o, lo, head, w) ==
  /\ Ranked(F, o, lo) /\ w \in Words0 /\ head \in AllChunks \cup {Null}
  /\ Follows(F, o, lo, head)
  /\ \A c \in F : Follows(F, o, o[c], w[c])

\* The number of chunks before one.
LEMMA BelowCount ==
  ASSUME NEW F, NEW o, NEW lo, Ranked(F, o, lo)
  PROVE  /\ IsFiniteSet(F) /\ Cardinality(F) \in Nat
         /\ Cardinality(F) <= Cardinality(AllChunks)
         /\ \A x : Cardinality(Below(F, o, x)) \in Nat
         /\ \A x \in F : Cardinality(Below(F, o, x)) < Cardinality(F)
         /\ \A x \in F : Cardinality(Below(F, o, x) \cup {x}) = Cardinality(Below(F, o, x)) + 1
         /\ \A x, y \in F : o[x] < o[y] => Cardinality(Below(F, o, x)) < Cardinality(Below(F, o, y))
<1>0. F \in SUBSET AllChunks /\ \A d \in F : o[d] \in Int
  BY DEF Ranked
<1>1. IsFiniteSet(F) /\ Cardinality(F) \in Nat /\ Cardinality(F) <= Cardinality(AllChunks)
  BY <1>0, ChunksFacts, FS_Subset, FS_CardinalityType
<1>2. \A x : Below(F, o, x) \subseteq F
  BY DEF Below
<1>3. \A x : IsFiniteSet(Below(F, o, x)) /\ Cardinality(Below(F, o, x)) \in Nat
  BY <1>1, <1>2, FS_Subset, FS_CardinalityType
<1>4. \A x \in F : x \notin Below(F, o, x)
  BY <1>0 DEF Below
<1>5. \A x \in F : /\ IsFiniteSet(Below(F, o, x) \cup {x})
                   /\ Cardinality(Below(F, o, x) \cup {x}) = Cardinality(Below(F, o, x)) + 1
  BY <1>3, <1>4, FS_AddElement
<1>6. ASSUME NEW x \in F PROVE Cardinality(Below(F, o, x)) < Cardinality(F)
  <2>1. Cardinality(Below(F, o, x) \cup {x}) <= Cardinality(F)
    BY <1>1, <1>2, FS_Subset
  <2>2. /\ Cardinality(Below(F, o, x)) \in Nat /\ Cardinality(F) \in Nat
        /\ Cardinality(Below(F, o, x) \cup {x}) = Cardinality(Below(F, o, x)) + 1
    BY <1>1, <1>3, <1>5
  <2> QED BY <2>1, <2>2
<1>7. ASSUME NEW x \in F, NEW y \in F, o[x] < o[y]
      PROVE  Cardinality(Below(F, o, x)) < Cardinality(Below(F, o, y))
  <2>1. Below(F, o, x) \cup {x} \subseteq Below(F, o, y)
    <3>2. \A d \in F : o[d] < o[x] => o[d] < o[y]
      BY <1>0, <1>7
    <3> QED BY <3>2, <1>7 DEF Below
  <2>2. Cardinality(Below(F, o, x) \cup {x}) <= Cardinality(Below(F, o, y))
    BY <2>1, <1>3, FS_Subset
  <2> QED BY <2>2, <1>3, <1>5
<1> QED BY <1>1, <1>3, <1>5, <1>6, <1>7

\* The chunk k links behind the head is the one with k chunks before it.
LEMMA ChainWalk ==
  ASSUME NEW F, NEW o, NEW lo, NEW head, NEW w, Chain(F, o, lo, head, w)
  PROVE  \A k \in Nat :
           IF After(w, head, k) = Null THEN Cardinality(F) <= k
           ELSE After(w, head, k) \in F /\ Cardinality(Below(F, o, After(w, head, k))) = k
<1> DEFINE Good(k) == IF After(w, head, k) = Null THEN Cardinality(F) <= k
                      ELSE After(w, head, k) \in F /\ Cardinality(Below(F, o, After(w, head, k))) = k
           S == {k \in Nat : Good(k)}
<1>1. Ranked(F, o, lo) /\ w \in Words0 /\ head \in AllChunks \cup {Null}
  BY DEF Chain
<1>2. F \in SUBSET AllChunks /\ lo \in Int /\ \A d \in F : o[d] \in Int /\ lo < o[d]
  BY <1>1 DEF Ranked
<1>3. Cardinality(F) \in Nat /\ \A x \in F : Cardinality(Below(F, o, x) \cup {x}) = Cardinality(Below(F, o, x)) + 1
  BY <1>1, BelowCount
<1>4. After(w, head, 0) = head
  BY <1>1, AfterRec
<1>5. 0 \in S
  <2>1. CASE head = Null
    <3>1. F = {}
      BY <2>1, <1>2 DEF Chain, Follows
    <3>2. Cardinality(F) = 0
      BY <3>1, FS_EmptySet
    <3> QED BY <3>2, <2>1, <1>4
  <2>2. CASE head # Null
    <3>1. head \in F /\ \A d \in F : o[head] <= o[d]
      BY <2>2, <1>2 DEF Chain, Follows
    <3>2. Below(F, o, head) = {}
      BY <3>1, <1>2 DEF Below
    <3>3. Cardinality(Below(F, o, head)) = 0
      BY <3>2, FS_EmptySet
    <3> QED BY <3>1, <3>3, <2>2, <1>4
  <2> QED BY <2>1, <2>2
<1>6. ASSUME NEW k \in Nat, k \in S PROVE k + 1 \in S
  <2>1. PICK p : p = After(w, head, k)
    OBVIOUS
  <2>2. PICK x : x = After(w, head, k + 1)
    OBVIOUS
  <2>3. x = IF p = Null THEN Null ELSE w[p]
    BY <2>1, <2>2, <1>1, AfterRec
  <2>4. IF p = Null THEN Cardinality(F) <= k ELSE p \in F /\ Cardinality(Below(F, o, p)) = k
    BY <1>6, <2>1
  <2>5. IF x = Null THEN Cardinality(F) <= k + 1 ELSE x \in F /\ Cardinality(Below(F, o, x)) = k + 1
    <3>1. CASE p = Null
      BY <3>1, <2>3, <2>4, <1>3
    <3>2. CASE p # Null /\ x = Null
      <4>1. p \in F /\ Follows(F, o, o[p], x)
        BY <3>2, <2>3, <2>4 DEF Chain
      <4>2. \A d \in F : o[d] <= o[p]
        BY <4>1, <3>2 DEF Follows
      <4>3. \A d \in F : o[d] < o[p] \/ d = p
        BY <4>1, <4>2, <1>1, <1>2 DEF Ranked
      <4>4. F = Below(F, o, p) \cup {p}
        BY <4>1, <4>3 DEF Below
      <4> QED BY <4>1, <4>4, <3>2, <2>4, <1>3
    <3>3. CASE p # Null /\ x # Null
      <4>1. p \in F /\ Follows(F, o, o[p], x)
        BY <3>3, <2>3, <2>4 DEF Chain
      <4>2. x \in F /\ o[p] < o[x] /\ \A d \in F : o[d] <= o[p] \/ o[x] <= o[d]
        BY <4>1, <3>3 DEF Follows
      <4>3. \A d \in F : o[d] < o[x] <=> (o[d] < o[p] \/ d = p)
        <5> SUFFICES ASSUME NEW d \in F PROVE o[d] < o[x] <=> (o[d] < o[p] \/ d = p)
          OBVIOUS
        <5>1. o[d] \in Int /\ o[x] \in Int /\ o[p] \in Int
          BY <4>1, <4>2, <1>2
        <5>2. o[d] = o[p] => d = p
          BY <4>1, <1>1 DEF Ranked
        <5> QED BY <4>2, <5>1, <5>2
      <4>4. Below(F, o, x) = Below(F, o, p) \cup {p}
        BY <4>1, <4>3 DEF Below
      <4> QED BY <4>1, <4>2, <4>4, <3>3, <2>4, <1>3
    <3> QED BY <3>1, <3>2, <3>3
  <2> QED BY <2>2, <2>5
<1> HIDE DEF S
<1>7. \A k \in Nat : k \in S
  BY <1>5, <1>6, InductiveSet
<1> QED BY <1>7 DEF S

\* So the list has as many chunks as F, is in order, and has all of F.
LEMMA ChainList ==
  ASSUME NEW F, NEW o, NEW lo, NEW head, NEW w, Chain(F, o, lo, head, w)
  PROVE  /\ \A k \in Nat : After(w, head, k) = Null <=> Cardinality(F) <= k
         /\ \A k \in Nat : After(w, head, k) # Null =>
              /\ After(w, head, k) \in F
              /\ Cardinality(Below(F, o, After(w, head, k))) = k
              /\ After(w, head, k + 1) = w[After(w, head, k)]
         /\ \A d \in F : After(w, head, Cardinality(Below(F, o, d))) = d
<1>1. Ranked(F, o, lo) /\ w \in Words0 /\ head \in AllChunks \cup {Null}
  BY DEF Chain
<1>2. Cardinality(F) \in Nat /\ (\A x \in F : /\ Cardinality(Below(F, o, x)) \in Nat
                                            /\ Cardinality(Below(F, o, x)) < Cardinality(F))
  BY <1>1, BelowCount
<1>3. ASSUME NEW k \in Nat
      PROVE  /\ After(w, head, k) = Null <=> Cardinality(F) <= k
             /\ After(w, head, k) # Null =>
                  /\ After(w, head, k) \in F
                  /\ Cardinality(Below(F, o, After(w, head, k))) = k
                  /\ After(w, head, k + 1) = w[After(w, head, k)]
  <2>1. IF After(w, head, k) = Null THEN Cardinality(F) <= k
        ELSE After(w, head, k) \in F /\ Cardinality(Below(F, o, After(w, head, k))) = k
    BY ChainWalk
  <2>2. After(w, head, k + 1) = IF After(w, head, k) = Null THEN Null ELSE w[After(w, head, k)]
    BY <1>1, AfterRec
  <2>3. After(w, head, k) # Null => ~(Cardinality(F) <= k)
    BY <2>1, <1>2
  <2> QED BY <2>1, <2>2, <2>3
<1>4. ASSUME NEW d \in F PROVE After(w, head, Cardinality(Below(F, o, d))) = d
  <2>1. PICK k \in Nat : k = Cardinality(Below(F, o, d))
    BY <1>2
  <2>2. ~(Cardinality(F) <= k)
    BY <2>1, <1>2
  <2>3. PICK e \in F : e = After(w, head, k) /\ Cardinality(Below(F, o, e)) = k
    BY <2>2, <1>3
  <2>4. o[d] \in Int /\ o[e] \in Int /\ (o[d] = o[e] => d = e)
    BY <1>1 DEF Ranked
  <2>5. ~(o[d] < o[e]) /\ ~(o[e] < o[d])
    BY <2>1, <2>3, <1>1, <1>2, BelowCount
  <2>6. d = e
    BY <2>4, <2>5
  <2> QED BY <2>1, <2>3, <2>6
<1> QED BY <1>3, <1>4

\* The rest of a list, from one of its chunks on, is a list.
LEMMA ChainRest ==
  ASSUME NEW F, NEW o, NEW lo, NEW head, NEW w, Chain(F, o, lo, head, w), NEW c \in F
  PROVE  Chain({d \in F : o[c] <= o[d]}, o, o[c] - 1, c, w)
<1> DEFINE G == {d \in F : o[c] <= o[d]}
<1>1. /\ F \in SUBSET AllChunks /\ o \in [AllChunks -> Int] /\ w \in Words0 /\ Null \notin F
      /\ \A d, e \in F : o[d] = o[e] => d = e
      /\ \A d \in F : o[d] \in Int
      /\ \A d \in F : Follows(F, o, o[d], w[d])
  BY ChunksFacts DEF Chain, Ranked
<1>2. Ranked(G, o, o[c] - 1)
  BY <1>1 DEF Ranked
<1>3. Follows(G, o, o[c] - 1, c)
  BY <1>1 DEF Follows
<1>4. ASSUME NEW d \in G PROVE Follows(G, o, o[d], w[d])
  <2>1. Follows(F, o, o[d], w[d]) /\ o[c] <= o[d]
    BY <1>1
  <2>2. CASE w[d] = Null
    BY <2>1, <2>2 DEF Follows
  <2>3. CASE w[d] # Null
    <3>1. w[d] \in F /\ o[d] < o[w[d]] /\ \A e \in F : o[e] <= o[d] \/ o[w[d]] <= o[e]
      BY <2>1, <2>3 DEF Follows
    <3>2. w[d] \in G
      BY <3>1, <2>1, <1>1
    <3> QED BY <3>1, <3>2, <2>3 DEF Follows
  <2> QED BY <2>2, <2>3
<1> QED BY <1>1, <1>2, <1>3, <1>4 DEF Chain

\* The chunks from c up to r, or to the end.
Stretch(F, o, c, r) == {d \in F : o[c] <= o[d] /\ (r = Null \/ o[d] < o[r])}

\* They leave the list when r takes the place of c.
LEMMA Unlink ==
  ASSUME NEW F, NEW o, NEW lo, NEW head, NEW w, Chain(F, o, lo, head, w),
         NEW c \in F, NEW r \in F \cup {Null}, r # Null => o[c] < o[r],
         NEW w2 \in Words0,
         \A d \in F \ Stretch(F, o, c, r) : w2[d] = IF w[d] = c THEN r ELSE w[d]
  PROVE  Chain(F \ Stretch(F, o, c, r), o, lo, IF head = c THEN r ELSE head, w2)
<1> DEFINE R == Stretch(F, o, c, r)
           G == F \ R
<1>1. /\ F \in SUBSET AllChunks /\ o \in [AllChunks -> Int] /\ lo \in Int
      /\ head \in AllChunks \cup {Null} /\ Null \notin F
      /\ \A d, e \in F : o[d] = o[e] => d = e
      /\ \A d \in F : o[d] \in Int /\ lo < o[d]
      /\ \A d \in F : Follows(F, o, o[d], w[d])
      /\ Follows(F, o, lo, head)
  BY ChunksFacts DEF Chain, Ranked
<1>2. \A d \in F : d \in R <=> o[c] <= o[d] /\ (r = Null \/ o[d] < o[r])
  BY DEF Stretch
<1>3. ASSUME NEW l \in Int, NEW x, Follows(F, o, l, x), l < o[c] \/ (r # Null /\ o[r] <= l)
      PROVE  Follows(G, o, l, IF x = c THEN r ELSE x)
  <2> HIDE DEF R
  <2>1. CASE x = c /\ r = Null
    <3>1. \A d \in F : o[d] <= l \/ o[c] <= o[d]
      BY <1>3, <2>1, <1>1 DEF Follows
    <3> QED BY <3>1, <2>1, <1>2 DEF Follows
  <2>2. CASE x = c /\ r # Null
    <3>1. l < o[c] /\ \A d \in F : o[d] <= l \/ o[c] <= o[d]
      BY <1>3, <2>2, <1>1 DEF Follows
    <3>2. r \in G /\ l < o[r]
      BY <3>1, <2>2, <1>1, <1>2
    <3>3. \A d \in G : o[d] <= l \/ o[r] <= o[d]
      BY <3>1, <2>2, <1>1, <1>2
    <3> QED BY <3>2, <3>3, <2>2 DEF Follows
  <2>3. CASE x # c /\ x = Null
    BY <1>3, <2>3 DEF Follows
  <2>4. CASE x # c /\ x # Null
    <3>1. x \in F /\ l < o[x] /\ \A d \in F : o[d] <= l \/ o[x] <= o[d]
      BY <1>3, <2>4 DEF Follows
    <3>2. x \notin R
      <4>1. CASE l < o[c]
        <5>1. o[x] <= o[c] /\ o[x] # o[c] /\ o[x] \in Int /\ o[c] \in Int
          BY <4>1, <3>1, <2>4, <1>1
        <5> QED BY <5>1, <3>1, <1>2
      <4>2. CASE r # Null /\ o[r] <= l
        BY <4>2, <3>1, <1>1, <1>2
      <4> QED BY <4>1, <4>2, <1>3
    <3> QED BY <3>1, <3>2, <2>4 DEF Follows
  <2> QED BY <2>1, <2>2, <2>3, <2>4
<1>4. Ranked(G, o, lo)
  BY <1>1 DEF Ranked
<1>5. Follows(G, o, lo, IF head = c THEN r ELSE head)
  BY <1>1, <1>3
<1>6. ASSUME NEW d \in G PROVE Follows(G, o, o[d], w2[d])
  <2>1. o[d] < o[c] \/ (r # Null /\ o[r] <= o[d])
    BY <1>1, <1>2
  <2>2. Follows(F, o, o[d], w[d]) /\ o[d] \in Int
    BY <1>1
  <2>3. Follows(G, o, o[d], IF w[d] = c THEN r ELSE w[d])
    BY <2>1, <2>2, <1>3
  <2> QED BY <2>3
<1>7. (IF head = c THEN r ELSE head) \in AllChunks \cup {Null}
  BY <1>1
<1> HIDE DEF G
<1>8. Chain(G, o, lo, IF head = c THEN r ELSE head, w2)
  BY <1>4, <1>5, <1>6, <1>7 DEF Chain
<1> QED BY <1>8 DEF G

\* A chunk that is put in front of a list gets the rank below all others.
LEMMA Front ==
  ASSUME NEW F, NEW o, NEW lo, NEW head, NEW w, Chain(F, o, lo, head, w),
         NEW p \in AllChunks \ F, NEW w2 \in Words0,
         w2[p] = head, \A d \in F : w2[d] = w[d]
  PROVE  Chain(F \cup {p}, [o EXCEPT ![p] = lo], lo - 1, p, w2)
<1> DEFINE q == [o EXCEPT ![p] = lo]
           G == F \cup {p}
<1>1. /\ F \in SUBSET AllChunks /\ o \in [AllChunks -> Int] /\ lo \in Int /\ Null \notin AllChunks
      /\ \A d, e \in F : o[d] = o[e] => d = e
      /\ \A d \in F : o[d] \in Int /\ lo < o[d]
      /\ \A d \in F : Follows(F, o, o[d], w[d])
      /\ Follows(F, o, lo, head)
  BY ChunksFacts DEF Chain, Ranked
<1>2. q \in [AllChunks -> Int] /\ q[p] = lo /\ \A d \in F : q[d] = o[d]
  BY <1>1
<1> HIDE DEF q
<1>3. Ranked(G, q, lo - 1)
  BY <1>1, <1>2 DEF Ranked
<1>4. Follows(G, q, lo - 1, p)
  BY <1>1, <1>2 DEF Follows
<1>5. Follows(G, q, q[p], w2[p])
  BY <1>1, <1>2 DEF Follows
<1>6. ASSUME NEW d \in F PROVE Follows(G, q, q[d], w2[d])
  <2>1. Follows(F, o, o[d], w[d]) /\ w2[d] = w[d] /\ lo < o[d]
    BY <1>1
  <2>2. CASE w[d] = Null
    BY <2>1, <2>2, <1>1, <1>2 DEF Follows
  <2>3. CASE w[d] # Null
    <3>1. w[d] \in F /\ o[d] < o[w[d]] /\ \A e \in F : o[e] <= o[d] \/ o[w[d]] <= o[e]
      BY <2>1, <2>3 DEF Follows
    <3>2. \A e \in G : q[e] <= q[d] \/ q[w[d]] <= q[e]
      BY <2>1, <3>1, <1>1, <1>2
    <3> QED BY <2>1, <2>3, <3>1, <3>2, <1>2 DEF Follows
  <2> QED BY <2>2, <2>3
<1>7. Chain(G, q, lo - 1, p, w2)
  BY <1>3, <1>4, <1>5, <1>6 DEF Chain
<1> QED BY <1>7 DEF q
-----------------------------------------------------------------------------
(* The list of free chunks is in the order of their addresses *)

Addr == [c \in AllChunks |-> c]
Sorted(F, head, w) == Chain(F, Addr, -1, head, w)

\* The same in terms of addresses.
LEMMA SortedFacts ==
  ASSUME NEW F, NEW head, NEW w
  PROVE  Sorted(F, head, w) <=>
           /\ F \in SUBSET AllChunks /\ w \in Words0 /\ head \in AllChunks \cup {Null}
           /\ IF head = Null THEN F = {} ELSE head \in F /\ \A d \in F : head <= d
           /\ \A c \in F : IF w[c] = Null THEN \A d \in F : d <= c
                           ELSE w[c] \in F /\ c < w[c] /\ \A d \in F : d <= c \/ w[c] <= d
<1>1. /\ Addr \in [AllChunks -> Int] /\ \A c \in AllChunks : Addr[c] = c /\ c \in Nat /\ -1 < c
      /\ Null \notin AllChunks
  BY ChunksFacts DEF Addr
<1>2. -1 \in Int
  OBVIOUS
<1>3. F \in SUBSET AllChunks => Ranked(F, Addr, -1)
  BY <1>1, <1>2 DEF Ranked
<1>4. ASSUME F \in SUBSET AllChunks
      PROVE  /\ Follows(F, Addr, -1, head) <=>
                  IF head = Null THEN F = {} ELSE head \in F /\ \A d \in F : head <= d
             /\ \A c \in F : Follows(F, Addr, Addr[c], w[c]) <=>
                  IF w[c] = Null THEN \A d \in F : d <= c
                  ELSE w[c] \in F /\ c < w[c] /\ \A d \in F : d <= c \/ w[c] <= d
  <2>1. \A d \in F : Addr[d] = d /\ d \in Nat /\ ~(d <= -1) /\ -1 < d
    BY <1>1, <1>4
  <2>2. Follows(F, Addr, -1, head) <=> IF head = Null THEN F = {} ELSE head \in F /\ \A d \in F : head <= d
    <3>1. CASE head = Null
      BY <3>1, <2>1 DEF Follows
    <3>2. CASE head # Null
      BY <3>2, <2>1 DEF Follows
    <3> QED BY <3>1, <3>2
  <2>3. ASSUME NEW c \in F
        PROVE  Follows(F, Addr, Addr[c], w[c]) <=>
                  IF w[c] = Null THEN \A d \in F : d <= c
                  ELSE w[c] \in F /\ c < w[c] /\ \A d \in F : d <= c \/ w[c] <= d
    <3>1. CASE w[c] = Null
      BY <3>1, <2>1 DEF Follows
    <3>2. CASE w[c] # Null
      BY <3>2, <2>1 DEF Follows
    <3> QED BY <3>1, <3>2
  <2> QED BY <2>2, <2>3
<1>5. Sorted(F, head, w) => F \in SUBSET AllChunks
  BY DEF Sorted, Chain, Ranked
<1> QED BY <1>3, <1>4, <1>5 DEF Sorted, Chain

\* The last of n chunks, and the neighbours of the others.
LEMMA RunLast ==
  ASSUME NEW at, Aligned(at), NEW n \in Nat \ {0}
  PROVE  /\ at + (n - 1) * ChunkSize \in Run(at, n)
         /\ \A c \in Run(at, n) : c <= at + (n - 1) * ChunkSize
         /\ \A c \in Run(at, n) : c # at + (n - 1) * ChunkSize => c + ChunkSize \in Run(at, n)
         /\ \A c : Aligned(c) /\ at <= c /\ c \notin Run(at, n) => at + (n - 1) * ChunkSize < c
<1>0. at \in Nat /\ ChunkSize \in Nat /\ n - 1 \in Nat
  BY KMemoryAssumption DEF Aligned
<1>1. PICK last : last = at + (n - 1) * ChunkSize
  OBVIOUS
<1>2. last \in Run(at, n)
  BY <1>1 DEF Run
<1>3. Aligned(last) /\ last \in Nat /\ last + ChunkSize = at + n * ChunkSize
  <2>1. (n - 1) * ChunkSize + ChunkSize = ((n - 1) + 1) * ChunkSize /\ (n - 1) * ChunkSize \in Nat
    BY <1>0, MultipleOrder, MultipleAligned
  <2>2. (n - 1) + 1 = n
    OBVIOUS
  <2>3. Aligned(last)
    BY <1>0, <1>1, AlignedAdd
  <2> QED BY <2>1, <2>2, <2>3, <1>0, <1>1 DEF Aligned
<1>4. \A c \in Run(at, n) : Aligned(c) /\ c \in Nat /\ at <= c /\ c < last + ChunkSize
  BY <1>3, RunFacts DEF Aligned
<1>5. ASSUME NEW c \in Run(at, n) PROVE c <= last
  <2>1. last < c => last + ChunkSize <= c
    BY <1>3, <1>4, AlignedApart
  <2> QED BY <2>1, <1>0, <1>3, <1>4
<1>6. ASSUME NEW c \in Run(at, n), c # last PROVE c + ChunkSize \in Run(at, n)
  <2>1. c < last /\ Aligned(c) /\ c \in Nat
    BY <1>3, <1>4, <1>5, <1>6
  <2>2. c + ChunkSize <= last
    BY <2>1, <1>3, AlignedApart
  <2>3. Aligned(c + 1 * ChunkSize) /\ c + 1 * ChunkSize = c + ChunkSize
    <3>1. 1 \in Nat /\ 1 * ChunkSize = ChunkSize
      BY <1>0
    <3> QED BY <2>1, <3>1, AlignedAdd
  <2>4. at <= c + ChunkSize /\ c + ChunkSize < at + n * ChunkSize
    BY <2>1, <2>2, <1>0, <1>3, <1>4, KMemoryAssumption
  <2> QED BY <2>3, <2>4, RunFacts
<1>7. ASSUME NEW c, Aligned(c), at <= c, c \notin Run(at, n) PROVE last < c
  <2>1. ~(c < at + n * ChunkSize) /\ c \in Nat
    BY <1>7, RunFacts DEF Aligned
  <2> QED BY <2>1, <1>0, <1>3, KMemoryAssumption
<1> QED BY <1>1, <1>2, <1>5, <1>6, <1>7

(***************************************************************************)
(* n chunks are linked in behind prev, or in front if that is Null, before  *)
(* the first chunk with a higher address.                                   *)
(***************************************************************************)
LinkedIn(F, head, w, at, n, next, prev, w2) ==
  /\ Sorted(F, head, w) /\ Aligned(at) /\ n \in Nat \ {0}
  /\ Run(at, n) \subseteq AllChunks /\ Run(at, n) \cap F = {}
  /\ next \in F \cup {Null} /\ (next # Null => at <= next)
  /\ prev \in F \cup {Null} /\ (prev = Null => next = head)
  /\ prev # Null => prev < at /\ w[prev] = next
  /\ w2 \in Words0
  /\ \A d \in Run(at, n) : w2[d] = IF d = at + (n - 1) * ChunkSize THEN next ELSE d + ChunkSize
  /\ \A d \in F : w2[d] = IF d = prev THEN at ELSE w[d]

\* The list is then sorted again.
LEMMA Link ==
  ASSUME NEW F, NEW head, NEW w, NEW at, NEW n, NEW next, NEW prev, NEW w2,
         LinkedIn(F, head, w, at, n, next, prev, w2)
  PROVE  Sorted(F \cup Run(at, n), IF prev = Null THEN at ELSE head, w2)
<1> USE DEF LinkedIn
<1> DEFINE R == Run(at, n)
           G == F \cup R
<1>1. PICK last : last = at + (n - 1) * ChunkSize
  OBVIOUS
<1>2. /\ last \in R /\ at \in R
      /\ \A c \in R : c <= last /\ at <= c
      /\ \A c \in R : c # last => c + ChunkSize \in R
      /\ \A c \in F : at <= c => last < c
  <2>1. \A c \in F : Aligned(c) /\ c \notin R
    BY ChunksFacts, SortedFacts
  <2> QED BY <2>1, <1>1, RunLast, RunFacts
<1>3. /\ F \in SUBSET AllChunks /\ head \in AllChunks \cup {Null} /\ Null \notin AllChunks
      /\ IF head = Null THEN F = {} ELSE head \in F /\ \A d \in F : head <= d
      /\ \A c \in F : IF w[c] = Null THEN \A d \in F : d <= c
                      ELSE w[c] \in F /\ c < w[c] /\ \A d \in F : d <= c \/ w[c] <= d
  BY SortedFacts, ChunksFacts
<1>4. /\ R \subseteq AllChunks /\ R \cap F = {} /\ last \in Nat /\ at \in Nat
      /\ \A d \in R : w2[d] = IF d = last THEN next ELSE d + ChunkSize
      /\ \A d \in G : d \in Nat /\ Aligned(d)
  BY <1>1, <1>2, <1>3, ChunksFacts
<1>5. \A d, e \in G : d < e => d + ChunkSize <= e
  BY <1>4, AlignedApart
<1> HIDE DEF R
\* Nothing of F lies between the neighbours, or between prev and next.
<1>6. \A d \in F : d < at => prev # Null /\ d <= prev
  <2> SUFFICES ASSUME NEW d \in F, d < at PROVE prev # Null /\ d <= prev
    OBVIOUS
  <2>1. prev # Null
    <3> SUFFICES ASSUME prev = Null PROVE FALSE
      OBVIOUS
    <3> QED BY <1>3, <1>4
  <2>2. CASE next = Null
    BY <2>1, <2>2, <1>3
  <2>3. CASE next # Null
    <3>1. d <= prev \/ next <= d
      BY <2>1, <2>3, <1>3
    <3>2. d \in Nat /\ next \in Nat /\ at <= next
      BY <2>3, <1>4
    <3> QED BY <2>1, <3>1, <3>2, <1>4
  <2> QED BY <2>2, <2>3
<1>7. \A d \in F : at <= d => next # Null /\ next <= d /\ last < next
  <2> SUFFICES ASSUME NEW d \in F, at <= d PROVE next # Null /\ next <= d /\ last < next
    OBVIOUS
  <2>1. CASE prev = Null
    <3>1. next = head /\ head # Null /\ next <= d
      BY <2>1, <1>3
    <3> QED BY <3>1, <1>2
  <2>2. CASE prev # Null
    <3>1. prev \in F /\ prev < at /\ w[prev] = next /\ prev \in Nat /\ d \in Nat
      BY <2>2, <1>4
    <3>2. ~(d <= prev)
      BY <3>1, <1>4
    <3>3. next # Null /\ next <= d
      BY <3>1, <3>2, <1>3
    <3> QED BY <3>3, <1>2
  <2> QED BY <2>1, <2>2
<1>8. ASSUME NEW c \in G
      PROVE  IF w2[c] = Null THEN \A d \in G : d <= c
             ELSE w2[c] \in G /\ c < w2[c] /\ \A d \in G : d <= c \/ w2[c] <= d
  <2>1. CASE c \in R /\ c # last
    <3>1. w2[c] = c + ChunkSize /\ w2[c] \in R
      BY <2>1, <1>2, <1>4
    <3>2. \A d \in G : d <= c \/ c + ChunkSize <= d
      BY <1>4, <1>5
    <3> QED BY <3>1, <3>2, <1>4, ChunksFacts
  <2>2. CASE c = last
    <3>1. w2[c] = next /\ \A d \in R : d <= c
      BY <2>2, <1>2, <1>4
    <3>2. \A d \in F : d <= c \/ (at <= d /\ next # Null /\ next <= d)
      <4>1. \A d \in F : d < at \/ at <= d
        BY <1>4
      <4>2. \A d \in F : d < at => d <= c
        BY <2>2, <1>2, <1>4
      <4> QED BY <4>1, <4>2, <1>7
    <3>3. CASE next = Null
      BY <3>1, <3>2, <3>3
    <3>4. CASE next # Null
      <4>1. next \in F /\ at <= next
        BY <3>4
      <4>2. last < next
        BY <4>1, <1>2
      <4> QED BY <3>1, <3>2, <3>4, <4>1, <4>2, <2>2
    <3> QED BY <3>3, <3>4
  <2>3. CASE c \in F /\ c = prev
    <3>1. w2[c] = at /\ c < at /\ prev # Null
      BY <2>3, <1>3
    <3>2. \A d \in F : d <= c \/ at <= d
      <4>1. \A d \in F : d < at \/ at <= d
        BY <1>4
      <4> QED BY <4>1, <2>3, <1>6
    <3> QED BY <3>1, <3>2, <1>2, <1>4, <1>3
  <2>4. CASE c \in F /\ c # prev
    <3>1. w2[c] = w[c] /\ c \in Nat
      BY <2>4, <1>4
    <3>2. CASE c < at
      <4>1. prev \in F /\ prev \in Nat /\ c < prev /\ prev < at
        BY <2>4, <3>1, <3>2, <1>4, <1>6
      <4>2. w[c] \in F /\ c < w[c] /\ (\A d \in F : d <= c \/ w[c] <= d) /\ w[c] <= prev /\ w[c] # Null
        BY <2>4, <4>1, <3>1, <1>3
      <4>3. w[c] \in Nat
        BY <4>2, <1>4
      <4>4. \A d \in R : w[c] <= d
        BY <4>1, <4>2, <4>3, <1>2, <1>4
      <4> QED BY <3>1, <4>2, <4>4
    <3>3. CASE at <= c
      <4>1. \A d \in R : d <= c
        BY <2>4, <3>1, <3>3, <1>2, <1>4
      <4> QED BY <2>4, <3>1, <4>1, <1>3
    <3> QED BY <3>1, <3>2, <3>3, <1>4
  <2> QED BY <2>1, <2>2, <2>3, <2>4
<1>9. PICK h : h = IF prev = Null THEN at ELSE head
  OBVIOUS
<1>10. h \in G /\ \A d \in G : h <= d
  <2>1. CASE prev = Null
    <3>1. \A d \in F : at <= d
      BY <2>1, <1>4, <1>6
    <3> QED BY <2>1, <3>1, <1>2, <1>9
  <2>2. CASE prev # Null
    <3>1. h = head /\ head \in F /\ (\A d \in F : head <= d) /\ head <= prev /\ prev < at
      BY <2>2, <1>3, <1>9
    <3>2. \A d \in R : head <= d
      BY <3>1, <2>2, <1>2, <1>4
    <3> QED BY <3>1, <3>2
  <2> QED BY <2>1, <2>2
<1>11. G \in SUBSET AllChunks /\ h \in AllChunks /\ h # Null
  BY <1>3, <1>4, <1>10
<1> HIDE DEF G
<1>12. Sorted(G, h, w2)
  BY <1>8, <1>10, <1>11, SortedFacts
<1> QED BY <1>9, <1>12 DEF G, R
-----------------------------------------------------------------------------
(* What alloc() and free() do to the list *)

\* What kmem_t may be asked for, and the number of chunks that takes.
GoodSize(size) == size \in Nat \ {0} /\ (size > ChunkSize => size % ChunkSize = 0)
Count(size) == Rounded(size) \div ChunkSize

\* A block is a run of chunks.
LEMMA SizeFacts ==
  ASSUME NEW size, GoodSize(size)
  PROVE  /\ Count(size) \in Nat \ {0}
         /\ Rounded(size) = Count(size) * ChunkSize
         /\ Rounded(size) \in Nat \ {0}
         /\ \A at : Chunks(at, size) = Run(at, Count(size))
         /\ \A at : Aligned(at) => LastChunk(at, size) = at + (Count(size) - 1) * ChunkSize
<1>0. ChunkSize \in Nat \ {0} /\ size \in Nat \ {0}
  BY KMemoryAssumption DEF GoodSize
<1>1. Aligned(Rounded(size)) /\ Rounded(size) \in Nat \ {0}
  BY <1>0 DEF GoodSize, Rounded, Aligned
<1>2. Count(size) \in Nat /\ Rounded(size) = Count(size) * ChunkSize
  BY <1>1, MultipleOf DEF Count
<1>3. Count(size) # 0
  BY <1>0, <1>1, <1>2
<1>4. \A at : Chunks(at, size) = Run(at, Count(size))
  BY DEF Chunks, Run, Count
<1>5. ASSUME NEW at, Aligned(at) PROVE LastChunk(at, size) = at + (Count(size) - 1) * ChunkSize
  <2>1. PICK m \in Nat : m = Count(size) - 1
    BY <1>2, <1>3
  <2>2. (m + 1) * ChunkSize = m * ChunkSize + ChunkSize /\ m * ChunkSize \in Nat
    BY MultipleOrder, MultipleAligned
  <2>3. Rounded(size) = m * ChunkSize + ChunkSize
    BY <2>1, <2>2, <1>2
  <2> QED BY <2>1, <2>2, <2>3, <1>0, <1>5 DEF LastChunk, Aligned
<1> QED BY <1>1, <1>2, <1>3, <1>4, <1>5

\* The least number of a set.
LEMMA LeastFacts ==
  ASSUME NEW S \in SUBSET Nat, S # {}
  PROVE  Least(S) \in S /\ \A y \in S : Least(S) <= y
BY LeastExists DEF Least

\* What is found on the list.
LEMMA ListFacts ==
  ASSUME NEW F, Sorted(F, kmem_free_list, word)
  PROVE  /\ Cardinality(F) \in Places /\ Pos(0) = kmem_free_list
         /\ \A i \in Nat : /\ Pos(i) = Null <=> Cardinality(F) <= i
                           /\ Pos(i) # Null => /\ Pos(i) \in F
                                               /\ Pos(i + 1) = word[Pos(i)]
         /\ \A d \in F : \E i \in Places : Pos(i) = d
         /\ List = F
<1>1. Chain(F, Addr, -1, kmem_free_list, word) /\ Ranked(F, Addr, -1)
  BY DEF Sorted, Chain
<1>2. word \in Words0 /\ kmem_free_list \in AllChunks \cup {Null} /\ F \in SUBSET AllChunks /\ Null \notin F
  BY SortedFacts, ChunksFacts
<1>3. Cardinality(F) \in Places
  BY <1>1, BelowCount, ChunksFacts DEF Places
<1>4. Pos(0) = kmem_free_list
  BY <1>2, AfterRec DEF Pos
<1>5. \A i \in Nat : /\ Pos(i) = Null <=> Cardinality(F) <= i
                     /\ Pos(i) # Null => Pos(i) \in F /\ Pos(i + 1) = word[Pos(i)]
  BY <1>1, ChainList DEF Pos
<1>6. ASSUME NEW d \in F PROVE \E i \in Places : Pos(i) = d
  <2>1. PICK i \in Nat : i = Cardinality(Below(F, Addr, d)) /\ i < Cardinality(F)
    BY <1>1, BelowCount
  <2>2. i \in Places
    BY <2>1, <1>3, ChunksFacts DEF Places
  <2>3. Pos(i) = d
    BY <2>1, <1>1, ChainList DEF Pos
  <2> QED BY <2>2, <2>3
<1>7. \A i \in Places : i \in Nat
  BY DEF Places
<1>8. List = F
  BY <1>2, <1>5, <1>6, <1>7 DEF List
<1> QED BY <1>3, <1>4, <1>5, <1>6, <1>8

\* Where a block that alloc() may take ends.
LEMMA FitsFacts ==
  ASSUME NEW F, NEW head, Sorted(F, head, word), NEW size, GoodSize(size),
         NEW c \in F, Fits(c, Rounded(size))
  PROVE  /\ After(word, c, Count(size)) \in F /\ c < After(word, c, Count(size))
         /\ Stretch(F, Addr, c, After(word, c, Count(size))) = Chunks(c, size)
         /\ Chunks(c, size) \subseteq F
<1> DEFINE n == Count(size)
           G == {d \in F : Addr[c] <= Addr[d]}
<1>1. F \in SUBSET AllChunks /\ word \in Words0 /\ Null \notin F /\ \A d \in F : Addr[d] = d /\ d \in Nat
  BY SortedFacts, ChunksFacts DEF Addr
<1>2. Chain(G, Addr, Addr[c] - 1, c, word)
  BY ChainRest DEF Sorted
<1>3. n \in Nat \ {0} /\ Chunks(c, size) = Run(c, n) /\ Aligned(c)
  BY <1>1, SizeFacts, ChunksFacts
<1>4. \A i \in 1 .. n - 1 : After(word, c, i) = c + i * ChunkSize
  BY DEF Fits, Count
<1>5. PICK r : r = After(word, c, n)
  OBVIOUS
<1>6. r # Null
  BY <1>5 DEF Fits, Count
<1>7. \A i \in 0 .. n - 1 : After(word, c, i) = c + i * ChunkSize
  <2>1. After(word, c, 0) = c
    BY <1>1, AfterRec
  <2>2. c + 0 * ChunkSize = c
    BY <1>1, ChunksFacts
  <2>3. \A i \in 0 .. n - 1 : i = 0 \/ i \in 1 .. n - 1
    BY <1>3
  <2> QED BY <2>1, <2>2, <2>3, <1>4
<1>8. /\ Ranked(G, Addr, Addr[c] - 1) /\ r \in G /\ Cardinality(Below(G, Addr, r)) = n
      /\ Cardinality(G) \in Nat /\ n < Cardinality(G)
  <2>1. r \in G /\ Cardinality(Below(G, Addr, r)) = n
    BY <1>2, <1>3, <1>5, <1>6, ChainList
  <2>2. Ranked(G, Addr, Addr[c] - 1)
    BY <1>2 DEF Chain
  <2> QED BY <2>1, <2>2, BelowCount
<1> HIDE DEF n
<1>9. ASSUME NEW i \in 0 .. n - 1
      PROVE  c + i * ChunkSize \in Below(G, Addr, r)
  <2>1. PICK d : d = c + i * ChunkSize
    OBVIOUS
  <2>2. i \in Nat /\ i < n /\ i < Cardinality(G)
    BY <1>3, <1>8
  <2>3. After(word, c, i) # Null
    BY <2>2, <1>2, <1>8, ChainList
  <2>4. d \in G /\ Cardinality(Below(G, Addr, d)) = i
    BY <2>1, <2>2, <2>3, <1>2, <1>7, ChainList
  <2>5. d # r /\ ~(Addr[r] < Addr[d])
    BY <2>2, <2>4, <1>3, <1>8, BelowCount
  <2>6. Addr[d] < Addr[r]
    BY <2>4, <2>5, <1>1, <1>8
  <2> QED BY <2>1, <2>4, <2>6 DEF Below
<1>10. Run(c, n) \subseteq Below(G, Addr, r)
  BY <1>9 DEF Run
<1>11. Run(c, n) = Below(G, Addr, r)
  <2>1. Cardinality(Run(c, n)) = n
    BY <1>3, RunFacts
  <2>2. IsFiniteSet(Below(G, Addr, r))
    <3>1. IsFiniteSet(G)
      BY <1>8, BelowCount
    <3>2. Below(G, Addr, r) \in SUBSET G
      BY DEF Below
    <3> QED BY <3>1, <3>2, FS_Subset
  <2> QED BY <2>1, <2>2, <1>8, <1>10, FS_Subset
<1>12. Stretch(F, Addr, c, r) = Below(G, Addr, r)
  BY <1>6 DEF Stretch, Below
<1>13. Below(G, Addr, r) \subseteq F
  BY DEF Below
<1>14. c < r
  <2>1. c \in Run(c, n)
    BY <1>3, RunFacts
  <2>2. Addr[c] < Addr[r]
    BY <2>1, <1>11 DEF Below
  <2> QED BY <2>2, <1>1, <1>8
<1> QED BY <1>3, <1>5, <1>8, <1>11, <1>12, <1>13, <1>14 DEF n

\* alloc() takes a block of the free chunks off the list.
LEMMA TakenSorted ==
  ASSUME NEW F, Sorted(F, kmem_free_list, word), free_chunks = Cardinality(F),
         NEW size, GoodSize(size), NEW i \in Places, Pos(i) # Null, Fits(Pos(i), Rounded(size)),
         Taken(i, size)
  PROVE  /\ Pos(i) \in F /\ Chunks(Pos(i), size) \subseteq F
         /\ Sorted(F \ Chunks(Pos(i), size), kmem_free_list', word')
         /\ free_chunks' = Cardinality(F \ Chunks(Pos(i), size))
<1>1. /\ F \in SUBSET AllChunks /\ word \in Words0 /\ Null \notin AllChunks /\ i \in Nat
      /\ \A d \in F : d \in Nat
      /\ kmem_free_list \in F => \A d \in F : kmem_free_list <= d
      /\ \A d \in F : IF word[d] = Null THEN \A e \in F : e <= d
                      ELSE word[d] \in F /\ d < word[d] /\ \A e \in F : e <= d \/ word[d] <= e
  <2>1. i \in Nat
    BY DEF Places
  <2> QED BY <2>1, SortedFacts, ChunksFacts
<1>2. PICK c \in F : c = Pos(i)
  BY <1>1, ListFacts
<1>3. PICK r : r = After(word, c, Count(size))
  OBVIOUS
<1>4. PICK R : R = Chunks(c, size)
  OBVIOUS
<1>5. r \in F /\ c < r /\ Stretch(F, Addr, c, r) = R /\ R \subseteq F /\ r # Null
  BY <1>1, <1>2, <1>3, <1>4, FitsFacts
<1>6. Remaining(i, size) = r
  BY <1>2, <1>3 DEF Remaining, Count
<1>7. ASSUME i = 0 PROVE Sorted(F \ R, kmem_free_list', word')
  <2>1. c = kmem_free_list
    BY <1>2, <1>7, ListFacts
  <2>2. kmem_free_list' = r /\ word' = [d \in AllChunks |-> IF d \in R THEN Null ELSE word[d]]
    BY <1>2, <1>4, <1>6, <1>7 DEF Taken
  <2>3. word' \in Words0
    BY <2>2, <1>1 DEF Words0
  <2>4. \A d \in F \ R : word'[d] = IF word[d] = c THEN r ELSE word[d]
    <3> SUFFICES ASSUME NEW d \in F \ R PROVE word'[d] = IF word[d] = c THEN r ELSE word[d]
      OBVIOUS
    <3>1. word[d] # c
      <4>1. c <= d /\ c \in Nat /\ d \in Nat
        BY <2>1, <1>1
      <4> QED BY <4>1, <1>1
    <3> QED BY <2>2, <3>1, <1>1
  <2>5. \A d \in F : r # Null => Addr[c] < Addr[r]
    BY <1>1, <1>5 DEF Addr
  <2>6. Chain(F \ R, Addr, -1, r, word')
    <3>1. PICK w2 : w2 = word'
      OBVIOUS
    <3>2. Chain(F \ Stretch(F, Addr, c, r), Addr, -1, IF kmem_free_list = c THEN r ELSE kmem_free_list, w2)
      BY <3>1, <2>3, <2>4, <2>5, <1>5, Unlink DEF Sorted
    <3> QED BY <3>1, <3>2, <2>1, <1>5
  <2> QED BY <2>2, <2>6 DEF Sorted
<1>8. ASSUME i > 0 PROVE Sorted(F \ R, kmem_free_list', word')
  <2>1. i - 1 \in Nat /\ (i - 1) + 1 = i
    BY <1>1, <1>8
  <2>2. Pos(i - 1) # Null
    <3>1. ~(Cardinality(F) <= i) /\ Cardinality(F) \in Nat
      BY <1>1, ListFacts DEF Places
    <3>2. ~(Cardinality(F) <= i - 1)
      BY <3>1, <1>1
    <3> QED BY <3>2, <2>1, ListFacts
  <2>3. PICK p \in F : p = Pos(i - 1)
    BY <2>1, <2>2, ListFacts
  <2>4. word[p] = c
    <3>1. Pos((i - 1) + 1) = word[Pos(i - 1)]
      BY <2>1, <2>2, ListFacts
    <3> QED BY <3>1, <2>1, <2>3, <1>2
  <2>5. /\ kmem_free_list' = kmem_free_list
        /\ word' = [[d \in AllChunks |-> IF d \in R THEN Null ELSE word[d]] EXCEPT ![p] = r]
    BY <2>3, <1>2, <1>4, <1>6, <1>8 DEF Taken
  <2>6. \A d \in AllChunks : word'[d] = IF d = p THEN r ELSE IF d \in R THEN Null ELSE word[d]
    BY <2>5, <1>1
  <2>7. word' \in Words0
    BY <2>5, <1>1, <1>5 DEF Words0
  <2>8. \A d \in F \ R : word'[d] = IF word[d] = c THEN r ELSE word[d]
    <3> SUFFICES ASSUME NEW d \in F \ R PROVE word'[d] = IF word[d] = c THEN r ELSE word[d]
      OBVIOUS
    <3>1. word[d] = c => d = p
      <4> SUFFICES ASSUME word[d] = c PROVE d = p
        OBVIOUS
      <4>1. c \in Nat /\ d \in Nat /\ p \in Nat /\ c # Null
        BY <1>1
      <4>2. d < c /\ p < c /\ (p <= d \/ c <= p) /\ (d <= p \/ c <= d)
        BY <2>4, <4>1, <1>1
      <4> QED BY <4>1, <4>2
    <3> QED BY <2>4, <2>6, <3>1, <1>1
  <2>9. r # Null => Addr[c] < Addr[r]
    BY <1>1, <1>5 DEF Addr
  <2>10. kmem_free_list # c
    <3>1. p < c /\ p \in Nat /\ c \in Nat
      BY <2>4, <1>1
    <3> QED BY <3>1, <1>1
  <2>11. Chain(F \ R, Addr, -1, kmem_free_list, word')
    <3>1. PICK w2 : w2 = word'
      OBVIOUS
    <3>2. Chain(F \ Stretch(F, Addr, c, r), Addr, -1, IF kmem_free_list = c THEN r ELSE kmem_free_list, w2)
      BY <3>1, <2>7, <2>8, <2>9, <1>5, Unlink DEF Sorted
    <3> QED BY <3>1, <3>2, <2>10, <1>5
  <2> QED BY <2>5, <2>11 DEF Sorted
<1>9. free_chunks' = Cardinality(F \ R)
  <2>1. free_chunks' = Cardinality(F) - Count(size)
    BY DEF Taken, Count
  <2>2. IsFiniteSet(F) /\ Cardinality(F) \in Nat
    <3>1. Ranked(F, Addr, -1)
      BY DEF Sorted, Chain
    <3> QED BY <3>1, BelowCount
  <2>3. IsFiniteSet(R) /\ Cardinality(R) = Count(size) /\ Count(size) \in Nat
    BY <1>1, <1>2, <1>4, SizeFacts, RunFacts, ChunksFacts
  <2>4. Cardinality(F \ R) = Cardinality(F) - Cardinality(F \cap R) /\ F \cap R = R
    BY <2>2, <1>5, FS_Difference
  <2> QED BY <2>1, <2>3, <2>4
<1> QED BY <1>1, <1>2, <1>4, <1>5, <1>7, <1>8, <1>9

\* free() and add() put a block's chunks where their addresses belong.
LEMMA InsertedSorted ==
  ASSUME NEW F, Sorted(F, kmem_free_list, word), free_chunks = Cardinality(F),
         NEW at, Aligned(at), NEW size, GoodSize(size),
         Chunks(at, size) \subseteq AllChunks, Chunks(at, size) \cap F = {},
         Inserted(at, size)
  PROVE  /\ Sorted(F \cup Chunks(at, size), kmem_free_list', word')
         /\ free_chunks' = Cardinality(F \cup Chunks(at, size))
<1>1. PICK R : R = Chunks(at, size)
  OBVIOUS
<1>2. PICK n \in Nat \ {0} : n = Count(size)
  BY SizeFacts
<1>3. PICK last : last = at + (n - 1) * ChunkSize
  OBVIOUS
<1>4. PICK i : i = InsertPlace(at)
  OBVIOUS
<1>5. PICK next : next = Pos(i)
  OBVIOUS
<1>6. PICK prev : prev = IF i > 0 THEN Pos(i - 1) ELSE Null
  OBVIOUS
<1>7. R = Run(at, n) /\ LastChunk(at, size) = last /\ R \subseteq AllChunks /\ R \cap F = {}
  BY <1>1, <1>2, <1>3, SizeFacts
<1>8. F \in SUBSET AllChunks /\ word \in Words0 /\ Null \notin AllChunks /\ at \in Nat
      /\ \A d \in F : d \in Nat
  BY SortedFacts, ChunksFacts DEF Aligned
<1>9. /\ i \in Nat /\ (next = Null \/ at <= next)
      /\ \A j \in Nat : j < i => Pos(j) # Null /\ ~(at <= Pos(j))
  <2> DEFINE S == {j \in Places : Pos(j) = Null \/ at <= Pos(j)}
  <2>1. S \in SUBSET Nat /\ \A j \in Places : \A k \in Nat : k < j => k \in Places
    BY ChunksFacts DEF Places
  <2>2. Cardinality(F) \in S
    <3>1. Cardinality(F) \in Places /\ Cardinality(F) \in Nat
      BY ListFacts DEF Places
    <3> QED BY <3>1, ListFacts
  <2>3. i \in S /\ \A y \in S : i <= y
    <3>1. i = Least(S)
      BY <1>4 DEF InsertPlace
    <3> HIDE DEF S
    <3> QED BY <2>1, <2>2, <3>1, LeastFacts
  <2>4. ASSUME NEW j \in Nat, j < i PROVE j \in Places /\ j \notin S
    BY <2>1, <2>3, <2>4
  <2> QED BY <2>1, <2>3, <2>4, <1>5
<1>10. next \in F \cup {Null}
  BY <1>5, <1>9, ListFacts
<1>11. /\ prev \in F \cup {Null} /\ (prev = Null <=> ~(i > 0))
       /\ prev = Null => next = kmem_free_list
       /\ prev # Null => prev < at /\ word[prev] = next
  <2>1. CASE i > 0
    <3>1. i - 1 \in Nat /\ i - 1 < i /\ (i - 1) + 1 = i
      BY <2>1, <1>9
    <3>2. prev # Null /\ ~(at <= prev) /\ prev = Pos(i - 1)
      BY <2>1, <3>1, <1>6, <1>9
    <3>3. prev \in F /\ Pos((i - 1) + 1) = word[Pos(i - 1)]
      BY <3>1, <3>2, ListFacts
    <3>4. prev < at
      BY <3>2, <3>3, <1>8
    <3> QED BY <2>1, <3>1, <3>2, <3>3, <3>4, <1>5
  <2>2. CASE ~(i > 0)
    <3>1. i = 0 /\ prev = Null
      BY <2>2, <1>6, <1>9
    <3> QED BY <3>1, <2>2, <1>5, ListFacts
  <2> QED BY <2>1, <2>2
<1>12. /\ kmem_free_list' = IF i = 0 THEN at ELSE kmem_free_list
       /\ free_chunks' = Cardinality(F) + n
       /\ word' = [d \in AllChunks |-> IF d \in R \ {last} THEN d + ChunkSize
                                       ELSE IF d = last THEN next
                                       ELSE IF i > 0 /\ d = Pos(i - 1) THEN at ELSE word[d]]
  BY <1>1, <1>2, <1>4, <1>5, <1>7 DEF Inserted, Count
<1>13. last \in R /\ at \in R /\ \A d \in R \ {last} : d + ChunkSize \in R
  BY <1>3, <1>7, RunLast, RunFacts
<1>14. word' \in Words0
  <2>1. \A d \in AllChunks : d \in R \ {last} => d + ChunkSize \in AllChunks
    BY <1>7, <1>13
  <2>2. next \in AllChunks \cup {Null} /\ at \in AllChunks
    BY <1>7, <1>8, <1>10, <1>13
  <2> QED BY <2>1, <2>2, <1>8, <1>12 DEF Words0
<1>15. \A d \in R : word'[d] = IF d = last THEN next ELSE d + ChunkSize
  BY <1>7, <1>12
<1>16. \A d \in F : word'[d] = IF d = prev THEN at ELSE word[d]
  <2> SUFFICES ASSUME NEW d \in F PROVE word'[d] = IF d = prev THEN at ELSE word[d]
    OBVIOUS
  <2>1. d \in AllChunks /\ d \notin R /\ d # last /\ d # Null
    BY <1>7, <1>8, <1>13
  <2>2. word'[d] = IF i > 0 /\ d = Pos(i - 1) THEN at ELSE word[d]
    BY <2>1, <1>12
  <2> QED BY <2>1, <2>2, <1>6
<1>17. Sorted(F \cup R, kmem_free_list', word')
  <2>1. PICK w2 : w2 = word'
    OBVIOUS
  <2>2. Sorted(F \cup Run(at, n), IF prev = Null THEN at ELSE kmem_free_list, w2)
    <3>1. w2 \in Words0
      BY <2>1, <1>14
    <3>2. \A d \in F : w2[d] = IF d = prev THEN at ELSE word[d]
      BY <2>1, <1>16
    <3>3. \A d \in Run(at, n) : w2[d] = IF d = at + (n - 1) * ChunkSize THEN next ELSE d + ChunkSize
      BY <2>1, <1>3, <1>7, <1>15
    <3>4. Run(at, n) \subseteq AllChunks /\ Run(at, n) \cap F = {}
      BY <1>7
    <3>5. next # Null => at <= next
      BY <1>9
    <3>6. prev \in F \cup {Null}
      BY <1>11
    <3>7. prev = Null => next = kmem_free_list
      BY <1>11
    <3>8. prev # Null => prev < at /\ word[prev] = next
      BY <1>11
    <3>9. LinkedIn(F, kmem_free_list, word, at, n, next, prev, w2)
      BY <3>1, <3>2, <3>3, <3>4, <3>5, <3>6, <3>7, <3>8, <1>10 DEF LinkedIn
    <3> QED BY <3>9, Link
  <2>3. kmem_free_list' = IF prev = Null THEN at ELSE kmem_free_list
    BY <1>9, <1>11, <1>12
  <2> QED BY <2>1, <2>2, <2>3, <1>7
<1>18. Cardinality(F \cup R) = Cardinality(F) + n
  <2>1. IsFiniteSet(F) /\ Cardinality(F) \in Nat
    <3>1. Ranked(F, Addr, -1)
      BY DEF Sorted, Chain
    <3> QED BY <3>1, BelowCount
  <2>2. IsFiniteSet(R) /\ Cardinality(R) = n
    BY <1>7, RunFacts
  <2>3. F \cap R = {} /\ Cardinality({}) = 0
    BY <1>7, FS_EmptySet
  <2>4. Cardinality(F \cup R) = Cardinality(F) + Cardinality(R) - Cardinality(F \cap R)
    BY <2>1, <2>2, FS_Union
  <2>5. Cardinality(F \cup R) = Cardinality(F) + n - 0
    BY <2>2, <2>3, <2>4
  <2> QED BY <2>1, <2>5
<1> QED BY <1>1, <1>12, <1>17, <1>18
-----------------------------------------------------------------------------
(* The invariant of kmem_t *)

Avail == memory \ Owned
ChunksOf(b) == Chunks(b.at, b.size)

\* A block that kmem_t handed out.
IsBlock(b) == /\ b = [at |-> b.at, size |-> b.size] /\ b.size \in Sizes
              /\ Aligned(b.at) /\ b.at % Rounded(b.size) = 0

(***************************************************************************)
(* The free list goes through what is not held, in order, and free_chunks   *)
(* counts it; the blocks held are apart.                                    *)
(***************************************************************************)
KInv == /\ memory \in SUBSET AllChunks
        /\ Sorted(Avail, kmem_free_list, word)
        /\ free_chunks = Cardinality(Avail)
        /\ \A b \in held : IsBlock(b) /\ ChunksOf(b) \subseteq memory
        /\ \A b, d \in held : b # d => ChunksOf(b) \cap ChunksOf(d) = {}

\* The sizes asked for are what kmem_t asserts them to be.
LEMMA SizesGood ==
  /\ \A s \in Sizes : GoodSize(s)
  /\ PageSize \in Nat \ {0} /\ PageSize % ChunkSize = 0 /\ Rounded(PageSize) = PageSize
  /\ \A s \in MdbSizes : Large(s) => s \in Nat /\ Rounded(s) = s
<1>1. /\ PageSize \in Nat \ {0} /\ PageSize % ChunkSize = 0 /\ ChunkSize \in Nat \ {0}
      /\ MdbSizes \subseteq Nat \ {0} /\ OtherSizes \subseteq Nat \ {0}
      /\ \A s \in MdbSizes : s >= PageSize => s % ChunkSize = 0
      /\ \A s \in OtherSizes : s > ChunkSize => s % ChunkSize = 0
  BY MdbAssumption, KMemoryAssumption
<1>2. ChunkSize <= PageSize
  <2>1. Aligned(PageSize) /\ Aligned(0) /\ 0 < PageSize
    BY <1>1 DEF Aligned
  <2> QED BY <2>1, <1>1, AlignedApart
<1> QED BY <1>1, <1>2 DEF Sizes, GoodSize, Rounded, Large

\* init() establishes it.
LEMMA KInitInv == KInit => KInv /\ held = {}
<1>a. KInit => held = {}
  BY DEF KInit
<1> SUFFICES ASSUME KInit PROVE KInv
  BY <1>a
<1>0. Boot \subseteq AllChunks
  BY DEF AllChunks
<1>1. PICK at \in Boot : Boot = {at + i * ChunkSize : i \in 0 .. Cardinality(Boot) - 1}
  BY KMemoryAssumption
<1>2. PICK n \in Nat : n = Cardinality(Boot)
  <2>1. IsFiniteSet(Boot)
    BY <1>0, ChunksFacts, FS_Subset
  <2> QED BY <2>1, FS_CardinalityType
<1>3. Boot = Run(at, n) /\ Aligned(at) /\ at \in Nat
  BY <1>0, <1>1, <1>2, ChunksFacts DEF Run
<1>4. n # 0
  BY <1>1, <1>2
<1>5. PICK last : last = at + (n - 1) * ChunkSize
  OBVIOUS
<1>6. /\ \A c \in Boot : at <= c /\ c <= last /\ c \in Nat
      /\ \A c \in Boot : c # last => c + ChunkSize \in Boot
      /\ last \in Boot
  BY <1>0, <1>3, <1>4, <1>5, RunLast, RunFacts, ChunksFacts
<1>7. Least(Boot) = at
  <2>1. Boot \in SUBSET Nat /\ Boot # {}
    BY <1>1, <1>6
  <2>2. Least(Boot) \in Boot /\ Least(Boot) <= at
    BY <2>1, <1>1, LeastFacts
  <2>3. at <= Least(Boot) /\ Least(Boot) \in Nat
    BY <2>2, <1>6
  <2> QED BY <2>2, <2>3, <1>3
<1>8. Owned = {} /\ Avail = Boot
  BY DEF KInit, Owned, Avail
<1>9. Sorted(Boot, at, word)
  <2>1. word = [c \in AllChunks |-> IF c \in Boot /\ c + ChunkSize \in Boot THEN c + ChunkSize ELSE Null]
    BY DEF KInit
  <2>2. word \in Words0
    BY <2>1, <1>0 DEF Words0
  <2>3. \A c, d \in Boot : c < d => c + ChunkSize <= d
    BY <1>0, ChunksFacts, AlignedApart
  <2>4. ASSUME NEW c \in Boot
        PROVE  IF word[c] = Null THEN \A d \in Boot : d <= c
               ELSE word[c] \in Boot /\ c < word[c] /\ \A d \in Boot : d <= c \/ word[c] <= d
    <3>1. CASE c + ChunkSize \in Boot
      <4>1. word[c] = c + ChunkSize /\ word[c] # Null
        BY <3>1, <2>1, <1>0, ChunksFacts
      <4> QED BY <3>1, <4>1, <2>3, <1>6, ChunksFacts
    <3>2. CASE c + ChunkSize \notin Boot
      <4>1. word[c] = Null /\ c = last
        BY <3>2, <2>1, <1>0, <1>6
      <4> QED BY <4>1, <1>6
    <3> QED BY <3>1, <3>2
  <2>5. at # Null
    BY <1>0, <1>1, ChunksFacts
  <2> QED BY <2>2, <2>4, <2>5, <1>0, <1>1, <1>6, SortedFacts
<1> QED BY <1>0, <1>7, <1>8, <1>9 DEF KInit, KInv

\* The invariant in the next state.
LEMMA KInvPrime ==
  ASSUME memory' \in SUBSET AllChunks,
         Sorted(Avail', kmem_free_list', word'), free_chunks' = Cardinality(Avail'),
         \A d \in held' : IsBlock(d) /\ ChunksOf(d) \subseteq memory',
         \A d, e \in held' : d # e => ChunksOf(d) \cap ChunksOf(e) = {}
  PROVE  KInv'
<1>1. (\A d \in held : IsBlock(d) /\ ChunksOf(d) \subseteq memory)' <=>
      \A d \in held' : IsBlock(d) /\ ChunksOf(d) \subseteq memory'
  BY DEF IsBlock, ChunksOf
<1>2. (\A d, e \in held : d # e => ChunksOf(d) \cap ChunksOf(e) = {})' <=>
      \A d, e \in held' : d # e => ChunksOf(d) \cap ChunksOf(e) = {}
  BY DEF ChunksOf
<1>3. Sorted(Avail, kmem_free_list, word)' <=> Sorted(Avail', kmem_free_list', word')
  BY DEF Sorted, Chain, Ranked, Follows, Words0, Addr, AllChunks
<1> QED BY <1>1, <1>2, <1>3 DEF KInv, AllChunks

\* An allocation takes a block of free chunks.
LEMMA AllocInv ==
  ASSUME KInv, NEW size \in Sizes, NEW colour, CanAlloc(size, colour), AllocStep(size, colour)
  PROVE  /\ KInv'
         /\ held' = held \cup {[at |-> AllocAt(size, colour), size |-> size]}
         /\ [at |-> AllocAt(size, colour), size |-> size] \notin held
         /\ AllocAt(size, colour) \in Avail
         /\ IsBlock([at |-> AllocAt(size, colour), size |-> size])
         /\ Chunks(AllocAt(size, colour), size) \subseteq Avail
         /\ Avail' = Avail \ Chunks(AllocAt(size, colour), size)
         /\ memory' = memory
<1>1. PICK i : i = Least(Found(size, colour))
  OBVIOUS
<1>2. i \in Places /\ Pos(i) # Null /\ Fits(Pos(i), Rounded(size))
  <2>1. Found(size, colour) \in SUBSET Nat /\ Found(size, colour) # {}
    BY DEF Found, Places, CanAlloc
  <2>2. i \in Found(size, colour)
    BY <2>1, <1>1, LeastFacts
  <2> QED BY <2>2 DEF Found
<1>3. Taken(i, size)
  BY <1>1 DEF AllocStep
<1>4. PICK c : c = Pos(i) /\ c = AllocAt(size, colour)
  BY <1>1 DEF AllocAt
<1>5. PICK F : F = Avail
  OBVIOUS
<1>6. PICK R : R = Chunks(c, size)
  OBVIOUS
<1>7. GoodSize(size) /\ Sorted(F, kmem_free_list, word) /\ free_chunks = Cardinality(F)
  BY <1>5, SizesGood DEF KInv
<1>8. /\ c \in F /\ R \subseteq F
      /\ Sorted(F \ R, kmem_free_list', word') /\ free_chunks' = Cardinality(F \ R)
  BY <1>2, <1>3, <1>4, <1>6, <1>7, TakenSorted
<1>9. PICK b : b = [at |-> c, size |-> size]
  OBVIOUS
<1>10. held' = held \cup {b} /\ memory' = memory
  BY <1>3, <1>4, <1>9 DEF Taken
<1>11. ChunksOf(b) = R /\ R # {} /\ Aligned(c) /\ IsBlock(b)
  <2>1. b.at = c /\ b.size = size
    BY <1>9
  <2>2. Aligned(c)
    BY <1>7, <1>8, SortedFacts, ChunksFacts
  <2>3. R # {}
    BY <2>2, <1>6, <1>7, SizeFacts, RunFacts
  <2>4. c % Rounded(size) = 0
    BY <1>2, <1>4 DEF Fits
  <2> QED BY <2>1, <2>2, <2>3, <2>4, <1>6, <1>9 DEF IsBlock, ChunksOf
<1>12. F \subseteq memory /\ \A d \in held : ChunksOf(d) \cap F = {}
  BY <1>5 DEF Avail, Owned, ChunksOf
<1>13. b \notin held
  BY <1>8, <1>11, <1>12
<1>14. Owned' = Owned \cup R
  <2>1. Owned = UNION {ChunksOf(d) : d \in held} /\ Owned' = UNION {ChunksOf(d) : d \in held'}
    BY DEF Owned, ChunksOf
  <2> QED BY <2>1, <1>10, <1>11
<1>15. Avail' = F \ R
  BY <1>5, <1>10, <1>14 DEF Avail
<1>16. KInv'
  <2>1. \A d \in held' : IsBlock(d) /\ ChunksOf(d) \subseteq memory
    BY <1>8, <1>10, <1>11, <1>12 DEF KInv
  <2>2. \A d, e \in held' : d # e => ChunksOf(d) \cap ChunksOf(e) = {}
    BY <1>8, <1>10, <1>11, <1>12 DEF KInv
  <2>3. memory \in SUBSET AllChunks
    BY DEF KInv
  <2> QED BY <2>1, <2>2, <2>3, <1>8, <1>10, <1>15, KInvPrime
<1> QED BY <1>4, <1>5, <1>6, <1>8, <1>9, <1>10, <1>11, <1>13, <1>15, <1>16

\* Freeing a block makes its chunks free again.
LEMMA FreeInv ==
  ASSUME KInv, NEW b \in held, FreeStep(b)
  PROVE  /\ KInv'
         /\ held' = held \ {b} /\ memory' = memory
         /\ Avail' = Avail \cup ChunksOf(b)
<1>1. PICK F : F = Avail
  OBVIOUS
<1>2. PICK R : R = ChunksOf(b)
  OBVIOUS
<1>3. held' = held \ {b} /\ memory' = memory /\ Inserted(b.at, b.size)
  BY DEF FreeStep
<1>4. /\ Sorted(F, kmem_free_list, word) /\ free_chunks = Cardinality(F)
      /\ Aligned(b.at) /\ GoodSize(b.size) /\ R \subseteq memory /\ memory \in SUBSET AllChunks
  BY <1>1, <1>2, SizesGood DEF KInv, IsBlock
<1>5. R \cap F = {} /\ R = Chunks(b.at, b.size)
  BY <1>1, <1>2 DEF Avail, Owned, ChunksOf
<1>6. Sorted(F \cup R, kmem_free_list', word') /\ free_chunks' = Cardinality(F \cup R)
  <2>1. R \subseteq AllChunks
    BY <1>4
  <2> QED BY <2>1, <1>3, <1>4, <1>5, InsertedSorted
<1>7. Avail' = F \cup R
  <2>1. Owned = UNION {ChunksOf(d) : d \in held} /\ Owned' = UNION {ChunksOf(d) : d \in held \ {b}}
    BY <1>3 DEF Owned, ChunksOf
  <2>2. \A d \in held \ {b} : ChunksOf(d) \cap R = {}
    BY <1>2 DEF KInv
  <2>3. Owned' = Owned \ R
    BY <2>1, <2>2, <1>2
  <2>4. R \subseteq Owned
    BY <2>1, <1>2
  <2> QED BY <2>3, <2>4, <1>1, <1>3, <1>4 DEF Avail
<1>8. KInv'
  <2>1. \A d \in held' : IsBlock(d) /\ ChunksOf(d) \subseteq memory
    BY <1>3 DEF KInv
  <2>2. \A d, e \in held' : d # e => ChunksOf(d) \cap ChunksOf(e) = {}
    BY <1>3 DEF KInv
  <2> QED BY <2>1, <2>2, <1>3, <1>4, <1>6, <1>7, KInvPrime
<1> QED BY <1>1, <1>2, <1>3, <1>7, <1>8

\* A region is a block of memory that kmem_t did not have.
LEMMA AddInv ==
  ASSUME KInv, NEW r \in Added, AddStep(r)
  PROVE  /\ KInv'
         /\ held' = held /\ memory' = memory \cup r /\ r \cap memory = {}
         /\ Avail' = Avail \cup r
<1>0. r \subseteq AllChunks /\ IsFiniteSet(r)
  BY KMemoryAssumption DEF AllChunks
<1>1. PICK at \in r : r = {at + i * ChunkSize : i \in 0 .. Cardinality(r) - 1}
  BY KMemoryAssumption
<1>2. PICK n \in Nat : n = Cardinality(r)
  BY <1>0, FS_CardinalityType
<1>3. r = Run(at, n) /\ Aligned(at) /\ n # 0
  BY <1>0, <1>1, <1>2, ChunksFacts DEF Run
<1>4. Least(r) = at
  <2>1. r \in SUBSET Nat /\ r # {}
    BY <1>0, <1>1, ChunksFacts
  <2>2. Least(r) \in r /\ Least(r) <= at
    BY <2>1, <1>1, LeastFacts
  <2>3. at <= Least(r) /\ Least(r) \in Nat /\ at \in Nat
    BY <2>1, <2>2, <1>1, <1>3, RunFacts
  <2> QED BY <2>2, <2>3
<1>5. PICK size : size = Cardinality(r) * ChunkSize
  OBVIOUS
<1>6. GoodSize(size) /\ Chunks(at, size) = r
  <2>1. size \in Nat /\ Aligned(size) /\ size \div ChunkSize = n
    BY <1>2, <1>5, MultipleAligned
  <2>2. ChunkSize \in Nat \ {0} /\ ChunkSize \div ChunkSize = 1
    BY KMemoryAssumption
  <2>3. size # 0 /\ (size > ChunkSize \/ size = ChunkSize)
    <3>1. ChunkSize <= size
      <4>1. 1 \in Nat /\ 1 * ChunkSize = ChunkSize /\ (1 < n \/ n = 1)
        BY <2>2, <1>3
      <4>2. 1 < n => 1 * ChunkSize < n * ChunkSize
        BY <4>1, MultipleOrder
      <4> QED BY <4>1, <4>2, <2>1, <2>2, <1>2, <1>5
    <3> QED BY <3>1, <2>1, <2>2
  <2>4. GoodSize(size)
    BY <2>1, <2>3 DEF GoodSize, Aligned
  <2>5. Count(size) = n
    BY <2>1, <2>2, <2>3 DEF Count, Rounded
  <2> QED BY <2>4, <2>5, <1>3, SizeFacts
<1>7. PICK F : F = Avail
  OBVIOUS
<1>8. Inserted(at, size) /\ memory' = memory \cup r /\ held' = held /\ r \cap memory = {}
  BY <1>4, <1>5 DEF AddStep
<1>9. /\ Sorted(F, kmem_free_list, word) /\ free_chunks = Cardinality(F)
      /\ F \subseteq memory /\ memory \in SUBSET AllChunks
  BY <1>7 DEF KInv, Avail
<1>10. Sorted(F \cup r, kmem_free_list', word') /\ free_chunks' = Cardinality(F \cup r)
  <2>1. r \cap F = {}
    BY <1>8, <1>9
  <2> QED BY <2>1, <1>0, <1>3, <1>6, <1>8, <1>9, InsertedSorted
<1>11. Avail' = F \cup r
  <2>1. Owned' = Owned
    BY <1>8 DEF Owned
  <2>2. Owned = UNION {ChunksOf(d) : d \in held}
    BY DEF Owned, ChunksOf
  <2>3. Owned \subseteq memory
    BY <2>2 DEF KInv
  <2> QED BY <2>1, <2>3, <1>7, <1>8 DEF Avail
<1>12. KInv'
  <2>1. \A d \in held' : IsBlock(d) /\ ChunksOf(d) \subseteq memory'
    BY <1>8 DEF KInv
  <2>2. \A d, e \in held' : d # e => ChunksOf(d) \cap ChunksOf(e) = {}
    BY <1>8 DEF KInv
  <2>3. memory' \in SUBSET AllChunks
    BY <1>0, <1>8, <1>9
  <2> QED BY <2>1, <2>2, <2>3, <1>10, <1>11, KInvPrime
<1> QED BY <1>7, <1>8, <1>11, <1>12

\* The list is what FreeListSorted says.
LEMMA InvSorted == KInv => FreeListSorted
<1> SUFFICES ASSUME KInv PROVE FreeListSorted
  OBVIOUS
<1>1. PICK F : F = Avail
  OBVIOUS
<1>2. Sorted(F, kmem_free_list, word) /\ free_chunks = Cardinality(F) /\ F = memory \ Owned
  BY <1>1 DEF KInv, Avail
<1>3. Cardinality(F) \in Nat
  BY <1>2, ListFacts DEF Places
<1>4. Pos(free_chunks) = Null
  BY <1>2, <1>3, ListFacts
<1>5. ASSUME NEW i \in 0 .. free_chunks - 1
      PROVE  Pos(i) # Null /\ (i > 0 => Pos(i - 1) < Pos(i))
  <2>1. i \in Nat /\ ~(Cardinality(F) <= i)
    BY <1>2, <1>3
  <2>2. Pos(i) # Null
    BY <2>1, <1>2, ListFacts
  <2>3. ASSUME i > 0 PROVE Pos(i - 1) < Pos(i)
    <3>1. i - 1 \in Nat /\ (i - 1) + 1 = i /\ ~(Cardinality(F) <= i - 1)
      BY <2>1, <2>3, <1>3
    <3>2. PICK p : p = Pos(i - 1)
      OBVIOUS
    <3>3. p \in F /\ Pos((i - 1) + 1) = word[p]
      BY <3>1, <3>2, <1>2, ListFacts
    <3>4. word[p] # Null
      BY <2>2, <3>1, <3>3
    <3> QED BY <3>1, <3>2, <3>3, <3>4, <1>2, SortedFacts
  <2> QED BY <2>2, <2>3
<1>6. List = memory \ Owned
  BY <1>2, ListFacts
<1> QED BY <1>4, <1>5, <1>6 DEF FreeListSorted

\* Chunks that are neighbours in memory are neighbours on the list.
LEMMA Neighbours ==
  ASSUME NEW F, NEW head, NEW w, Sorted(F, head, w),
         NEW c \in F, NEW n \in Nat \ {0}, Run(c, n) \subseteq F
  PROVE  \A i \in 0 .. n - 1 : After(w, c, i) = c + i * ChunkSize
<1>1. /\ F \in SUBSET AllChunks /\ w \in Words0 /\ c \in AllChunks /\ c \in Nat
      /\ \A d \in F : Aligned(d) /\ d \in Nat
      /\ \A d \in F : IF w[d] = Null THEN \A e \in F : e <= d
                      ELSE w[d] \in F /\ d < w[d] /\ \A e \in F : e <= d \/ w[d] <= e
  BY SortedFacts, ChunksFacts
<1> DEFINE A == [k \in 0 .. n - 1 |-> <<k, After(w, c, k)>>]
           E == {<<k, c + k * ChunkSize>> : k \in 0 .. n - 1}
<1>2. n - 1 \in Nat /\ 0 \in 0 .. n - 1
  OBVIOUS
<1>3. A[0] \in E
  <2>1. After(w, c, 0) = c
    BY <1>1, AfterRec
  <2>2. c = c + 0 * ChunkSize
    BY <1>1, ChunksFacts
  <2> QED BY <2>1, <2>2, <1>2
<1>4. ASSUME NEW k \in 1 .. n - 1, A[k - 1] \in E PROVE A[k] \in E
  <2>1. k \in 0 .. n - 1 /\ k - 1 \in 0 .. n - 1 /\ k - 1 \in Nat /\ (k - 1) + 1 = k
    OBVIOUS
  <2>2. PICK p : p = c + (k - 1) * ChunkSize
    OBVIOUS
  <2>3. PICK x : x = c + k * ChunkSize
    OBVIOUS
  <2>4. After(w, c, k - 1) = p
    BY <2>1, <2>2, <1>4
  <2>5. p \in F /\ x \in F /\ p # Null
    BY <2>1, <2>2, <2>3, <1>1, ChunksFacts DEF Run
  <2>6. x = p + ChunkSize /\ p < x
    <3>1. ((k - 1) + 1) * ChunkSize = (k - 1) * ChunkSize + ChunkSize /\ (k - 1) * ChunkSize \in Nat
      BY <2>1, MultipleOrder, MultipleAligned
    <3> QED BY <3>1, <2>1, <2>2, <2>3, <1>1, KMemoryAssumption
  <2>7. After(w, c, (k - 1) + 1) = IF p = Null THEN Null ELSE w[p]
    <3>1. \A i \in Nat : After(w, c, i + 1) = IF After(w, c, i) = Null THEN Null ELSE w[After(w, c, i)]
      BY <1>1, AfterRec
    <3> QED BY <3>1, <2>1, <2>4
  <2>8. w[p] # Null /\ w[p] \in F /\ p < w[p] /\ w[p] <= x
    <3>1. p \in Nat /\ x \in Nat /\ ~(x <= p)
      BY <2>5, <2>6, <1>1
    <3> QED BY <3>1, <2>5, <1>1
  <2>9. p + ChunkSize <= w[p]
    BY <2>5, <2>8, <1>1, AlignedApart
  <2>10. w[p] = x
    <3>1. w[p] \in Nat /\ x \in Nat /\ x <= w[p] /\ w[p] <= x
      BY <2>5, <2>6, <2>8, <2>9, <1>1
    <3> QED BY <3>1
  <2>11. After(w, c, k) = x
    BY <2>1, <2>5, <2>7, <2>10
  <2> QED BY <2>1, <2>3, <2>11
<1> HIDE DEF A, E
<1>5. \A k \in 0 .. n - 1 : A[k] \in E
  BY <1>2, <1>3, <1>4, Induction
<1> QED BY <1>5 DEF A, E

\* alloc() finds every block that does not have the last free chunk.
LEMMA InvOutOfMemory == KInv => OutOfMemory
<1> SUFFICES ASSUME KInv, NEW size \in Sizes, NEW c \in List,
                    Found(size, Any) = {}, c % Rounded(size) = 0, Chunks(c, size) \subseteq List,
                    Greatest(List) \notin Chunks(c, size)
             PROVE  FALSE
  BY DEF OutOfMemory, FailsOnlyAtTail
<1>1. PICK F : F = Avail
  OBVIOUS
<1>2. Sorted(F, kmem_free_list, word) /\ List = F
  BY <1>1, ListFacts DEF KInv
<1>3. /\ word \in Words0 /\ F \in SUBSET AllChunks /\ c \in F /\ c \in Nat /\ Aligned(c) /\ Null \notin F
      /\ \A d \in F : d \in Nat
      /\ \A d \in F : IF word[d] = Null THEN \A e \in F : e <= d
                      ELSE word[d] \in F /\ d < word[d] /\ \A e \in F : e <= d \/ word[d] <= e
  BY <1>2, SortedFacts, ChunksFacts
<1>4. PICK n \in Nat \ {0} : n = Count(size) /\ Chunks(c, size) = Run(c, n)
  BY SizesGood, SizeFacts
<1>5. \A i \in 0 .. n - 1 : After(word, c, i) = c + i * ChunkSize
  BY <1>2, <1>3, <1>4, Neighbours
<1>6. PICK last : last = c + (n - 1) * ChunkSize
  OBVIOUS
<1>7. last \in F /\ last \in Run(c, n)
  BY <1>2, <1>3, <1>4, <1>6, RunLast
<1>8. After(word, c, n) = word[last]
  <2>1. n - 1 \in Nat /\ n - 1 \in 0 .. n - 1 /\ (n - 1) + 1 = n
    OBVIOUS
  <2>2. \A i \in Nat : After(word, c, i + 1) = IF After(word, c, i) = Null THEN Null ELSE word[After(word, c, i)]
    BY <1>3, AfterRec
  <2>3. After(word, c, n - 1) = last /\ last # Null
    BY <2>1, <1>3, <1>5, <1>6, <1>7
  <2> QED BY <2>1, <2>2, <2>3
<1>9. word[last] # Null
  <2> SUFFICES ASSUME word[last] = Null PROVE FALSE
    OBVIOUS
  <2>1. \A e \in F : last >= e /\ e \in Nat
    BY <1>3, <1>7
  <2>2. Greatest(F) \in F /\ Greatest(F) >= last
    BY <2>1, <1>7 DEF Greatest
  <2>3. Greatest(F) = last
    BY <2>1, <2>2, <1>7
  <2> QED BY <2>3, <1>2, <1>4, <1>7
<1>10. Fits(c, Rounded(size))
  <2>1. \A i \in 1 .. n - 1 : i \in 0 .. n - 1
    OBVIOUS
  <2>2. Rounded(size) \div ChunkSize = n
    BY <1>4 DEF Count
  <2> QED BY <2>1, <2>2, <1>5, <1>8, <1>9 DEF Fits
<1>11. PICK i \in Places : Pos(i) = c
  BY <1>2, <1>3, ListFacts
<1>12. c % 1 = 0 /\ 0 % 1 = 0
  BY <1>3
<1>13. i \in Found(size, Any)
  BY <1>3, <1>10, <1>11, <1>12 DEF Found, Any
<1> QED BY <1>13
-----------------------------------------------------------------------------
(* The pages and buffers of the mapping database *)

PageBlock(p) == [at |-> p, size |-> PageSize]
Mng == [freelist: Seq(Nat), num_free: Nat, next_freelist: AllChunks \cup {Null},
        prev_freelist: AllChunks \cup {Null}, bl: Small]
Mngs == [AllChunks -> Mng \cup {NoPage}]

\* Where the buffers of a page are, those on its list, and those handed out.
Slots(p, s) == {p + PageSize - k * s : k \in 1 .. max_free(s)}
Members(f)  == {f[k] : k \in DOMAIN f}
Distinct(f) == \A j, k \in 1 .. Len(f) : f[j] = f[k] => j = k
FreeOf(r)   == Members(r.freelist)
OutOf(B, p) == {b.at : b \in {d \in B : PageOf(d.at) = p}}

\* What the structure of page p says, given what is handed out of it.
PageCore(p, r, out) ==
  /\ r.num_free = Len(r.freelist)
  /\ Distinct(r.freelist)
  /\ FreeOf(r) \cap out = {}
  /\ FreeOf(r) \cup out = Slots(p, r.bl)
PageOK(p, r, out) == PageCore(p, r, out) /\ (max_free(r.bl) > 1 => out # {})

\* Where a buffer that a caller has comes from.
BufferOK(b, m, H) ==
  /\ b = [at |-> b.at, size |-> b.size] /\ b.size \in MdbSizes /\ b.at \in Nat
  /\ Large(b.size) => b \in H /\ b.at \in AllChunks /\ m[b.at] = NoPage
  /\ ~Large(b.size) => /\ PageOf(b.at) \in AllChunks /\ m[PageOf(b.at)] # NoPage
                       /\ m[PageOf(b.at)].bl = b.size

PagesIn(m) == {c \in AllChunks : m[c] # NoPage}

\* The pages are held from kmem_t, and every buffer is accounted for.
Buffers(m, B, H) ==
  /\ m \in Mngs
  /\ \A p \in PagesIn(m) : PageBlock(p) \in H /\ PageOK(p, m[p], OutOf(B, p))
  /\ \A b \in B : BufferOK(b, m, H)

\* The pages of a size with a free buffer, and their links.
WithFree(m, s) == {c \in PagesIn(m) : m[c].bl = s /\ m[c].num_free > 0}
NextPage(m) == [c \in AllChunks |-> IF m[c] # NoPage THEN m[c].next_freelist ELSE Null]
Backward(m, h, s) == \A p \in WithFree(m, s) :
                       IF p = h THEN m[p].prev_freelist = Null
                       ELSE /\ m[p].prev_freelist \in WithFree(m, s)
                            /\ m[m[p].prev_freelist].next_freelist = p

\* They form a doubly linked list, from h on, in the order of some ranks.
PageList(m, h, s) ==
  /\ \E o, lo : Chain(WithFree(m, s), o, lo, h, NextPage(m))
  /\ Backward(m, h, s)

MdbInv == /\ KInv
          /\ Buffers(mng, bufs, held)
          /\ list_of_lists \in [Small -> AllChunks \cup {Null}]
          /\ \A s \in Small : PageList(mng, list_of_lists[s], s)

\* The links of the pages are links between chunks.
LEMMA NextPageType ==
  ASSUME NEW m \in Mngs
  PROVE  /\ NextPage(m) \in Words0
         /\ \A c \in AllChunks : /\ m[c] \in Mng \cup {NoPage}
                                 /\ m[c] # NoPage => m[c] \in Mng
<1>1. \A c \in AllChunks : m[c] \in Mng \cup {NoPage}
  BY DEF Mngs
<1>2. \A c \in AllChunks : m[c] # NoPage => m[c].next_freelist \in AllChunks \cup {Null}
  BY <1>1 DEF Mng
<1> QED BY <1>1, <1>2 DEF NextPage, Words0

\* Lists of pages do not depend on anything else.
LEMMA PageListSame ==
  ASSUME NEW m \in Mngs, NEW n \in Mngs, NEW h, NEW s, PageList(m, h, s),
         WithFree(n, s) = WithFree(m, s),
         \A c \in WithFree(m, s) : /\ n[c].next_freelist = m[c].next_freelist
                                   /\ n[c].prev_freelist = m[c].prev_freelist
  PROVE  PageList(n, h, s)
<1>1. PICK o, lo : Chain(WithFree(m, s), o, lo, h, NextPage(m))
  BY DEF PageList
<1>2. PICK L : L = WithFree(m, s)
  OBVIOUS
<1>3. \A c \in L : c \in AllChunks /\ m[c] # NoPage /\ n[c] # NoPage
  BY <1>2 DEF WithFree, PagesIn
<1>4. NextPage(n) \in Words0
  BY NextPageType
<1>5. \A c \in L : NextPage(n)[c] = NextPage(m)[c]
  BY <1>2, <1>3 DEF NextPage
<1>6. Chain(L, o, lo, h, NextPage(n))
  BY <1>1, <1>2, <1>4, <1>5 DEF Chain
<1>7. Backward(n, h, s)
  BY <1>2, <1>3 DEF PageList, Backward
<1> QED BY <1>2, <1>6, <1>7 DEF PageList

\* What the two directions of a list tell of each other.
LEMMA PageListFacts ==
  ASSUME NEW m \in Mngs, NEW h, NEW s, PageList(m, h, s)
  PROVE  /\ h = Null => WithFree(m, s) = {}
         /\ h # Null => h \in WithFree(m, s)
         /\ \A c \in WithFree(m, s) :
              /\ m[c].next_freelist # Null => m[c].next_freelist \in WithFree(m, s)
              /\ m[c].next_freelist # h
              /\ m[c].next_freelist # c
              /\ \A d \in WithFree(m, s) : m[c].next_freelist = d <=> (d # h /\ m[d].prev_freelist = c)
<1>1. PICK L : L = WithFree(m, s)
  OBVIOUS
<1>2. PICK o, lo : Chain(L, o, lo, h, NextPage(m))
  BY <1>1 DEF PageList
<1>3. PICK w : w = NextPage(m)
  OBVIOUS
<1>4. /\ L \in SUBSET AllChunks /\ Null \notin L /\ lo \in Int
      /\ \A c \in L : o[c] \in Int /\ lo < o[c]
      /\ \A c, d \in L : o[c] = o[d] => c = d
      /\ Follows(L, o, lo, h) /\ \A c \in L : Follows(L, o, o[c], w[c])
  BY <1>2, <1>3, ChunksFacts DEF Chain, Ranked
<1>5. \A c \in L : w[c] = m[c].next_freelist
  BY <1>1, <1>3 DEF WithFree, PagesIn, NextPage
<1>6. h = Null => L = {}
  BY <1>4 DEF Follows
<1>7. h # Null => h \in L /\ \A d \in L : o[h] <= o[d]
  BY <1>4 DEF Follows
<1>8. \A c \in L : w[c] # Null => /\ w[c] \in L /\ o[c] < o[w[c]]
                                  /\ \A d \in L : o[d] <= o[c] \/ o[w[c]] <= o[d]
  BY <1>4 DEF Follows
<1>9. \A c \in L : w[c] # h /\ w[c] # c
  <2> SUFFICES ASSUME NEW c \in L PROVE w[c] # h /\ w[c] # c
    OBVIOUS
  <2>1. CASE w[c] = Null
    BY <2>1, <1>4, <1>6
  <2>2. CASE w[c] # Null
    <3>1. w[c] \in L /\ o[c] < o[w[c]] /\ o[c] \in Int /\ o[w[c]] \in Int
      BY <2>2, <1>4, <1>8
    <3>2. w[c] # h
      BY <2>2, <3>1, <1>7
    <3> QED BY <3>1, <3>2
  <2> QED BY <2>1, <2>2
<1>10. \A c, d \in L : w[c] = w[d] /\ w[c] # Null => c = d
  <2> SUFFICES ASSUME NEW c \in L, NEW d \in L, w[c] = w[d], w[c] # Null PROVE c = d
    OBVIOUS
  <2>1. /\ o[d] <= o[c] \/ o[w[c]] <= o[d]
        /\ o[c] <= o[d] \/ o[w[d]] <= o[c]
        /\ o[c] < o[w[c]] /\ o[d] < o[w[d]] /\ w[c] \in L
    BY <1>8
  <2>2. o[c] \in Int /\ o[d] \in Int /\ o[w[c]] \in Int
    BY <2>1, <1>4
  <2>3. o[c] = o[d]
    BY <2>1, <2>2
  <2> QED BY <2>3, <1>4
<1>11. \A d \in L : IF d = h THEN m[d].prev_freelist = Null
                    ELSE m[d].prev_freelist \in L /\ w[m[d].prev_freelist] = d
  BY <1>1, <1>5 DEF PageList, Backward
<1>12. \A c, d \in L : w[c] = d <=> (d # h /\ m[d].prev_freelist = c)
  <2> SUFFICES ASSUME NEW c \in L, NEW d \in L
               PROVE  w[c] = d <=> (d # h /\ m[d].prev_freelist = c)
    OBVIOUS
  <2>1. ASSUME w[c] = d PROVE d # h /\ m[d].prev_freelist = c
    <3>1. d # h /\ d # Null
      BY <2>1, <1>4, <1>9
    <3>2. m[d].prev_freelist \in L /\ w[m[d].prev_freelist] = d
      BY <3>1, <1>11
    <3> QED BY <2>1, <3>1, <3>2, <1>10
  <2>2. ASSUME d # h, m[d].prev_freelist = c PROVE w[c] = d
    BY <2>2, <1>11
  <2> QED BY <2>1, <2>2
<1> QED BY <1>1, <1>5, <1>6, <1>7, <1>8, <1>9, <1>12

\* A page leaves its list: its neighbours are linked to each other.
LEMMA PageListRemove ==
  ASSUME NEW m \in Mngs, NEW n \in Mngs, NEW h, NEW s, PageList(m, h, s),
         NEW p \in WithFree(m, s),
         WithFree(n, s) = WithFree(m, s) \ {p},
         \A c \in WithFree(n, s) :
           /\ n[c].next_freelist = IF p # h /\ c = m[p].prev_freelist THEN m[p].next_freelist
                                   ELSE m[c].next_freelist
           /\ n[c].prev_freelist = IF c = m[p].next_freelist THEN m[p].prev_freelist
                                   ELSE m[c].prev_freelist
  PROVE  PageList(n, IF h = p THEN m[p].next_freelist ELSE h, s)
<1>1. PICK L : L = WithFree(m, s)
  OBVIOUS
<1>2. PICK o, lo : Chain(L, o, lo, h, NextPage(m))
  BY <1>1 DEF PageList
<1>3. PICK r : r = m[p].next_freelist
  OBVIOUS
<1>4. PICK w : w = NextPage(m)
  OBVIOUS
<1>5. PICK w2 : w2 = NextPage(n)
  OBVIOUS
<1>6. /\ \A c \in L : c \in AllChunks /\ w[c] = m[c].next_freelist
      /\ \A c \in L \ {p} : w2[c] = n[c].next_freelist
  BY <1>1, <1>4, <1>5 DEF WithFree, PagesIn, NextPage
<1>7. /\ h # Null /\ h \in L /\ (r # Null => r \in L) /\ r # h /\ r # p
      /\ \A c, d \in L : w[c] = d <=> (d # h /\ m[d].prev_freelist = c)
      /\ \A c \in L : w[c] # h
  BY <1>1, <1>3, <1>6, PageListFacts
<1>8. \A c \in L \ {p} : w2[c] = IF w[c] = p THEN r ELSE w[c]
  <2> SUFFICES ASSUME NEW c \in L \ {p} PROVE w2[c] = IF w[c] = p THEN r ELSE w[c]
    OBVIOUS
  <2>1. w[c] = p <=> (p # h /\ m[p].prev_freelist = c)
    BY <1>1, <1>7
  <2>2. w2[c] = IF p # h /\ c = m[p].prev_freelist THEN r ELSE w[c]
    BY <1>1, <1>3, <1>6
  <2> QED BY <2>1, <2>2
<1>9. /\ L \in SUBSET AllChunks /\ Null \notin L
      /\ \A c \in L : o[c] \in Int
      /\ \A c, d \in L : o[c] = o[d] => c = d
      /\ \A c \in L : Follows(L, o, o[c], w[c])
  BY <1>2, <1>4, ChunksFacts DEF Chain, Ranked
<1>10. Stretch(L, o, p, r) = {p} /\ (r # Null => o[p] < o[r])
  <2>1. Follows(L, o, o[p], r)
    BY <1>1, <1>3, <1>6, <1>9
  <2>2. CASE r = Null
    <3>1. \A d \in L : o[d] <= o[p]
      BY <2>1, <2>2 DEF Follows
    <3>2. \A d \in L : o[p] <= o[d] => d = p
      BY <3>1, <1>1, <1>9
    <3> QED BY <3>2, <2>2, <1>1, <1>9 DEF Stretch
  <2>3. CASE r # Null
    <3>1. o[p] < o[r] /\ r \in L /\ \A d \in L : o[d] <= o[p] \/ o[r] <= o[d]
      BY <2>1, <2>3 DEF Follows
    <3>2. \A d \in L : o[p] <= o[d] /\ o[d] < o[r] => d = p
      BY <3>1, <1>1, <1>9
    <3>3. o[p] <= o[p]
      BY <1>1, <1>9
    <3> QED BY <3>1, <3>2, <3>3, <2>3, <1>1 DEF Stretch
  <2> QED BY <2>2, <2>3
<1>11. w2 \in Words0
  BY <1>5, NextPageType
<1>12. Chain(L \ {p}, o, lo, IF h = p THEN r ELSE h, w2)
  <2>1. r \in L \cup {Null} /\ p \in L
    BY <1>1, <1>7
  <2>2. Chain(L, o, lo, h, w)
    BY <1>2, <1>4
  <2>3. \A d \in L \ Stretch(L, o, p, r) : w2[d] = IF w[d] = p THEN r ELSE w[d]
    BY <1>8, <1>10
  <2>4. Chain(L \ Stretch(L, o, p, r), o, lo, IF h = p THEN r ELSE h, w2)
    BY <2>1, <2>2, <2>3, <1>10, <1>11, Unlink
  <2> QED BY <2>4, <1>10
<1>13. PICK g : g = IF h = p THEN r ELSE h
  OBVIOUS
<1>14. ASSUME NEW c \in L \ {p}
       PROVE  IF c = g THEN n[c].prev_freelist = Null
              ELSE n[c].prev_freelist \in L \ {p} /\ n[n[c].prev_freelist].next_freelist = c
  <2>1. n[c].prev_freelist = IF c = r THEN m[p].prev_freelist ELSE m[c].prev_freelist
    BY <1>1, <1>3
  <2>2. \A d \in L : IF d = h THEN m[d].prev_freelist = Null
                     ELSE m[d].prev_freelist \in L /\ w[m[d].prev_freelist] = d
    BY <1>1, <1>6 DEF PageList, Backward
  <2>3. w[p] = r /\ p \in L
    BY <1>1, <1>3, <1>6
  <2>4. CASE c = r
    <3>1. n[c].prev_freelist = m[p].prev_freelist
      BY <2>1, <2>4
    <3>2. CASE h = p
      BY <3>1, <3>2, <2>2, <2>3, <2>4, <1>13
    <3>3. CASE h # p
      <4>1. c # g
        BY <2>4, <3>3, <1>7, <1>13
      <4>2. PICK q : q = m[p].prev_freelist
        OBVIOUS
      <4>3. q \in L /\ w[q] = p
        BY <2>2, <2>3, <3>3, <4>2
      <4>4. q # p
        BY <4>3, <2>3, <1>7
      <4>5. w2[q] = r
        BY <4>3, <4>4, <1>8
      <4> QED BY <2>4, <3>1, <4>1, <4>2, <4>3, <4>4, <4>5, <1>6
    <3> QED BY <3>2, <3>3
  <2>5. CASE c # r
    <3>1. n[c].prev_freelist = m[c].prev_freelist
      BY <2>1, <2>5
    <3>2. CASE c = h
      BY <3>1, <3>2, <2>2, <1>13
    <3>3. CASE c # h
      <4>1. PICK q : q = m[c].prev_freelist
        OBVIOUS
      <4>2. q \in L /\ w[q] = c
        BY <2>2, <3>3, <4>1
      <4>3. q # p /\ c # g
        BY <4>2, <2>3, <2>5, <3>3, <1>13
      <4>4. w2[q] = c
        BY <4>2, <4>3, <1>8
      <4> QED BY <3>1, <4>1, <4>2, <4>3, <4>4, <1>6
    <3> QED BY <3>2, <3>3
  <2> QED BY <2>4, <2>5
<1>15. Backward(n, g, s)
  BY <1>1, <1>14 DEF Backward
<1>16. Chain(WithFree(n, s), o, lo, g, NextPage(n))
  BY <1>1, <1>5, <1>12, <1>13
<1>17. PageList(n, g, s)
  BY <1>15, <1>16 DEF PageList
<1> QED BY <1>3, <1>13, <1>17

\* A page goes to the front of its list.
LEMMA PageListPush ==
  ASSUME NEW m \in Mngs, NEW n \in Mngs, NEW h, NEW s, PageList(m, h, s),
         NEW p \in AllChunks \ WithFree(m, s),
         WithFree(n, s) = WithFree(m, s) \cup {p},
         n[p].next_freelist = h, n[p].prev_freelist = Null,
         \A c \in WithFree(m, s) :
           /\ n[c].next_freelist = m[c].next_freelist
           /\ n[c].prev_freelist = IF c = h THEN p ELSE m[c].prev_freelist
  PROVE  PageList(n, p, s)
<1>1. PICK L : L = WithFree(m, s)
  OBVIOUS
<1>2. PICK o, lo : Chain(L, o, lo, h, NextPage(m))
  BY <1>1 DEF PageList
<1>3. PICK w2 : w2 = NextPage(n)
  OBVIOUS
<1>4. /\ \A c \in L : NextPage(m)[c] = m[c].next_freelist /\ c # p
      /\ \A c \in L \cup {p} : w2[c] = n[c].next_freelist
      /\ w2 \in Words0
  <2>1. \A c \in L : NextPage(m)[c] = m[c].next_freelist /\ c # p
    BY <1>1 DEF WithFree, PagesIn, NextPage
  <2>2. \A c \in WithFree(n, s) : NextPage(n)[c] = n[c].next_freelist
    BY DEF WithFree, PagesIn, NextPage
  <2>3. w2 \in Words0
    BY <1>3, NextPageType
  <2> QED BY <2>1, <2>2, <2>3, <1>1, <1>3
<1>5. Chain(L \cup {p}, [o EXCEPT ![p] = lo], lo - 1, p, w2)
  <2>1. p \in AllChunks \ L
    BY <1>1
  <2>2. w2[p] = h /\ \A c \in L : w2[c] = NextPage(m)[c]
    BY <1>1, <1>4
  <2> QED BY <2>1, <2>2, <1>2, <1>4, Front
<1>6. ASSUME NEW c \in L
      PROVE  /\ c # p /\ n[c].prev_freelist \in L \cup {p}
             /\ n[n[c].prev_freelist].next_freelist = c
  <2>1. n[c].prev_freelist = IF c = h THEN p ELSE m[c].prev_freelist
    BY <1>1
  <2>2. CASE c = h
    BY <2>1, <2>2, <1>4
  <2>3. CASE c # h
    <3>1. m[c].prev_freelist \in L /\ m[m[c].prev_freelist].next_freelist = c
      BY <2>3, <1>1 DEF PageList, Backward
    <3> QED BY <2>1, <2>3, <3>1, <1>1, <1>4
  <2> QED BY <2>2, <2>3
<1>7. Backward(n, p, s)
  BY <1>1, <1>6 DEF Backward
<1> QED BY <1>1, <1>3, <1>5, <1>7 DEF PageList
-----------------------------------------------------------------------------
(* Buffers in a page *)

\* Multiples of a number are that number apart.
LEMMA MultiplesApart ==
  ASSUME NEW P \in Nat \ {0}, NEW i \in Nat, NEW j \in Nat
  PROVE  /\ i * P \in Nat /\ j * P \in Nat
         /\ i < j => i * P + P <= j * P
         /\ i * P < j * P => i < j
OBVIOUS

\* Masking an address gives the page it lies in.
LEMMA PageOfFacts ==
  ASSUME NEW a \in Nat
  PROVE  /\ PageOf(a) \in Nat /\ PageOf(a) <= a /\ a < PageOf(a) + PageSize
         /\ \E k \in Nat : PageOf(a) = k * PageSize
<1>1. PageSize \in Nat \ {0}
  BY SizesGood
<1>2. PICK k \in Nat : k = a \div PageSize
  BY <1>1
<1>3. PICK r \in Nat : r = a % PageSize /\ r < PageSize
  BY <1>1
<1>4. PICK z \in Nat : z = k * PageSize
  BY <1>1, MultiplesApart
<1>5. ASSUME NEW P \in Int, P > 0 PROVE a % P = a - (a \div P) * P
  BY <1>5
<1>6. PageSize \in Int /\ PageSize > 0
  BY <1>1
<1>7. a % PageSize = a - (a \div PageSize) * PageSize
  BY <1>5, <1>6
<1>8. r = a - z
  BY <1>2, <1>3, <1>4, <1>7
<1>9. PageOf(a) = a - r
  BY <1>3 DEF PageOf
<1>10. PageOf(a) = z
  BY <1>8, <1>9
<1> QED BY <1>1, <1>3, <1>4, <1>8, <1>10

\* Only the page that an address lies in is that page.
LEMMA PageOfUnique ==
  ASSUME NEW p \in Nat, p % PageSize = 0, NEW a \in Nat, p <= a, a < p + PageSize
  PROVE  PageOf(a) = p
<1>1. PageSize \in Nat \ {0}
  BY SizesGood
<1>2. PICK i \in Nat : p = i * PageSize
  <2>1. p \div PageSize \in Nat /\ p = (p \div PageSize) * PageSize
    BY <1>1
  <2> QED BY <2>1
<1>3. PICK k \in Nat : PageOf(a) = k * PageSize
  BY PageOfFacts
<1>4. PICK q \in Nat : q = PageOf(a) /\ q <= a /\ a < q + PageSize
  BY PageOfFacts
<1>5. ~(p < q)
  <2> SUFFICES ASSUME p < q PROVE FALSE
    OBVIOUS
  <2>1. p + PageSize <= q
    BY <1>1, <1>2, <1>3, <1>4, MultiplesApart
  <2> QED BY <2>1, <1>1, <1>4
<1>6. ~(q < p)
  <2> SUFFICES ASSUME q < p PROVE FALSE
    OBVIOUS
  <2>1. q + PageSize <= p
    BY <1>1, <1>2, <1>3, <1>4, MultiplesApart
  <2> QED BY <2>1, <1>1, <1>4
<1> QED BY <1>4, <1>5, <1>6

\* As many buffers as fit behind the management structure.
LEMMA MaxFree ==
  ASSUME NEW s \in Small
  PROVE  /\ max_free(s) \in Nat \ {0} /\ s \in Nat \ {0} /\ s < PageSize
         /\ \A k \in 1 .. max_free(s) : k * s \in Nat /\ k * s + MngSize <= PageSize
<1>1. s \in Nat \ {0} /\ PageSize \in Nat \ {0} /\ MngSize \in Nat \ {0} /\ s < PageSize /\ MngSize + s <= PageSize
  BY MdbAssumption DEF Small, Large
<1> DEFINE T == {k \in Nat : k # 0 /\ PageSize - k * s < MngSize}
           K == {k \in 1 .. PageSize : PageSize - k * s >= MngSize}
<1>2. \A k \in Nat : k * s \in Nat /\ k <= k * s
  BY <1>1
<1>3. PageSize \in T
  BY <1>1, <1>2
<1>4. PICK j \in T : \A k \in T : j <= k
  BY <1>3, LeastExists
<1>5. j \in Nat /\ j # 0 /\ PageSize - j * s < MngSize /\ j * s \in Nat
  BY <1>2, <1>4
<1>6. j # 1
  BY <1>1, <1>5
<1>7. ASSUME NEW k \in Nat, k # 0, k < j PROVE PageSize - k * s >= MngSize /\ k \in 1 .. PageSize
  <2>1. k \notin T /\ k * s \in Nat /\ k <= k * s
    BY <1>2, <1>4, <1>5, <1>7
  <2>2. ~(PageSize - k * s < MngSize)
    BY <2>1, <1>7
  <2> QED BY <2>1, <2>2, <1>1, <1>7
<1>8. ASSUME NEW k \in Nat, j <= k PROVE ~(PageSize - k * s >= MngSize)
  <2>1. j * s <= k * s /\ k * s \in Nat
    BY <1>1, <1>5, <1>8, <1>2
  <2> QED BY <2>1, <1>1, <1>5
<1>9. K = 1 .. j - 1
  <2>1. ASSUME NEW k \in K PROVE k \in 1 .. j - 1
    <3>1. k \in Nat /\ k # 0 /\ PageSize - k * s >= MngSize
      BY <1>1
    <3>2. ~(j <= k)
      BY <3>1, <1>8
    <3> QED BY <3>1, <3>2, <1>5
  <2>2. ASSUME NEW k \in 1 .. j - 1 PROVE k \in K
    <3>1. k \in Nat /\ k # 0 /\ k < j
      BY <1>5
    <3> QED BY <3>1, <1>7
  <2> QED BY <2>1, <2>2
<1>10. max_free(s) = j - 1
  <2>1. Cardinality(1 .. j - 1) = j - 1
    BY <1>5, <1>6, FS_Interval
  <2> QED BY <2>1, <1>9 DEF max_free
<1>11. ASSUME NEW k \in 1 .. max_free(s) PROVE k * s \in Nat /\ k * s + MngSize <= PageSize
  <2>1. k \in Nat /\ k # 0 /\ k < j
    BY <1>5, <1>10
  <2>2. PageSize - k * s >= MngSize /\ k * s \in Nat
    BY <2>1, <1>2, <1>7
  <2> QED BY <2>2, <1>1
<1> QED BY <1>1, <1>5, <1>6, <1>10, <1>11

\* The buffers of a page lie in it, behind its management structure, and apart.
LEMMA SlotFacts ==
  ASSUME NEW p \in Nat, p % PageSize = 0, NEW s \in Small
  PROVE  /\ \A a \in Slots(p, s) : /\ a \in Nat /\ p + MngSize <= a /\ a + s <= p + PageSize
                                   /\ PageOf(a) = p
         /\ \A a, b \in Slots(p, s) : a < b => a + s <= b
         /\ IsFiniteSet(Slots(p, s)) /\ Cardinality(Slots(p, s)) = max_free(s)
<1>1. PICK m \in Nat \ {0} : m = max_free(s)
  BY MaxFree
<1>2. s \in Nat \ {0} /\ MngSize \in Nat \ {0} /\ PageSize \in Nat \ {0}
  BY MaxFree, MdbAssumption
<1>3. \A k \in 1 .. m : k \in Nat /\ k # 0 /\ k * s \in Nat /\ s <= k * s /\ k * s + MngSize <= PageSize
  <2>1. \A k \in 1 .. m : k \in Nat /\ k # 0 /\ k * s \in Nat /\ k * s + MngSize <= PageSize
    BY <1>1, MaxFree
  <2>2. \A k \in Nat : k # 0 => s <= k * s
    BY <1>2
  <2> QED BY <2>1, <2>2
<1>4. Slots(p, s) = {p + PageSize - k * s : k \in 1 .. m}
  BY <1>1 DEF Slots
<1>5. ASSUME NEW a \in Slots(p, s)
      PROVE  a \in Nat /\ p + MngSize <= a /\ a + s <= p + PageSize /\ PageOf(a) = p
  <2>1. PICK k \in 1 .. m : a = p + PageSize - k * s
    BY <1>4
  <2>2. a \in Nat /\ p + MngSize <= a /\ a + s <= p + PageSize
    BY <2>1, <1>2, <1>3
  <2>3. p <= a /\ a < p + PageSize
    BY <2>2, <1>2
  <2> QED BY <2>2, <2>3, PageOfUnique
<1>6. ASSUME NEW a \in Slots(p, s), NEW b \in Slots(p, s), a < b PROVE a + s <= b
  <2>1. PICK k \in 1 .. m : a = p + PageSize - k * s
    BY <1>4
  <2>2. PICK j \in 1 .. m : b = p + PageSize - j * s
    BY <1>4
  <2>3. j * s < k * s /\ j * s \in Nat /\ k * s \in Nat
    BY <2>1, <2>2, <1>2, <1>3, <1>6
  <2>4. j * s + s <= k * s
    BY <2>3, <1>2, <1>3, MultiplesApart
  <2> QED BY <2>1, <2>2, <2>3, <2>4, <1>2
<1>7. IsFiniteSet(Slots(p, s)) /\ Cardinality(Slots(p, s)) = m
  <2> DEFINE f == [k \in 1 .. m |-> p + PageSize - k * s]
  <2>1. IsFiniteSet(1 .. m) /\ Cardinality(1 .. m) = m
    BY FS_Interval
  <2>2. f \in Surjection(1 .. m, Slots(p, s))
    BY <1>4 DEF Surjection
  <2>3. ASSUME NEW i \in 1 .. m, NEW j \in 1 .. m, f[i] = f[j] PROVE i = j
    <3>1. i * s = j * s
      BY <2>3, <1>2, <1>3
    <3>2. ~(i < j) /\ ~(j < i)
      <4>1. i < j => i * s + s <= j * s
        BY <1>2, <1>3, MultiplesApart
      <4>2. j < i => j * s + s <= i * s
        BY <1>2, <1>3, MultiplesApart
      <4> QED BY <3>1, <4>1, <4>2, <1>2, <1>3
    <3> QED BY <3>2, <1>3
  <2>4. f \in Injection(1 .. m, Slots(p, s))
    BY <2>2, <2>3 DEF Injection, IsInjective, Surjection
  <2> HIDE DEF f
  <2> QED BY <2>1, <2>2, <2>4, FS_Surjection
<1> QED BY <1>1, <1>5, <1>6, <1>7

\* Putting an address in front of a list, and taking the first off it.
LEMMA PushFacts ==
  ASSUME NEW f \in Seq(Nat), Distinct(f), NEW a \in Nat, a \notin Members(f)
  PROVE  /\ <<a>> \o f \in Seq(Nat) /\ Len(<<a>> \o f) = Len(f) + 1
         /\ Distinct(<<a>> \o f) /\ Members(<<a>> \o f) = Members(f) \cup {a}
<1>1. PICK g : g = <<a>> \o f
  OBVIOUS
<1>2. PICK n \in Nat : n = Len(f)
  OBVIOUS
<1>3. /\ g \in Seq(Nat) /\ Len(g) = n + 1 /\ DOMAIN g = 1 .. n + 1 /\ DOMAIN f = 1 .. n
      /\ \A k \in 1 .. n + 1 : g[k] = IF k = 1 THEN a ELSE f[k - 1]
  BY <1>1, <1>2
<1>4. \A k \in 1 .. n + 1 : k # 1 => k - 1 \in 1 .. n
  OBVIOUS
<1>5. \A k \in 1 .. n : k + 1 \in 1 .. n + 1 /\ k + 1 # 1 /\ (k + 1) - 1 = k
  OBVIOUS
<1>6. \A k \in 1 .. n : g[k + 1] = f[k] /\ f[k] # a
  BY <1>3, <1>5 DEF Members
<1>7. Distinct(g)
  <2> SUFFICES ASSUME NEW j \in 1 .. n + 1, NEW k \in 1 .. n + 1, g[j] = g[k] PROVE j = k
    BY <1>3 DEF Distinct
  <2>1. CASE j = 1 /\ k # 1
    <3>1. f[k - 1] = a /\ k - 1 \in 1 .. n
      BY <2>1, <1>3, <1>4
    <3> QED BY <3>1, <1>6
  <2>2. CASE j # 1 /\ k = 1
    <3>1. f[j - 1] = a /\ j - 1 \in 1 .. n
      BY <2>2, <1>3, <1>4
    <3> QED BY <3>1, <1>6
  <2>3. CASE j # 1 /\ k # 1
    <3>1. f[j - 1] = f[k - 1] /\ j - 1 \in 1 .. n /\ k - 1 \in 1 .. n
      BY <2>3, <1>3, <1>4
    <3>2. j - 1 = k - 1
      BY <3>1, <1>2 DEF Distinct
    <3> QED BY <3>2
  <2> QED BY <2>1, <2>2, <2>3
<1>8. Members(g) = Members(f) \cup {a}
  <2>1. \A k \in 1 .. n + 1 : g[k] \in Members(f) \cup {a}
    BY <1>3, <1>4 DEF Members
  <2>2. a \in Members(g)
    <3>1. 1 \in 1 .. n + 1 /\ g[1] = a
      BY <1>3
    <3> QED BY <3>1, <1>3 DEF Members
  <2>3. \A k \in 1 .. n : f[k] \in Members(g)
    BY <1>3, <1>5, <1>6 DEF Members
  <2> QED BY <2>1, <2>2, <2>3, <1>3 DEF Members
<1> QED BY <1>1, <1>2, <1>3, <1>7, <1>8

\* What is left of a list without its first member.
LEMMA PopFacts ==
  ASSUME NEW f \in Seq(Nat), Distinct(f), Len(f) # 0
  PROVE  /\ Tail(f) \in Seq(Nat) /\ Len(Tail(f)) = Len(f) - 1
         /\ Distinct(Tail(f)) /\ Members(Tail(f)) = Members(f) \ {Head(f)}
         /\ Head(f) \in Members(f) /\ Head(f) \in Nat
<1>1. PICK g : g = Tail(f)
  OBVIOUS
<1>2. PICK n \in Nat : n = Len(f) - 1
  OBVIOUS
<1>3. /\ g \in Seq(Nat) /\ Len(g) = n /\ DOMAIN g = 1 .. n /\ DOMAIN f = 1 .. n + 1
      /\ \A k \in 1 .. n : g[k] = f[k + 1]
      /\ Head(f) = f[1] /\ Len(f) = n + 1 /\ f[1] \in Nat
  BY <1>1, <1>2
<1>4. \A k \in 1 .. n : k + 1 \in 1 .. n + 1 /\ k + 1 # 1
  OBVIOUS
<1>5. \A k \in 1 .. n + 1 : k # 1 => k - 1 \in 1 .. n /\ (k - 1) + 1 = k
  OBVIOUS
<1>6. 1 \in 1 .. n + 1
  OBVIOUS
<1>7. Distinct(g)
  <2> SUFFICES ASSUME NEW j \in 1 .. n, NEW k \in 1 .. n, g[j] = g[k] PROVE j = k
    BY <1>3 DEF Distinct
  <2>1. j + 1 = k + 1
    BY <1>3, <1>4 DEF Distinct
  <2> QED BY <2>1
<1>8. Members(g) = Members(f) \ {Head(f)}
  <2>1. \A k \in 1 .. n : g[k] \in Members(f) \ {f[1]}
    <3> SUFFICES ASSUME NEW k \in 1 .. n PROVE g[k] \in Members(f) \ {f[1]}
      OBVIOUS
    <3>1. g[k] = f[k + 1] /\ k + 1 \in DOMAIN f
      BY <1>3, <1>4
    <3>2. f[k + 1] # f[1]
      BY <1>3, <1>4, <1>6 DEF Distinct
    <3> QED BY <3>1, <3>2 DEF Members
  <2>2. \A k \in 1 .. n + 1 : f[k] # f[1] => f[k] \in Members(g)
    <3> SUFFICES ASSUME NEW k \in 1 .. n + 1, f[k] # f[1] PROVE f[k] \in Members(g)
      OBVIOUS
    <3>1. k - 1 \in 1 .. n /\ (k - 1) + 1 = k
      BY <1>5
    <3>2. g[k - 1] = f[k]
      BY <3>1, <1>3
    <3> QED BY <3>1, <3>2, <1>3 DEF Members
  <2> QED BY <2>1, <2>2, <1>3 DEF Members
<1>9. Head(f) \in Members(f)
  BY <1>3, <1>6 DEF Members
<1> QED BY <1>1, <1>2, <1>3, <1>7, <1>8, <1>9

\* A list of distinct addresses has as many as its length.
LEMMA DistinctCount ==
  ASSUME NEW f \in Seq(Nat), Distinct(f)
  PROVE  IsFiniteSet(Members(f)) /\ Cardinality(Members(f)) = Len(f)
<1>1. PICK n \in Nat : n = Len(f)
  OBVIOUS
<1>2. DOMAIN f = 1 .. n /\ f = [k \in 1 .. n |-> f[k]]
  BY <1>1
<1>3. IsFiniteSet(1 .. n) /\ Cardinality(1 .. n) = n
  BY FS_Interval
<1>4. f \in Surjection(1 .. n, Members(f))
  BY <1>2 DEF Surjection, Members
<1>5. f \in Injection(1 .. n, Members(f))
  BY <1>1, <1>2, <1>4 DEF Injection, IsInjective, Surjection, Distinct
<1> QED BY <1>1, <1>3, <1>4, <1>5, FS_Surjection

\* The chunks of a page, and that nothing else lies there.
LEMMA PageApart ==
  ASSUME KInv, NEW p, PageBlock(p) \in held
  PROVE  /\ p \in Nat /\ p % PageSize = 0 /\ p \in AllChunks
         /\ ChunksOf(PageBlock(p)) \subseteq Owned
         /\ \A a : Aligned(a) /\ PageOf(a) = p => a \in ChunksOf(PageBlock(p))
         /\ PageOf(p) = p
<1>1. PageBlock(p).at = p /\ PageBlock(p).size = PageSize
  BY DEF PageBlock
<1>2. IsBlock(PageBlock(p)) /\ ChunksOf(PageBlock(p)) \subseteq memory /\ memory \subseteq AllChunks
  BY DEF KInv
<1>3. PageSize \in Nat \ {0} /\ Rounded(PageSize) = PageSize /\ GoodSize(PageSize)
  BY SizesGood DEF Sizes
<1>4. Aligned(p) /\ p \in Nat /\ p % PageSize = 0
  BY <1>1, <1>2, <1>3 DEF IsBlock, Aligned
<1>5. PICK n \in Nat \ {0} : n = Count(PageSize) /\ PageSize = n * ChunkSize
  BY <1>3, SizeFacts
<1>6. ChunksOf(PageBlock(p)) = Run(p, n)
  BY <1>1, <1>3, <1>5, SizeFacts DEF ChunksOf
<1>7. p \in Run(p, n)
  BY <1>4, RunFacts
<1>8. ASSUME NEW a, Aligned(a), PageOf(a) = p PROVE a \in Run(p, n)
  <2>1. p <= a /\ a < p + PageSize
    BY <1>8, PageOfFacts DEF Aligned
  <2> QED BY <2>1, <1>4, <1>5, <1>8, RunFacts
<1>9. ChunksOf(PageBlock(p)) \subseteq Owned
  BY DEF Owned, ChunksOf
<1>10. PageOf(p) = p
  BY <1>3, <1>4, PageOfUnique
<1> QED BY <1>2, <1>4, <1>6, <1>7, <1>8, <1>9, <1>10

\* No large buffer, and no free chunk, is in a page.
LEMMA LargeApart ==
  ASSUME KInv, Buffers(mng, bufs, held)
  PROVE  /\ \A b \in bufs : Large(b.size) => PageOf(b.at) \notin PagesIn(mng)
         /\ \A a \in Avail : PageOf(a) \notin PagesIn(mng) /\ a \notin PagesIn(mng)
<1>0. \A p \in PagesIn(mng) : PageBlock(p) \in held
  BY DEF Buffers
<1>1. ASSUME NEW b \in bufs, Large(b.size), PageOf(b.at) \in PagesIn(mng) PROVE FALSE
  <2>1. PICK p : p = PageOf(b.at)
    OBVIOUS
  <2>2. PageBlock(p) \in held /\ mng[p] # NoPage
    BY <2>1, <1>0, <1>1 DEF PagesIn
  <2>3. b \in held /\ mng[b.at] = NoPage
    BY <1>1 DEF Buffers, BufferOK
  <2>4. Aligned(b.at) /\ GoodSize(b.size)
    BY <2>3, SizesGood DEF KInv, IsBlock
  <2>5. b.at \in ChunksOf(b)
    BY <2>4, SizeFacts, RunFacts DEF ChunksOf
  <2>6. b.at \in ChunksOf(PageBlock(p))
    BY <2>1, <2>2, <2>4, PageApart
  <2>7. b = PageBlock(p)
    BY <2>2, <2>3, <2>5, <2>6 DEF KInv
  <2> QED BY <2>2, <2>3, <2>7 DEF PageBlock
<1>2. ASSUME NEW a \in Avail PROVE PageOf(a) \notin PagesIn(mng) /\ a \notin PagesIn(mng)
  <2>1. Aligned(a) /\ a \notin Owned
    BY ChunksFacts DEF KInv, Avail
  <2>2. PageOf(a) \notin PagesIn(mng)
    BY <2>1, <1>0, PageApart
  <2>3. a \in PagesIn(mng) => PageOf(a) = a
    BY <1>0, PageApart
  <2> QED BY <2>2, <2>3
<1> QED BY <1>1, <1>2
-----------------------------------------------------------------------------
(* Steps of the buffer allocator *)

\* The blocks that pages and large buffers need stay held.
LEMMA BuffersHeld ==
  ASSUME NEW m, NEW B, NEW H, NEW K, Buffers(m, B, H),
         \A p \in PagesIn(m) : PageBlock(p) \in K,
         \A b \in B : Large(b.size) => b \in K
  PROVE  Buffers(m, B, K)
BY DEF Buffers, BufferOK

\* A large buffer lies in no page.
LEMMA LargeTaken ==
  ASSUME NEW m, NEW B, NEW H, NEW K, Buffers(m, B, H), H \subseteq K,
         NEW b, BufferOK(b, m, K), PageOf(b.at) \notin PagesIn(m)
  PROVE  Buffers(m, B \cup {b}, K)
<1>1. \A p \in PagesIn(m) : OutOf(B \cup {b}, p) = OutOf(B, p)
  BY DEF OutOf
<1> QED BY <1>1 DEF Buffers, BufferOK

\* A large buffer that is freed was in no page.
LEMMA LargeFreed ==
  ASSUME NEW m, NEW B, NEW H, Buffers(m, B, H), NEW b \in B,
         Large(b.size), PageOf(b.at) \notin PagesIn(m)
  PROVE  Buffers(m, B \ {b}, H \ {b})
<1>1. \A p \in PagesIn(m) : OutOf(B \ {b}, p) = OutOf(B, p)
  BY DEF OutOf
<1>2. \A p \in PagesIn(m) : PageBlock(p) # b
  <2>1. m[b.at] = NoPage
    BY DEF Buffers, BufferOK
  <2>2. \A p : PageBlock(p).at = p
    BY DEF PageBlock
  <2> QED BY <2>1, <2>2 DEF PagesIn
<1> QED BY <1>1, <1>2 DEF Buffers, BufferOK

\* The pages other than p keep their buffers.
OthersKept(m, n, p) ==
  \A c \in AllChunks \ {p} :
    /\ m[c] = NoPage <=> n[c] = NoPage
    /\ m[c] # NoPage => /\ n[c].freelist = m[c].freelist
                        /\ n[c].num_free = m[c].num_free /\ n[c].bl = m[c].bl

\* So what holds of them does not change.
LEMMA OthersSame ==
  ASSUME NEW m, NEW n, NEW p, OthersKept(m, n, p), NEW q \in AllChunks \ {p}, m[q] # NoPage,
         NEW out, PageOK(q, m[q], out)
  PROVE  n[q] # NoPage /\ PageOK(q, n[q], out)
<1>1. /\ n[q] # NoPage /\ n[q].freelist = m[q].freelist
      /\ n[q].num_free = m[q].num_free /\ n[q].bl = m[q].bl
  BY DEF OthersKept
<1> QED BY <1>1 DEF PageOK, PageCore, FreeOf

\* A buffer is taken off the list of its page.
LEMMA SmallTaken ==
  ASSUME NEW m \in Mngs, NEW n \in Mngs, NEW B, NEW H, NEW p \in PagesIn(m),
         p \in Nat, p % PageSize = 0, m[p].num_free # 0,
         PageCore(p, m[p], OutOf(B, p)),
         \A q \in PagesIn(m) \ {p} : PageOK(q, m[q], OutOf(B, q)),
         \A q \in PagesIn(m) : PageBlock(q) \in H,
         \A b \in B : BufferOK(b, m, H),
         OthersKept(m, n, p), n[p] # NoPage, n[p].bl = m[p].bl,
         n[p].freelist = Tail(m[p].freelist), n[p].num_free = m[p].num_free - 1
  PROVE  Buffers(n, B \cup {[at |-> Head(m[p].freelist), size |-> m[p].bl]}, H)
<1>1. PICK f : f = m[p].freelist
  OBVIOUS
<1>2. PICK s : s = m[p].bl
  OBVIOUS
<1>3. PICK a : a = Head(f)
  OBVIOUS
<1>4. PICK b : b = [at |-> a, size |-> s]
  OBVIOUS
<1>5. m[p] \in Mng /\ f \in Seq(Nat) /\ s \in Small /\ p \in AllChunks
  <2>1. m[p] \in Mng /\ p \in AllChunks
    BY NextPageType DEF PagesIn
  <2> QED BY <2>1, <1>1, <1>2 DEF Mng
<1>6. PICK out : out = OutOf(B, p)
  OBVIOUS
<1>7. /\ Distinct(f) /\ m[p].num_free = Len(f) /\ Members(f) \cap out = {}
      /\ Members(f) \cup out = Slots(p, s)
  BY <1>1, <1>2, <1>6 DEF PageCore, FreeOf
<1>8. /\ Tail(f) \in Seq(Nat) /\ Len(Tail(f)) = Len(f) - 1 /\ Distinct(Tail(f))
      /\ Members(Tail(f)) = Members(f) \ {a} /\ a \in Members(f) /\ a \in Nat
  BY <1>3, <1>5, <1>7, PopFacts
<1>9. PageOf(a) = p
  <2>1. a \in Slots(p, s)
    BY <1>7, <1>8
  <2> QED BY <2>1, <1>5, SlotFacts
<1>10. b.at = a /\ b.size = s
  BY <1>4
<1>11. PagesIn(n) = PagesIn(m)
  BY DEF PagesIn, OthersKept
<1>12. OutOf(B \cup {b}, p) = out \cup {a}
  BY <1>6, <1>9, <1>10 DEF OutOf
<1>13. \A q : q # p => OutOf(B \cup {b}, q) = OutOf(B, q)
  BY <1>9, <1>10 DEF OutOf
<1>14. PageOK(p, n[p], OutOf(B \cup {b}, p))
  <2>1. FreeOf(n[p]) = Members(f) \ {a}
    BY <1>1, <1>8 DEF FreeOf
  <2>2. PageCore(p, n[p], out \cup {a})
    BY <2>1, <1>1, <1>2, <1>7, <1>8 DEF PageCore
  <2> QED BY <2>2, <1>12 DEF PageOK
<1>15. ASSUME NEW q \in PagesIn(n) PROVE PageBlock(q) \in H /\ PageOK(q, n[q], OutOf(B \cup {b}, q))
  <2>1. CASE q = p
    BY <2>1, <1>14
  <2>2. CASE q # p
    <3>1. q \in AllChunks \ {p} /\ m[q] # NoPage /\ PageOK(q, m[q], OutOf(B, q))
      BY <2>2, <1>11 DEF PagesIn
    <3>2. PageOK(q, n[q], OutOf(B, q))
      BY <3>1, OthersSame
    <3> QED BY <2>2, <3>2, <1>11, <1>13
  <2> QED BY <2>1, <2>2
<1>16. \A d \in B : BufferOK(d, n, H)
  <2> SUFFICES ASSUME NEW d \in B PROVE BufferOK(d, n, H)
    OBVIOUS
  <2>1. BufferOK(d, m, H)
    OBVIOUS
  <2>2. \A c \in AllChunks : m[c] # NoPage => n[c] # NoPage /\ n[c].bl = m[c].bl
    BY DEF OthersKept
  <2>3. Large(d.size) => n[d.at] = NoPage
    <3> SUFFICES ASSUME Large(d.size) PROVE n[d.at] = NoPage
      OBVIOUS
    <3>1. m[d.at] = NoPage /\ d.at \in AllChunks /\ m[p] # NoPage
      BY <2>1 DEF BufferOK, PagesIn
    <3> QED BY <3>1 DEF OthersKept
  <2> QED BY <2>1, <2>2, <2>3 DEF BufferOK
<1>17. BufferOK(b, n, H)
  <2>1. ~Large(s) /\ s \in MdbSizes
    BY <1>5 DEF Small
  <2>2. n[p] # NoPage /\ n[p].bl = s /\ p \in AllChunks
    BY <1>2, <1>5
  <2> QED BY <2>1, <2>2, <1>4, <1>8, <1>9, <1>10 DEF BufferOK
<1>18. Buffers(n, B \cup {b}, H)
  BY <1>15, <1>16, <1>17 DEF Buffers
<1> QED BY <1>1, <1>2, <1>3, <1>4, <1>18

\* A buffer is put back on the list of its page.
LEMMA SmallFreed ==
  ASSUME NEW m \in Mngs, NEW n \in Mngs, NEW B, NEW H, Buffers(m, B, H),
         \A d \in B : Large(d.size) => PageOf(d.at) \notin PagesIn(m),
         NEW b \in B, ~Large(b.size), NEW p, p = PageOf(b.at), p \in Nat, p % PageSize = 0,
         OthersKept(m, n, p), n[p] # NoPage, n[p].bl = m[p].bl,
         n[p].freelist = <<b.at>> \o m[p].freelist, n[p].num_free = m[p].num_free + 1
  PROVE  /\ p \in PagesIn(m) /\ m[p].num_free \in Nat
         /\ n[p].num_free = max_free(n[p].bl) =>
              Buffers([n EXCEPT ![p] = NoPage], B \ {b}, H \ {PageBlock(p)})
         /\ (n[p].num_free # max_free(n[p].bl) \/ max_free(n[p].bl) = 1) => Buffers(n, B \ {b}, H)
<1>1. PICK f : f = m[p].freelist
  OBVIOUS
<1>2. PICK s : s = m[p].bl
  OBVIOUS
<1>3. PICK a : a = b.at
  OBVIOUS
<1>4. PICK out : out = OutOf(B, p)
  OBVIOUS
<1>5. BufferOK(b, m, H) /\ p \in AllChunks /\ m[p] # NoPage /\ b.size = s /\ a \in Nat /\ p \in PagesIn(m)
  BY <1>2, <1>3 DEF Buffers, BufferOK, PagesIn
<1>6. m[p] \in Mng /\ f \in Seq(Nat) /\ s \in Small /\ m[p].num_free \in Nat
  <2>1. m[p] \in Mng
    BY <1>5, NextPageType
  <2> QED BY <2>1, <1>1, <1>2 DEF Mng
<1>7. /\ Distinct(f) /\ m[p].num_free = Len(f) /\ Members(f) \cap out = {}
      /\ Members(f) \cup out = Slots(p, s) /\ PageBlock(p) \in H
  BY <1>1, <1>2, <1>4, <1>5 DEF Buffers, PageOK, PageCore, FreeOf
<1>8. a \in out /\ a \notin Members(f)
  BY <1>3, <1>4, <1>7 DEF OutOf
<1>9. PICK g : g = <<a>> \o f
  OBVIOUS
<1>10. g \in Seq(Nat) /\ Len(g) = Len(f) + 1 /\ Distinct(g) /\ Members(g) = Members(f) \cup {a}
  BY <1>5, <1>6, <1>7, <1>8, <1>9, PushFacts
<1>11. PICK rest : rest = B \ {b}
  OBVIOUS
<1>12. OutOf(rest, p) = out \ {a}
  <2>1. ASSUME NEW d \in B, PageOf(d.at) = p, d.at = a PROVE d = b
    <3>1. ~Large(d.size) /\ BufferOK(d, m, H)
      BY <2>1, <1>5 DEF Buffers
    <3>2. d.size = s /\ d = [at |-> d.at, size |-> d.size] /\ b = [at |-> b.at, size |-> b.size]
      BY <3>1, <2>1, <1>2, <1>5 DEF BufferOK
    <3> QED BY <3>2, <2>1, <1>3, <1>5
  <2> QED BY <2>1, <1>3, <1>4, <1>11 DEF OutOf
<1>13. \A q : q # p => OutOf(rest, q) = OutOf(B, q)
  BY <1>11 DEF OutOf
<1>14. PageCore(p, n[p], OutOf(rest, p))
  <2>1. FreeOf(n[p]) = Members(f) \cup {a} /\ n[p].freelist = g
    BY <1>1, <1>3, <1>9, <1>10 DEF FreeOf
  <2> QED BY <2>1, <1>2, <1>7, <1>8, <1>10, <1>12 DEF PageCore
<1>15. ASSUME NEW q \in PagesIn(m), q # p
       PROVE  PageBlock(q) \in H /\ n[q] # NoPage /\ PageOK(q, n[q], OutOf(rest, q))
  <2>1. q \in AllChunks \ {p} /\ m[q] # NoPage /\ PageOK(q, m[q], OutOf(B, q)) /\ PageBlock(q) \in H
    BY <1>15 DEF Buffers, PagesIn
  <2>2. n[q] # NoPage /\ PageOK(q, n[q], OutOf(B, q))
    BY <2>1, OthersSame
  <2> QED BY <2>1, <2>2, <1>13, <1>15
<1>16. PagesIn(n) = PagesIn(m)
  BY <1>5 DEF PagesIn, OthersKept
<1>17. ASSUME NEW d \in rest PROVE BufferOK(d, n, H)
  <2>1. BufferOK(d, m, H)
    BY <1>11 DEF Buffers
  <2>2. \A c \in AllChunks : m[c] # NoPage => n[c] # NoPage /\ n[c].bl = m[c].bl
    BY DEF OthersKept
  <2>3. Large(d.size) => n[d.at] = NoPage
    <3> SUFFICES ASSUME Large(d.size) PROVE n[d.at] = NoPage
      OBVIOUS
    <3>1. m[d.at] = NoPage /\ d.at \in AllChunks
      BY <2>1 DEF BufferOK
    <3> QED BY <3>1, <1>5 DEF OthersKept
  <2> QED BY <2>1, <2>2, <2>3 DEF BufferOK
\* The list of a page has all its buffers when none is handed out.
<1>18. n[p].num_free = max_free(s) <=> OutOf(rest, p) = {}
  <2>1. IsFiniteSet(Members(g)) /\ Cardinality(Members(g)) = n[p].num_free
    BY <1>7, <1>10, DistinctCount
  <2>2. IsFiniteSet(Slots(p, s)) /\ Cardinality(Slots(p, s)) = max_free(s)
    BY <1>6, SlotFacts
  <2>3. Members(g) \in SUBSET Slots(p, s) /\ Slots(p, s) = Members(g) \cup OutOf(rest, p)
        /\ Members(g) \cap OutOf(rest, p) = {}
    BY <1>7, <1>8, <1>10, <1>12
  <2>4. n[p].num_free = max_free(s) => Slots(p, s) = Members(g)
    BY <2>1, <2>2, <2>3, FS_Subset
  <2>5. OutOf(rest, p) = {} => Slots(p, s) = Members(g)
    BY <2>3
  <2> QED BY <2>1, <2>2, <2>3, <2>4, <2>5
<1>19. ASSUME n[p].num_free # max_free(s) \/ max_free(s) = 1 PROVE Buffers(n, rest, H)
  <2>1. PageOK(p, n[p], OutOf(rest, p))
    <3>1. max_free(s) > 1 => OutOf(rest, p) # {}
      BY <1>18, <1>19
    <3> QED BY <3>1, <1>2, <1>14 DEF PageOK
  <2>2. \A q \in PagesIn(n) : PageBlock(q) \in H /\ PageOK(q, n[q], OutOf(rest, q))
    BY <2>1, <1>7, <1>15, <1>16
  <2> QED BY <2>2, <1>17 DEF Buffers
<1>20. ASSUME n[p].num_free = max_free(s)
       PROVE  Buffers([n EXCEPT ![p] = NoPage], rest, H \ {PageBlock(p)})
  <2>1. PICK z : z = [n EXCEPT ![p] = NoPage]
    OBVIOUS
  <2>2. PICK K : K = H \ {PageBlock(p)}
    OBVIOUS
  <2>3. z \in Mngs /\ z[p] = NoPage /\ \A c \in AllChunks : c # p => z[c] = n[c]
    BY <2>1, <1>5 DEF Mngs
  <2>4. PagesIn(z) = PagesIn(n) \ {p}
    BY <2>3 DEF PagesIn
  <2>5. \A q : q # p => PageBlock(q) # PageBlock(p)
    <3>1. \A q : PageBlock(q).at = q
      BY DEF PageBlock
    <3> QED BY <3>1
  <2>6. \A q \in PagesIn(z) : PageBlock(q) \in K /\ PageOK(q, z[q], OutOf(rest, q))
    BY <2>2, <2>3, <2>4, <2>5, <1>15, <1>16 DEF PagesIn
  <2>7. ASSUME NEW d \in rest PROVE BufferOK(d, z, K)
    <3>1. BufferOK(d, n, H)
      BY <1>17
    <3>2. ASSUME Large(d.size) PROVE d \in K /\ z[d.at] = NoPage
      <4>1. n[d.at] = NoPage /\ d \in H /\ d.at \in AllChunks
        BY <3>1, <3>2 DEF BufferOK
      <4>2. PageBlock(p).at = p
        BY DEF PageBlock
      <4> QED BY <4>1, <4>2, <2>2, <2>3
    <3>3. ~Large(d.size) => PageOf(d.at) # p
      BY <1>18, <1>20 DEF OutOf
    <3> QED BY <3>1, <3>2, <3>3, <2>3 DEF BufferOK
  <2>8. Buffers(z, rest, K)
    BY <2>3, <2>6, <2>7 DEF Buffers
  <2> QED BY <2>1, <2>2, <2>8
<1> QED BY <1>2, <1>5, <1>6, <1>11, <1>19, <1>20

\* Assignments to the fields of a management structure.
LEMMA MngNotNoPage == \A r \in Mng : r # NoPage /\ r.num_free \in Nat /\ r.bl \in Small /\ r.freelist \in Seq(Nat)
                        /\ r.next_freelist \in AllChunks \cup {Null} /\ r.prev_freelist \in AllChunks \cup {Null}
<1> SUFFICES ASSUME NEW r \in Mng
             PROVE  r # NoPage /\ r.num_free \in Nat /\ r.bl \in Small /\ r.freelist \in Seq(Nat)
                    /\ r.next_freelist \in AllChunks \cup {Null} /\ r.prev_freelist \in AllChunks \cup {Null}
  OBVIOUS
<1>1. r.num_free \in Nat /\ NoPage.num_free = -1
  BY DEF Mng, NoPage
<1>2. r # NoPage
  BY <1>1
<1> QED BY <1>1, <1>2 DEF Mng

\* Only the record of c changes.
OnlyAt(m, n, c) == \A d \in AllChunks : d # c => n[d] = m[d]
WithList(m, c, f, k) == [m EXCEPT ![c].freelist = f, ![c].num_free = k]

\* The list of c is f, with k members.
ListIs(m, n, c, f, k) ==
  /\ n \in Mngs /\ OnlyAt(m, n, c) /\ PagesIn(n) = PagesIn(m)
  /\ n[c].freelist = f /\ n[c].num_free = k /\ n[c].bl = m[c].bl
  /\ n[c].next_freelist = m[c].next_freelist /\ n[c].prev_freelist = m[c].prev_freelist

\* Assignments to freelist and num_free.
LEMMA SetFree ==
  ASSUME NEW m \in Mngs, NEW c \in PagesIn(m), NEW f \in Seq(Nat), NEW k \in Nat
  PROVE  ListIs(m, WithList(m, c, f, k), c, f, k)
<1>0. PICK n : n = WithList(m, c, f, k)
  OBVIOUS
<1>1. c \in AllChunks /\ m[c] \in Mng
  BY NextPageType DEF PagesIn
<1>2. n = [m EXCEPT ![c] = [m[c] EXCEPT !.freelist = f, !.num_free = k]]
  BY <1>0, <1>1 DEF Mngs, WithList
<1>3. PICK r : r = [m[c] EXCEPT !.freelist = f, !.num_free = k]
  OBVIOUS
<1>4. /\ r \in Mng /\ r.freelist = f /\ r.num_free = k /\ r.bl = m[c].bl
      /\ r.next_freelist = m[c].next_freelist /\ r.prev_freelist = m[c].prev_freelist
  BY <1>1, <1>3 DEF Mng
<1>5. n[c] = r /\ n \in Mngs /\ OnlyAt(m, n, c)
  BY <1>1, <1>2, <1>3, <1>4 DEF Mngs, OnlyAt
<1>6. PagesIn(n) = PagesIn(m)
  BY <1>1, <1>4, <1>5, MngNotNoPage DEF PagesIn, OnlyAt
<1> QED BY <1>0, <1>4, <1>5, <1>6 DEF ListIs

\* The buffers of a page do not depend on its links.
SameBuffers(r, q) == r.freelist = q.freelist /\ r.num_free = q.num_free /\ r.bl = q.bl

\* The page c, if there is one, gets the link x; nothing else changes.
RelinkPrev(m, c, x) == IF c # Null THEN [m EXCEPT ![c].prev_freelist = x] ELSE m
RelinkNext(m, c, x) == IF c # Null THEN [m EXCEPT ![c].next_freelist = x] ELSE m
PrevIs(m, n, c, x) ==
  /\ n \in Mngs /\ PagesIn(n) = PagesIn(m) /\ OnlyAt(m, n, c)
  /\ \A d \in AllChunks : /\ SameBuffers(n[d], m[d]) /\ n[d].next_freelist = m[d].next_freelist
                          /\ n[d].prev_freelist = IF d = c THEN x ELSE m[d].prev_freelist
NextIs(m, n, c, x) ==
  /\ n \in Mngs /\ PagesIn(n) = PagesIn(m) /\ OnlyAt(m, n, c)
  /\ \A d \in AllChunks : /\ SameBuffers(n[d], m[d]) /\ n[d].prev_freelist = m[d].prev_freelist
                          /\ n[d].next_freelist = IF d = c THEN x ELSE m[d].next_freelist

\* An assignment to prev_freelist.
LEMMA SetPrev ==
  ASSUME NEW m \in Mngs, NEW c \in PagesIn(m) \cup {Null}, NEW x \in AllChunks \cup {Null}
  PROVE  PrevIs(m, RelinkPrev(m, c, x), c, x)
<1>0. PICK n : n = RelinkPrev(m, c, x)
  OBVIOUS
<1>1. CASE c = Null
  <2>1. n = m /\ Null \notin AllChunks
    BY <1>0, <1>1, ChunksFacts DEF RelinkPrev
  <2> QED BY <1>0, <1>1, <2>1 DEF PrevIs, OnlyAt, SameBuffers
<1>2. CASE c # Null
  <2>1. c \in AllChunks /\ m[c] \in Mng
    BY <1>2, NextPageType DEF PagesIn
  <2>2. n = [m EXCEPT ![c] = [m[c] EXCEPT !.prev_freelist = x]]
    BY <1>0, <1>2, <2>1 DEF Mngs, RelinkPrev
  <2>3. PICK r : r = [m[c] EXCEPT !.prev_freelist = x]
    OBVIOUS
  <2>4. /\ r \in Mng /\ SameBuffers(r, m[c])
        /\ r.next_freelist = m[c].next_freelist /\ r.prev_freelist = x
    BY <2>1, <2>3 DEF Mng, SameBuffers
  <2>5. n[c] = r /\ n \in Mngs /\ OnlyAt(m, n, c)
    BY <2>1, <2>2, <2>3, <2>4 DEF Mngs, OnlyAt
  <2>6. PagesIn(n) = PagesIn(m)
    BY <2>1, <2>4, <2>5, MngNotNoPage DEF PagesIn, OnlyAt
  <2>7. ASSUME NEW d \in AllChunks
        PROVE  /\ SameBuffers(n[d], m[d]) /\ n[d].next_freelist = m[d].next_freelist
               /\ n[d].prev_freelist = IF d = c THEN x ELSE m[d].prev_freelist
    BY <2>4, <2>5 DEF OnlyAt, SameBuffers
  <2> QED BY <1>0, <2>5, <2>6, <2>7 DEF PrevIs
<1> QED BY <1>1, <1>2

\* An assignment to next_freelist.
LEMMA SetNext ==
  ASSUME NEW m \in Mngs, NEW c \in PagesIn(m) \cup {Null}, NEW x \in AllChunks \cup {Null}
  PROVE  NextIs(m, RelinkNext(m, c, x), c, x)
<1>0. PICK n : n = RelinkNext(m, c, x)
  OBVIOUS
<1>1. CASE c = Null
  <2>1. n = m /\ Null \notin AllChunks
    BY <1>0, <1>1, ChunksFacts DEF RelinkNext
  <2> QED BY <1>0, <1>1, <2>1 DEF NextIs, OnlyAt, SameBuffers
<1>2. CASE c # Null
  <2>1. c \in AllChunks /\ m[c] \in Mng
    BY <1>2, NextPageType DEF PagesIn
  <2>2. n = [m EXCEPT ![c] = [m[c] EXCEPT !.next_freelist = x]]
    BY <1>0, <1>2, <2>1 DEF Mngs, RelinkNext
  <2>3. PICK r : r = [m[c] EXCEPT !.next_freelist = x]
    OBVIOUS
  <2>4. /\ r \in Mng /\ SameBuffers(r, m[c])
        /\ r.prev_freelist = m[c].prev_freelist /\ r.next_freelist = x
    BY <2>1, <2>3 DEF Mng, SameBuffers
  <2>5. n[c] = r /\ n \in Mngs /\ OnlyAt(m, n, c)
    BY <2>1, <2>2, <2>3, <2>4 DEF Mngs, OnlyAt
  <2>6. PagesIn(n) = PagesIn(m)
    BY <2>1, <2>4, <2>5, MngNotNoPage DEF PagesIn, OnlyAt
  <2>7. ASSUME NEW d \in AllChunks
        PROVE  /\ SameBuffers(n[d], m[d]) /\ n[d].prev_freelist = m[d].prev_freelist
               /\ n[d].next_freelist = IF d = c THEN x ELSE m[d].next_freelist
    BY <2>4, <2>5 DEF OnlyAt, SameBuffers
  <2> QED BY <1>0, <2>5, <2>6, <2>7 DEF NextIs
<1> QED BY <1>1, <1>2

\* What happens to pages of one size leaves the lists of the others alone.
LEMMA OtherLists ==
  ASSUME NEW m \in Mngs, NEW n \in Mngs, NEW s, NEW t, t # s, NEW h, PageList(m, h, t),
         \A c \in AllChunks : n[c] = m[c] \/ (/\ m[c] # NoPage => m[c].bl = s
                                              /\ n[c] # NoPage => n[c].bl = s)
  PROVE  PageList(n, h, t)
<1>1. WithFree(n, t) = WithFree(m, t)
  BY DEF WithFree, PagesIn
<1>2. \A c \in WithFree(m, t) : n[c] = m[c]
  BY DEF WithFree, PagesIn
<1> QED BY <1>1, <1>2, PageListSame

\* The lists after a buffer is taken from the page in front.
LEMMA PoppedLists ==
  ASSUME NEW m \in Mngs, NEW size \in Small, NEW page \in WithFree(m, size),
         list_of_lists \in [Small -> AllChunks \cup {Null}],
         PageList(m, page, size), m[page].num_free = Len(m[page].freelist),
         \A t \in Small \ {size} : PageList(m, list_of_lists[t], t),
         Popped(m, page, size)
  PROVE  /\ mng' \in Mngs /\ list_of_lists' \in [Small -> AllChunks \cup {Null}]
         /\ \A t \in Small : PageList(mng', list_of_lists'[t], t)
         /\ OthersKept(m, mng', page) /\ mng'[page] # NoPage /\ mng'[page].bl = m[page].bl
         /\ mng'[page].freelist = Tail(m[page].freelist)
         /\ mng'[page].num_free = m[page].num_free - 1
<1>1. /\ page \in PagesIn(m) /\ page \in AllChunks /\ m[page] \in Mng
      /\ m[page].bl = size /\ m[page].num_free > 0 /\ m[page].num_free \in Nat
      /\ m[page].freelist \in Seq(Nat)
  BY NextPageType, MngNotNoPage DEF WithFree, PagesIn
<1>2. Tail(m[page].freelist) \in Seq(Nat) /\ m[page].num_free - 1 \in Nat
  BY <1>1
<1>3. PICK l : l = WithList(m, page, Tail(m[page].freelist), m[page].num_free - 1)
  OBVIOUS
<1>f. PICK f \in Seq(Nat) : f = Tail(m[page].freelist)
  BY <1>2
<1>k. PICK k \in Nat : k = m[page].num_free - 1
  BY <1>2
<1>4. /\ l \in Mngs /\ OnlyAt(m, l, page) /\ PagesIn(l) = PagesIn(m)
      /\ l[page].freelist = Tail(m[page].freelist)
      /\ l[page].num_free = m[page].num_free - 1 /\ l[page].bl = size
      /\ l[page].next_freelist = m[page].next_freelist
      /\ l[page].prev_freelist = m[page].prev_freelist
  <2>1. l = WithList(m, page, f, k)
    BY <1>3, <1>f, <1>k
  <2>2. ListIs(m, l, page, f, k)
    BY <2>1, <1>1, SetFree
  <2> QED BY <2>2, <1>1, <1>f, <1>k DEF ListIs
<1>5. l = [m EXCEPT ![page].freelist = Tail(@), ![page].num_free = @ - 1]
  BY <1>1, <1>3 DEF Mngs, WithList
<1>6. PICK n : n = m[page].next_freelist
  OBVIOUS
<1>7. PICK g : g = IF l[page].num_free # 0 THEN page ELSE n
  OBVIOUS
<1>8. PICK z : z = IF l[page].num_free = 0 THEN RelinkPrev(l, n, Null) ELSE l
  OBVIOUS
<1>9. mng' = z /\ list_of_lists' = [list_of_lists EXCEPT ![size] = g]
  BY <1>5, <1>6, <1>7, <1>8 DEF Popped, RelinkPrev
<1>10. /\ page # n /\ (n # Null => n \in WithFree(m, size)) /\ n \in AllChunks \cup {Null}
  BY <1>1, <1>6, PageListFacts, MngNotNoPage
<1>11. /\ z \in Mngs /\ PagesIn(z) = PagesIn(m)
       /\ \A c \in AllChunks \ {page} : /\ z[c] = m[c] \/ (c = n /\ l[page].num_free = 0)
                                        /\ z[c].freelist = m[c].freelist
                                        /\ z[c].num_free = m[c].num_free /\ z[c].bl = m[c].bl
                                        /\ z[c].next_freelist = m[c].next_freelist
       /\ l[page].num_free = 0 /\ n # Null => z[n].prev_freelist = Null
       /\ z[page] = l[page]
  <2>1. CASE l[page].num_free = 0
    <3>1. n \in PagesIn(l) \cup {Null} /\ z = RelinkPrev(l, n, Null) /\ Null \in AllChunks \cup {Null}
      BY <2>1, <1>4, <1>8, <1>10 DEF WithFree
    <3>2. PrevIs(l, z, n, Null)
      BY <3>1, <1>4, SetPrev
    <3>3. /\ z \in Mngs /\ OnlyAt(l, z, n) /\ PagesIn(z) = PagesIn(l)
          /\ \A d \in AllChunks : /\ z[d].freelist = l[d].freelist /\ z[d].num_free = l[d].num_free
                                  /\ z[d].bl = l[d].bl /\ z[d].next_freelist = l[d].next_freelist
          /\ n \in AllChunks => z[n].prev_freelist = Null
      BY <3>2 DEF PrevIs, SameBuffers
    <3> QED BY <2>1, <3>3, <1>1, <1>4, <1>10 DEF OnlyAt
  <2>2. CASE l[page].num_free # 0
    <3>1. z = l
      BY <2>2, <1>8
    <3> QED BY <2>2, <3>1, <1>4 DEF OnlyAt
  <2> QED BY <2>1, <2>2
<1>12. OthersKept(m, z, page)
  BY <1>11 DEF OthersKept, PagesIn
<1>13. z[page] # NoPage
  BY <1>1, <1>11 DEF PagesIn
<1>14. ASSUME NEW t \in Small, t # size PROVE PageList(z, list_of_lists[t], t)
  <2>1. PageList(m, list_of_lists[t], t)
    BY <1>14
  <2>2. \A c \in AllChunks : z[c] = m[c] \/ (/\ m[c] # NoPage => m[c].bl = size
                                             /\ z[c] # NoPage => z[c].bl = size)
    <3> SUFFICES ASSUME NEW c \in AllChunks, z[c] # m[c]
                 PROVE  (m[c] # NoPage => m[c].bl = size) /\ (z[c] # NoPage => z[c].bl = size)
      OBVIOUS
    <3>1. CASE c = page
      BY <3>1, <1>1, <1>4, <1>11
    <3>2. CASE c # page
      <4>1. c = n /\ n # Null
        BY <3>2, <1>11, ChunksFacts
      <4>2. m[c].bl = size
        BY <4>1, <1>10 DEF WithFree
      <4> QED BY <3>2, <4>2, <1>11
    <3> QED BY <3>1, <3>2
  <2> QED BY <2>1, <2>2, <1>11, <1>14, OtherLists
<1>15. PageList(z, g, size)
  <2>1. CASE l[page].num_free # 0
    <3>1. g = page /\ z = l /\ l[page].num_free > 0
      <4>1. l[page].num_free = k
        BY <1>4, <1>k
      <4>2. k # 0 /\ k > 0
        BY <4>1, <2>1
      <4> QED BY <4>1, <4>2, <1>7, <1>8
    <3>2. WithFree(l, size) = WithFree(m, size)
      BY <3>1, <1>1, <1>4 DEF WithFree, OnlyAt, PagesIn
    <3>3. \A c \in WithFree(m, size) : /\ l[c].next_freelist = m[c].next_freelist
                                       /\ l[c].prev_freelist = m[c].prev_freelist
      BY <1>4 DEF WithFree, OnlyAt, PagesIn
    <3> QED BY <3>1, <3>2, <3>3, <1>4, PageListSame
  <2>2. CASE l[page].num_free = 0
    <3>1. g = n
      BY <2>2, <1>7
    <3>2. WithFree(z, size) = WithFree(m, size) \ {page}
      <4>1. z[page].num_free = 0 /\ ~(z[page].num_free > 0)
        BY <2>2, <1>11
      <4> QED BY <4>1, <1>11 DEF WithFree, PagesIn
    <3>3. m[page].prev_freelist = Null
      BY DEF PageList, Backward
    <3>4. \A c \in WithFree(z, size) :
            /\ z[c].next_freelist = IF page # page /\ c = m[page].prev_freelist THEN m[page].next_freelist
                                    ELSE m[c].next_freelist
            /\ z[c].prev_freelist = IF c = m[page].next_freelist THEN m[page].prev_freelist
                                    ELSE m[c].prev_freelist
      <4> SUFFICES ASSUME NEW c \in WithFree(z, size)
                   PROVE  /\ z[c].next_freelist = m[c].next_freelist
                          /\ z[c].prev_freelist = IF c = n THEN Null ELSE m[c].prev_freelist
        BY <3>3, <1>6
      <4>1. c \in AllChunks \ {page} /\ c # Null
        BY <3>2, ChunksFacts DEF WithFree, PagesIn
      <4> QED BY <2>2, <4>1, <1>11
    <3>5. PageList(z, IF page = page THEN m[page].next_freelist ELSE page, size)
      BY <3>2, <3>4, <1>11, PageListRemove
    <3> QED BY <3>1, <3>5, <1>6
  <2> QED BY <2>1, <2>2
<1>16. g \in AllChunks \cup {Null}
  BY <1>1, <1>7, <1>10
<1>17. /\ list_of_lists' \in [Small -> AllChunks \cup {Null}] /\ list_of_lists'[size] = g
       /\ \A t \in Small : t # size => list_of_lists'[t] = list_of_lists[t]
  BY <1>9, <1>16
<1> QED BY <1>1, <1>4, <1>9, <1>11, <1>12, <1>13, <1>14, <1>15, <1>17

\* The invariant in the next state.
LEMMA MdbInvPrime ==
  ASSUME KInv', Buffers(mng', bufs', held'),
         list_of_lists' \in [Small -> AllChunks \cup {Null}],
         \A s \in Small : PageList(mng', list_of_lists'[s], s)
  PROVE  MdbInv'
BY DEF MdbInv

\* The structure of a page that was just fetched.
LEMMA FreshFacts ==
  ASSUME NEW page \in Nat, page % PageSize = 0, NEW size \in Small
  PROVE  /\ FreshPage(page, size) \in Mng /\ PageCore(page, FreshPage(page, size), {})
         /\ FreshPage(page, size).num_free # 0 /\ FreshPage(page, size).bl = size
         /\ FreshPage(page, size).next_freelist = Null /\ FreshPage(page, size).prev_freelist = Null
<1>1. PICK m \in Nat \ {0} : m = max_free(size)
  BY MaxFree
<1>2. size \in Nat \ {0} /\ PageSize \in Nat
  BY MaxFree, SizesGood
<1>3. PICK f : f = [k \in 1 .. m |-> page + PageSize - (m - (k - 1)) * size]
  OBVIOUS
<1>4. \A k \in 1 .. m : m - (k - 1) \in 1 .. m /\ m - ((m - (k - 1)) - 1) = k
  OBVIOUS
<1>5. Slots(page, size) = {page + PageSize - k * size : k \in 1 .. m}
  BY <1>1 DEF Slots
<1>6. \A a \in Slots(page, size) : a \in Nat
  BY SlotFacts
<1>7. \A k \in 1 .. m : f[k] \in Slots(page, size)
  BY <1>3, <1>4, <1>5
<1>8. f \in Seq(Nat) /\ Len(f) = m /\ DOMAIN f = 1 .. m
  <2>1. f \in [1 .. m -> Nat]
    BY <1>3, <1>6, <1>7
  <2> QED BY <2>1
<1>9. Members(f) = Slots(page, size)
  <2>1. ASSUME NEW k \in 1 .. m PROVE page + PageSize - k * size \in Members(f)
    <3>1. PICK j \in 1 .. m : j = m - (k - 1) /\ m - (j - 1) = k
      BY <1>4
    <3>2. f[j] = page + PageSize - k * size
      BY <3>1, <1>3
    <3> QED BY <3>2, <1>8 DEF Members
  <2>2. ASSUME NEW a \in Slots(page, size) PROVE a \in Members(f)
    <3>1. PICK k \in 1 .. m : a = page + PageSize - k * size
      BY <1>5
    <3> QED BY <3>1, <2>1
  <2>3. ASSUME NEW a \in Members(f) PROVE a \in Slots(page, size)
    <3>1. PICK k \in 1 .. m : a = f[k]
      BY <1>8 DEF Members
    <3> QED BY <3>1, <1>7
  <2> QED BY <2>2, <2>3
<1>10. Distinct(f)
  <2> SUFFICES ASSUME NEW j \in 1 .. m, NEW k \in 1 .. m, f[j] = f[k] PROVE j = k
    BY <1>8 DEF Distinct
  <2>1. PICK i \in 1 .. m : i = m - (j - 1)
    BY <1>4
  <2>2. PICK l \in 1 .. m : l = m - (k - 1)
    BY <1>4
  <2>3. i * size \in Nat /\ l * size \in Nat /\ i \in Nat /\ l \in Nat
    BY <1>2, MultiplesApart
  <2>4. page + PageSize - i * size = page + PageSize - l * size
    BY <2>1, <2>2, <1>3
  <2>5. i * size = l * size
    BY <2>3, <2>4, <1>2
  <2>6. ~(i < l) /\ ~(l < i)
    BY <2>3, <2>5, <1>2, MultiplesApart
  <2>7. i = l
    BY <2>3, <2>6
  <2> QED BY <2>1, <2>2, <2>7
<1>11. PICK r : r = FreshPage(page, size)
  OBVIOUS
<1>12. /\ r = [freelist |-> f, num_free |-> m, next_freelist |-> Null, prev_freelist |-> Null, bl |-> size]
  BY <1>1, <1>3, <1>11 DEF FreshPage
<1>13. /\ r.freelist = f /\ r.num_free = m /\ r.next_freelist = Null /\ r.prev_freelist = Null
       /\ r.bl = size /\ r \in Mng
  BY <1>8, <1>12 DEF Mng
<1>14. PageCore(page, r, {})
  BY <1>8, <1>9, <1>10, <1>13 DEF PageCore, FreeOf
<1> QED BY <1>11, <1>13, <1>14

\* An aligned address that masks to a page is one of its chunks.
LEMMA InPage ==
  ASSUME NEW p, Aligned(p), NEW a, Aligned(a), PageOf(a) = p
  PROVE  a \in Chunks(p, PageSize)
<1>1. PageSize \in Nat \ {0} /\ Rounded(PageSize) = PageSize /\ GoodSize(PageSize)
  BY SizesGood DEF Sizes
<1>2. PICK n \in Nat \ {0} : Chunks(p, PageSize) = Run(p, n) /\ PageSize = n * ChunkSize
  BY <1>1, SizeFacts
<1>3. p <= a /\ a < p + PageSize
  BY PageOfFacts DEF Aligned
<1> QED BY <1>2, <1>3, RunFacts

\* A buffer of a large size comes from kmem_t, one of a small size from a page.
LEMMA AllocLargeInv ==
  ASSUME MdbInv, NEW size \in MdbSizes, Large(size), AllocBuffer(size)
  PROVE  MdbInv'
<1>1. KInv /\ Buffers(mng, bufs, held) /\ size \in Sizes
  BY DEF MdbInv, Sizes
<1>2. /\ CanAlloc(size, Any) /\ AllocStep(size, Any)
      /\ bufs' = bufs \cup {[at |-> AllocAt(size, Any), size |-> size]}
      /\ mng' = mng /\ list_of_lists' = list_of_lists
  BY DEF AllocBuffer
<1>3. PICK c : c = AllocAt(size, Any)
  OBVIOUS
<1>4. PICK b : b = [at |-> c, size |-> size]
  OBVIOUS
<1>5. KInv' /\ held' = held \cup {b} /\ c \in Avail
  BY <1>1, <1>2, <1>3, <1>4, AllocInv
<1>6. PageOf(c) \notin PagesIn(mng) /\ c \notin PagesIn(mng) /\ c \in AllChunks /\ c \in Nat
  BY <1>1, <1>5, LargeApart, ChunksFacts DEF KInv, Avail
<1>7. b.at = c /\ b.size = size
  BY <1>4
<1>8. BufferOK(b, mng, held')
  BY <1>4, <1>5, <1>6, <1>7 DEF BufferOK, PagesIn
<1>9. Buffers(mng, bufs \cup {b}, held')
  <2>1. PICK K : K = held'
    OBVIOUS
  <2>2. Buffers(mng, bufs \cup {b}, K)
    BY <2>1, <1>1, <1>5, <1>6, <1>7, <1>8, LargeTaken
  <2> QED BY <2>1, <2>2
<1>10. Buffers(mng', bufs', held')
  BY <1>2, <1>3, <1>4, <1>9
<1>11. list_of_lists' \in [Small -> AllChunks \cup {Null}] /\ \A s \in Small : PageList(mng', list_of_lists'[s], s)
  BY <1>2 DEF MdbInv
<1> QED BY <1>5, <1>10, <1>11, MdbInvPrime

\* A small one comes from the first page of the list, or from a fresh one.
LEMMA AllocSmallInv ==
  ASSUME MdbInv, NEW size \in MdbSizes, ~Large(size), AllocBuffer(size)
  PROVE  MdbInv'
<1>1. /\ KInv /\ Buffers(mng, bufs, held) /\ size \in Small /\ mng \in Mngs
      /\ list_of_lists \in [Small -> AllChunks \cup {Null}]
      /\ \A s \in Small : PageList(mng, list_of_lists[s], s)
  BY DEF MdbInv, Small, Buffers
<1>2. ASSUME list_of_lists[size] # Null PROVE MdbInv'
  <2>1. PICK page : page = list_of_lists[size]
    OBVIOUS
  <2>2. UNCHANGED kmem /\ Popped(mng, page, size) /\ bufs' = bufs \cup {[at |-> Head(mng[page].freelist), size |-> size]}
    BY <1>2, <2>1 DEF AllocBuffer
  <2>3. page \in WithFree(mng, size) /\ PageList(mng, page, size)
    BY <1>1, <1>2, <2>1, PageListFacts
  <2>4. /\ page \in PagesIn(mng) /\ mng[page].bl = size /\ mng[page].num_free # 0
        /\ PageOK(page, mng[page], OutOf(bufs, page)) /\ PageBlock(page) \in held
    BY <2>3, <1>1 DEF WithFree, Buffers
  <2>5. page \in Nat /\ page % PageSize = 0
    BY <2>4, <1>1, PageApart
  <2>6. mng[page].num_free = Len(mng[page].freelist) /\ PageCore(page, mng[page], OutOf(bufs, page))
    BY <2>4 DEF PageOK, PageCore
  <2>7. PICK n : n = mng'
    OBVIOUS
  <2>8. /\ n \in Mngs /\ list_of_lists' \in [Small -> AllChunks \cup {Null}]
        /\ \A t \in Small : PageList(n, list_of_lists'[t], t)
        /\ OthersKept(mng, n, page) /\ n[page] # NoPage /\ n[page].bl = mng[page].bl
        /\ n[page].freelist = Tail(mng[page].freelist) /\ n[page].num_free = mng[page].num_free - 1
    <3>1. \A t \in Small \ {size} : PageList(mng, list_of_lists[t], t)
      BY <1>1
    <3> QED BY <3>1, <2>2, <2>3, <2>6, <2>7, <1>1, PoppedLists
  <2>9. Buffers(n, bufs \cup {[at |-> Head(mng[page].freelist), size |-> mng[page].bl]}, held)
    <3>1. /\ \A q \in PagesIn(mng) \ {page} : PageOK(q, mng[q], OutOf(bufs, q))
          /\ \A q \in PagesIn(mng) : PageBlock(q) \in held
          /\ \A b \in bufs : BufferOK(b, mng, held)
      BY <1>1 DEF Buffers
    <3> QED BY <3>1, <2>4, <2>5, <2>6, <2>8, <1>1, SmallTaken
  <2>10. Buffers(mng', bufs', held')
    BY <2>2, <2>4, <2>7, <2>9 DEF kmem
  <2>11. KInv'
    BY <2>2, <1>1 DEF kmem, KInv, Avail, Owned, Sorted, Chain, Ranked, Follows
  <2> QED BY <2>7, <2>8, <2>10, <2>11, MdbInvPrime
<1>3. ASSUME list_of_lists[size] = Null PROVE MdbInv'
  <2>1. PICK page : page = AllocAt(PageSize, Any)
    OBVIOUS
  <2>2. PICK r : r = FreshPage(page, size)
    OBVIOUS
  <2>3. PICK m : m = [mng EXCEPT ![page] = r]
    OBVIOUS
  <2>4. /\ CanAlloc(PageSize, Any) /\ AllocStep(PageSize, Any) /\ Popped(m, page, size)
        /\ bufs' = bufs \cup {[at |-> Head(m[page].freelist), size |-> size]}
    BY <1>3, <2>1, <2>2, <2>3 DEF AllocBuffer
  <2>5. PICK K : K = held'
    OBVIOUS
  <2>6. PageSize \in Sizes /\ Rounded(PageSize) = PageSize
    BY SizesGood DEF Sizes
  <2>7. /\ KInv' /\ K = held \cup {PageBlock(page)} /\ page \in Avail
        /\ Chunks(page, PageSize) \subseteq Avail /\ IsBlock(PageBlock(page))
    BY <2>1, <2>4, <2>5, <2>6, <1>1, AllocInv DEF PageBlock
  <2>8. /\ page \in AllChunks /\ page \in Nat /\ Aligned(page) /\ page % PageSize = 0
        /\ page \notin PagesIn(mng) /\ mng[page] = NoPage
    <3>1. page \in AllChunks /\ page \in Nat /\ Aligned(page)
      BY <2>7, <1>1, ChunksFacts DEF KInv, Avail
    <3>2. page % PageSize = 0
      BY <2>6, <2>7 DEF IsBlock, PageBlock
    <3>3. page \notin PagesIn(mng)
      BY <2>7, <1>1, LargeApart
    <3> QED BY <3>1, <3>2, <3>3 DEF PagesIn
  <2>9. /\ r \in Mng /\ PageCore(page, r, {}) /\ r.num_free # 0 /\ r.num_free \in Nat /\ r.bl = size
        /\ r.next_freelist = Null /\ r.prev_freelist = Null /\ r # NoPage
    BY <2>2, <2>8, <1>1, FreshFacts, MngNotNoPage
  <2>10. m \in Mngs /\ m[page] = r /\ \A c \in AllChunks : c # page => m[c] = mng[c]
    BY <2>3, <2>8, <2>9, <1>1 DEF Mngs
  <2>11. PagesIn(m) = PagesIn(mng) \cup {page}
    BY <2>8, <2>9, <2>10 DEF PagesIn
  <2>12. OutOf(bufs, page) = {}
    <3> SUFFICES ASSUME NEW b \in bufs, PageOf(b.at) = page PROVE FALSE
      BY DEF OutOf
    <3>1. BufferOK(b, mng, held)
      BY <1>1 DEF Buffers
    <3>2. Large(b.size) /\ b \in held
      BY <3>1, <2>8 DEF BufferOK
    <3>3. Aligned(b.at) /\ GoodSize(b.size)
      BY <3>2, <1>1, SizesGood DEF KInv, IsBlock
    <3>4. b.at \in ChunksOf(b)
      BY <3>3, SizeFacts, RunFacts DEF ChunksOf
    <3>5. b.at \in Owned
      BY <3>2, <3>4 DEF Owned, ChunksOf
    <3>6. b.at \in Avail
      BY <3>3, <2>7, <2>8, InPage
    <3> QED BY <3>5, <3>6 DEF Avail
  <2>13. WithFree(mng, size) = {} /\ PageList(mng, Null, size)
    BY <1>1, <1>3, PageListFacts
  <2>14. WithFree(m, size) = {page} /\ page \in WithFree(m, size)
    <3>1. r.num_free > 0
      BY <2>9
    <3>2. page \in WithFree(m, size)
      BY <3>1, <2>9, <2>10, <2>11 DEF WithFree
    <3>3. ASSUME NEW c \in WithFree(m, size), c # page PROVE FALSE
      <4>1. c \in PagesIn(mng) /\ m[c] = mng[c]
        BY <3>3, <2>10, <2>11 DEF WithFree, PagesIn
      <4> QED BY <3>3, <4>1, <2>13 DEF WithFree
    <3> QED BY <3>2, <3>3
  <2>15. PageList(m, page, size)
    <3>1. page \in AllChunks \ WithFree(mng, size) /\ WithFree(m, size) = WithFree(mng, size) \cup {page}
      BY <2>8, <2>13, <2>14
    <3>2. m[page].next_freelist = Null /\ m[page].prev_freelist = Null
      BY <2>9, <2>10
    <3> QED BY <3>1, <3>2, <2>10, <2>13, <1>1, PageListPush
  <2>16. \A t \in Small \ {size} : PageList(m, list_of_lists[t], t)
    <3> SUFFICES ASSUME NEW t \in Small, t # size PROVE PageList(m, list_of_lists[t], t)
      OBVIOUS
    <3>1. \A c \in AllChunks : m[c] = mng[c] \/ (/\ mng[c] # NoPage => mng[c].bl = size
                                                 /\ m[c] # NoPage => m[c].bl = size)
      BY <2>8, <2>9, <2>10
    <3> QED BY <3>1, <2>10, <1>1, OtherLists
  <2>17. PICK n : n = mng'
    OBVIOUS
  <2>18. m[page].num_free = Len(m[page].freelist)
    BY <2>9, <2>10 DEF PageCore
  <2>19. /\ n \in Mngs /\ list_of_lists' \in [Small -> AllChunks \cup {Null}]
         /\ \A t \in Small : PageList(n, list_of_lists'[t], t)
         /\ OthersKept(m, n, page) /\ n[page] # NoPage /\ n[page].bl = m[page].bl
         /\ n[page].freelist = Tail(m[page].freelist) /\ n[page].num_free = m[page].num_free - 1
    BY <2>4, <2>10, <2>14, <2>15, <2>16, <2>17, <2>18, <1>1, PoppedLists
  <2>20. Buffers(n, bufs \cup {[at |-> Head(m[page].freelist), size |-> m[page].bl]}, K)
    <3>1. \A q \in PagesIn(m) \ {page} : PageOK(q, m[q], OutOf(bufs, q))
      BY <2>10, <2>11, <1>1 DEF Buffers, PagesIn
    <3>2. \A q \in PagesIn(m) : PageBlock(q) \in K
      BY <2>7, <2>11, <1>1 DEF Buffers
    <3>3. \A b \in bufs : BufferOK(b, m, K)
      <4> SUFFICES ASSUME NEW b \in bufs PROVE BufferOK(b, m, K)
        OBVIOUS
      <4>1. BufferOK(b, mng, held)
        BY <1>1 DEF Buffers
      <4>2. ASSUME Large(b.size) PROVE b \in K /\ m[b.at] = NoPage
        <5>1. b \in held /\ b.at \in AllChunks /\ mng[b.at] = NoPage
          BY <4>1, <4>2 DEF BufferOK
        <5>2. b.at # page
          <6>1. Aligned(b.at) /\ GoodSize(b.size)
            BY <5>1, <1>1, SizesGood DEF KInv, IsBlock
          <6>2. b.at \in ChunksOf(b)
            BY <6>1, SizeFacts, RunFacts DEF ChunksOf
          <6>3. b.at \in Owned
            BY <5>1, <6>2 DEF Owned, ChunksOf
          <6> QED BY <6>3, <2>7 DEF Avail
        <5> QED BY <5>1, <5>2, <2>7, <2>10
      <4>3. ASSUME ~Large(b.size)
            PROVE  PageOf(b.at) \in AllChunks /\ m[PageOf(b.at)] # NoPage /\ m[PageOf(b.at)].bl = b.size
        <5>1. PageOf(b.at) \in AllChunks /\ mng[PageOf(b.at)] # NoPage /\ mng[PageOf(b.at)].bl = b.size
          BY <4>1, <4>3 DEF BufferOK
        <5> QED BY <5>1, <2>8, <2>10
      <4> QED BY <4>1, <4>2, <4>3 DEF BufferOK
    <3>4. page \in PagesIn(m) /\ m[page].num_free # 0 /\ PageCore(page, m[page], OutOf(bufs, page))
      BY <2>9, <2>10, <2>11, <2>12
    <3> QED BY <3>1, <3>2, <3>3, <3>4, <2>8, <2>10, <2>19, SmallTaken
  <2>21. Buffers(mng', bufs', held')
    BY <2>4, <2>5, <2>9, <2>10, <2>17, <2>20
  <2> QED BY <2>7, <2>17, <2>19, <2>21, MdbInvPrime
<1> QED BY <1>2, <1>3

\* A buffer goes back where it came from.
LEMMA FreeLargeInv ==
  ASSUME MdbInv, NEW b \in bufs, Large(b.size), FreeBuffer(b)
  PROVE  MdbInv'
<1>1. KInv /\ Buffers(mng, bufs, held)
  BY DEF MdbInv
<1>2. bufs' = bufs \ {b} /\ FreeStep(b) /\ mng' = mng /\ list_of_lists' = list_of_lists
  BY DEF FreeBuffer
<1>3. b \in held
  BY <1>1 DEF Buffers, BufferOK
<1>4. KInv' /\ held' = held \ {b}
  BY <1>1, <1>2, <1>3, FreeInv
<1>5. PageOf(b.at) \notin PagesIn(mng)
  BY <1>1, LargeApart
<1>6. Buffers(mng, bufs \ {b}, held \ {b})
  BY <1>1, <1>5, LargeFreed
<1>7. Buffers(mng', bufs', held')
  BY <1>2, <1>4, <1>6
<1>8. list_of_lists' \in [Small -> AllChunks \cup {Null}] /\ \A s \in Small : PageList(mng', list_of_lists'[s], s)
  BY <1>2 DEF MdbInv
<1> QED BY <1>4, <1>7, <1>8, MdbInvPrime

\* The two assignments of Bridged, by name.
LEMMA BridgedIs ==
  ASSUME NEW m, NEW page, NEW h, h = list_of_lists[m[page].bl],
         NEW p, p = m[page].prev_freelist, NEW n, n = m[page].next_freelist
  PROVE  Bridged(m, page) = IF h # page /\ p # Null THEN RelinkNext(RelinkPrev(m, n, p), p, n)
                            ELSE RelinkPrev(m, n, p)
<1>1. CASE list_of_lists[m[page].bl] # page /\ m[page].prev_freelist # Null
  BY <1>1 DEF Bridged, RelinkPrev, RelinkNext
<1>2. CASE ~(list_of_lists[m[page].bl] # page /\ m[page].prev_freelist # Null)
  BY <1>2 DEF Bridged, RelinkPrev
<1> QED BY <1>1, <1>2

\* The structures with buffer b back on the list of its page.
GotBack(m, page, b) == m = [mng EXCEPT ![page].freelist = <<b.at>> \o @, ![page].num_free = @ + 1]

\* The structure of the page that gets a buffer back.
LEMMA PushedPage ==
  ASSUME MdbInv, NEW b \in bufs, ~Large(b.size), NEW page, page = PageOf(b.at),
         NEW m, GotBack(m, page, b)
  PROVE  /\ page \in PagesIn(mng) /\ page \in AllChunks /\ page \in Nat /\ page % PageSize = 0
         /\ PageBlock(page) \in held /\ mng[page].bl \in Small /\ mng[page].num_free \in Nat
         /\ ListIs(mng, m, page, <<b.at>> \o mng[page].freelist, mng[page].num_free + 1)
<1>1. KInv /\ Buffers(mng, bufs, held) /\ mng \in Mngs /\ BufferOK(b, mng, held)
  BY DEF MdbInv, Buffers
<1>2. page \in PagesIn(mng) /\ page \in AllChunks /\ b.at \in Nat
  BY <1>1 DEF BufferOK, PagesIn
<1>3. mng[page] \in Mng /\ mng[page].bl \in Small /\ mng[page].num_free \in Nat /\ mng[page].freelist \in Seq(Nat)
  BY <1>1, <1>2, NextPageType, MngNotNoPage DEF PagesIn
<1>4. PageBlock(page) \in held /\ page \in Nat /\ page % PageSize = 0
  <2>1. PageBlock(page) \in held
    BY <1>1, <1>2 DEF Buffers
  <2> QED BY <2>1, <1>1, PageApart
<1>5. PICK f \in Seq(Nat) : f = <<b.at>> \o mng[page].freelist
  <2>1. PICK a \in Nat : a = b.at
    BY <1>2
  <2>2. PICK g \in Seq(Nat) : g = mng[page].freelist
    BY <1>3
  <2>3. <<a>> \o g \in Seq(Nat)
    OBVIOUS
  <2> QED BY <2>1, <2>2, <2>3
<1>6. PICK k \in Nat : k = mng[page].num_free + 1
  BY <1>3
<1>7. m = WithList(mng, page, f, k)
  BY <1>1, <1>2, <1>5, <1>6 DEF WithList, Mngs, GotBack
<1>8. ListIs(mng, m, page, f, k)
  <2>1. ListIs(mng, WithList(mng, page, f, k), page, f, k)
    BY <1>1, <1>2, SetFree
  <2> QED BY <2>1, <1>7
<1> QED BY <1>2, <1>3, <1>4, <1>5, <1>6, <1>8

\* Changes of links leave the buffers as they are.
SameButLinks(m, n) ==
  \A c \in AllChunks : /\ m[c] = NoPage <=> n[c] = NoPage
                       /\ m[c] # NoPage => /\ n[c].freelist = m[c].freelist
                                           /\ n[c].num_free = m[c].num_free /\ n[c].bl = m[c].bl

\* What the step means for the buffers, whatever it does to the links.
LEMMA FreedBuffers ==
  ASSUME MdbInv, NEW b \in bufs, ~Large(b.size), NEW page, page = PageOf(b.at),
         NEW m, ListIs(mng, m, page, <<b.at>> \o mng[page].freelist, mng[page].num_free + 1),
         page \in PagesIn(mng), page \in Nat, page % PageSize = 0,
         NEW n \in Mngs, SameButLinks(m, n)
  PROVE  /\ m[page].num_free = max_free(mng[page].bl) =>
              Buffers([n EXCEPT ![page] = NoPage], bufs \ {b}, held \ {PageBlock(page)})
         /\ (m[page].num_free # max_free(mng[page].bl) \/ max_free(mng[page].bl) = 1) =>
              Buffers(n, bufs \ {b}, held)
<1>1. /\ KInv /\ Buffers(mng, bufs, held) /\ mng \in Mngs
      /\ \A d \in bufs : Large(d.size) => PageOf(d.at) \notin PagesIn(mng)
  BY LargeApart DEF MdbInv, Buffers
<1>2. /\ m \in Mngs /\ OnlyAt(mng, m, page) /\ PagesIn(m) = PagesIn(mng) /\ m[page].bl = mng[page].bl
      /\ m[page].freelist = <<b.at>> \o mng[page].freelist /\ m[page].num_free = mng[page].num_free + 1
  BY DEF ListIs
<1>3. page \in AllChunks /\ m[page] # NoPage
  BY <1>2 DEF PagesIn
<1>4. OthersKept(mng, n, page)
  BY <1>2 DEF OthersKept, SameButLinks, OnlyAt
<1>5. /\ n[page] # NoPage /\ n[page].bl = mng[page].bl /\ n[page].num_free = m[page].num_free
      /\ n[page].freelist = <<b.at>> \o mng[page].freelist
      /\ n[page].num_free = mng[page].num_free + 1
  BY <1>2, <1>3 DEF SameButLinks
<1>6. /\ n[page].num_free = max_free(n[page].bl) =>
           Buffers([n EXCEPT ![page] = NoPage], bufs \ {b}, held \ {PageBlock(page)})
      /\ (n[page].num_free # max_free(n[page].bl) \/ max_free(n[page].bl) = 1) =>
           Buffers(n, bufs \ {b}, held)
  BY <1>1, <1>4, <1>5, SmallFreed
<1> QED BY <1>5, <1>6

\* The page stays where it is.
LEMMA FreeKeepInv ==
  ASSUME MdbInv, NEW b \in bufs, ~Large(b.size), NEW page, page = PageOf(b.at),
         NEW m, GotBack(m, page, b),
         m[page].num_free # 1, m[page].num_free # max_free(mng[page].bl),
         mng' = m, UNCHANGED <<kmem, list_of_lists>>, bufs' = bufs \ {b}
  PROVE  MdbInv'
<1>1. /\ page \in PagesIn(mng) /\ page \in AllChunks /\ page \in Nat /\ page % PageSize = 0
      /\ mng[page].num_free \in Nat
      /\ ListIs(mng, m, page, <<b.at>> \o mng[page].freelist, mng[page].num_free + 1)
  BY PushedPage
<1>2. /\ m \in Mngs /\ OnlyAt(mng, m, page) /\ PagesIn(m) = PagesIn(mng) /\ m[page].bl = mng[page].bl
      /\ m[page].num_free = mng[page].num_free + 1
      /\ m[page].next_freelist = mng[page].next_freelist
      /\ m[page].prev_freelist = mng[page].prev_freelist
  BY <1>1 DEF ListIs
<1>3. SameButLinks(m, m)
  BY DEF SameButLinks
<1>4. Buffers(m, bufs \ {b}, held)
  BY <1>1, <1>2, <1>3, FreedBuffers
<1>5. Buffers(mng', bufs', held')
  BY <1>4 DEF kmem
<1>6. ASSUME NEW s \in Small PROVE PageList(m, list_of_lists[s], s)
  <2>1. PageList(mng, list_of_lists[s], s) /\ mng \in Mngs
    BY DEF MdbInv, Buffers
  <2>2. mng[page].num_free > 0 /\ m[page].num_free > 0
    BY <1>1, <1>2
  <2>3. WithFree(m, s) = WithFree(mng, s)
    BY <2>2, <1>2 DEF WithFree, OnlyAt, PagesIn
  <2>4. \A c \in WithFree(mng, s) : /\ m[c].next_freelist = mng[c].next_freelist
                                    /\ m[c].prev_freelist = mng[c].prev_freelist
    BY <1>2 DEF WithFree, OnlyAt, PagesIn
  <2> QED BY <2>1, <2>3, <2>4, <1>2, PageListSame
<1>7. KInv'
  BY DEF MdbInv, kmem, KInv, Avail, Owned, Sorted, Chain, Ranked, Follows
<1>8. list_of_lists' \in [Small -> AllChunks \cup {Null}] /\ \A s \in Small : PageList(mng', list_of_lists'[s], s)
  BY <1>6 DEF MdbInv
<1> QED BY <1>5, <1>7, <1>8, MdbInvPrime

\* The page was full, and goes to the front of the list.
LEMMA FreeRelistInv ==
  ASSUME MdbInv, NEW b \in bufs, ~Large(b.size), NEW page, page = PageOf(b.at),
         NEW m, GotBack(m, page, b),
         m[page].num_free = 1, Relisted(m, page, mng[page].bl), bufs' = bufs \ {b}
  PROVE  MdbInv'
<1>1. /\ page \in PagesIn(mng) /\ page \in AllChunks /\ page \in Nat /\ page % PageSize = 0
      /\ mng[page].num_free \in Nat /\ mng[page].bl \in Small
      /\ ListIs(mng, m, page, <<b.at>> \o mng[page].freelist, mng[page].num_free + 1)
  BY PushedPage
<1>2. /\ m \in Mngs /\ OnlyAt(mng, m, page) /\ PagesIn(m) = PagesIn(mng) /\ m[page].bl = mng[page].bl
      /\ m[page].num_free = mng[page].num_free + 1
  BY <1>1 DEF ListIs
<1>3. PICK s \in Small : s = mng[page].bl
  BY <1>1
<1>4. PICK h : h = list_of_lists[s]
  OBVIOUS
<1>5. /\ PageList(mng, h, s) /\ mng \in Mngs /\ list_of_lists \in [Small -> AllChunks \cup {Null}]
      /\ \A t \in Small : PageList(mng, list_of_lists[t], t)
  BY <1>4 DEF MdbInv, Buffers
<1>6. mng[page].num_free = 0 /\ page \notin WithFree(mng, s)
  <2>1. mng[page].num_free = 0
    BY <1>1, <1>2
  <2> QED BY <2>1 DEF WithFree
<1>7. h \in AllChunks \cup {Null} /\ (h # Null => h \in WithFree(mng, s) /\ h \in PagesIn(mng) /\ h # page)
  BY <1>4, <1>5, <1>6, PageListFacts DEF WithFree
<1>8. page # Null /\ h # page
  BY <1>1, <1>7, ChunksFacts
<1>9. PICK x : x = RelinkNext(m, page, h)
  OBVIOUS
<1>10. NextIs(m, x, page, h)
  <2>1. page \in PagesIn(m) \cup {Null}
    BY <1>1, <1>2
  <2> QED BY <2>1, <1>2, <1>7, <1>9, SetNext
<1>11. PICK l : l = RelinkPrev(x, page, Null)
  OBVIOUS
<1>12. PrevIs(x, l, page, Null)
  <2>1. page \in PagesIn(x) \cup {Null} /\ Null \in AllChunks \cup {Null} /\ x \in Mngs
    BY <1>1, <1>2, <1>10 DEF NextIs
  <2> QED BY <2>1, <1>11, SetPrev
<1>13. l = [m EXCEPT ![page].next_freelist = h, ![page].prev_freelist = Null]
  BY <1>1, <1>2, <1>8, <1>9, <1>11 DEF RelinkNext, RelinkPrev, Mngs
<1>14. PICK n : n = RelinkPrev(l, h, page)
  OBVIOUS
<1>15. PrevIs(l, n, h, page)
  <2>1. h \in PagesIn(l) \cup {Null} /\ page \in AllChunks \cup {Null} /\ l \in Mngs
    BY <1>1, <1>2, <1>7, <1>10, <1>12 DEF NextIs, PrevIs
  <2> QED BY <2>1, <1>14, SetPrev
<1>16. mng' = n /\ list_of_lists' = [list_of_lists EXCEPT ![s] = page] /\ UNCHANGED kmem
  BY <1>3, <1>4, <1>13, <1>14 DEF Relisted, RelinkPrev
<1>17. n \in Mngs /\ PagesIn(n) = PagesIn(m)
  BY <1>10, <1>12, <1>15 DEF NextIs, PrevIs
<1>18. ASSUME NEW c \in AllChunks PROVE SameBuffers(n[c], m[c])
  <2>1. SameBuffers(x[c], m[c]) /\ SameBuffers(l[c], x[c]) /\ SameBuffers(n[c], l[c])
    BY <1>10, <1>12, <1>15 DEF NextIs, PrevIs
  <2> QED BY <2>1 DEF SameBuffers
<1>19. n[page].next_freelist = h /\ n[page].prev_freelist = Null
  <2>1. x[page].next_freelist = h
    BY <1>1, <1>10 DEF NextIs
  <2>2. l[page].next_freelist = h /\ l[page].prev_freelist = Null
    BY <2>1, <1>1, <1>12 DEF PrevIs
  <2> QED BY <2>2, <1>1, <1>8, <1>15 DEF PrevIs
<1>20. ASSUME NEW c \in AllChunks, c # page
       PROVE  /\ n[c].next_freelist = mng[c].next_freelist
              /\ n[c].prev_freelist = IF c = h THEN page ELSE mng[c].prev_freelist
              /\ n[c] = mng[c] \/ c = h
              /\ m[c] = mng[c]
  <2>1. m[c] = mng[c] /\ x[c] = m[c] /\ l[c] = x[c]
    BY <1>2, <1>10, <1>12, <1>20 DEF NextIs, PrevIs, OnlyAt
  <2>2. /\ n[c].next_freelist = l[c].next_freelist
        /\ n[c].prev_freelist = IF c = h THEN page ELSE l[c].prev_freelist
    BY <1>15 DEF PrevIs
  <2>3. n[c] = l[c] \/ c = h
    BY <1>15 DEF PrevIs, OnlyAt
  <2> QED BY <2>1, <2>2, <2>3
<1>21. SameButLinks(m, n)
  BY <1>17, <1>18 DEF SameButLinks, SameBuffers, PagesIn
<1>22. Buffers(n, bufs \ {b}, held)
  <2>1. PICK k : k = max_free(mng[page].bl)
    OBVIOUS
  <2>2. /\ m[page].num_free = k =>
             Buffers([n EXCEPT ![page] = NoPage], bufs \ {b}, held \ {PageBlock(page)})
        /\ (m[page].num_free # k \/ k = 1) => Buffers(n, bufs \ {b}, held)
    BY <2>1, <1>1, <1>17, <1>21, FreedBuffers
  <2> QED BY <2>2
<1>23. PageList(n, page, s)
  <2>1. WithFree(n, s) = WithFree(mng, s) \cup {page}
    <3>1. n[page].num_free = 1 /\ n[page].bl = s /\ page \in PagesIn(n)
      BY <1>1, <1>2, <1>3, <1>17, <1>18 DEF SameBuffers
    <3>2. page \in WithFree(n, s)
      BY <3>1 DEF WithFree
    <3>3. ASSUME NEW c \in AllChunks, c # page
          PROVE  c \in WithFree(n, s) <=> c \in WithFree(mng, s)
      <4>1. n[c].num_free = mng[c].num_free /\ n[c].bl = mng[c].bl /\ (c \in PagesIn(n) <=> c \in PagesIn(mng))
        BY <3>3, <1>2, <1>17, <1>18, <1>20 DEF SameBuffers
      <4> QED BY <4>1 DEF WithFree
    <3>4. WithFree(n, s) \subseteq AllChunks /\ WithFree(mng, s) \subseteq AllChunks
      BY DEF WithFree, PagesIn
    <3> QED BY <3>2, <3>3, <3>4
  <2>2. \A c \in WithFree(mng, s) : /\ n[c].next_freelist = mng[c].next_freelist
                                    /\ n[c].prev_freelist = IF c = h THEN page ELSE mng[c].prev_freelist
    <3> SUFFICES ASSUME NEW c \in WithFree(mng, s)
                 PROVE  /\ n[c].next_freelist = mng[c].next_freelist
                        /\ n[c].prev_freelist = IF c = h THEN page ELSE mng[c].prev_freelist
      OBVIOUS
    <3>1. c \in AllChunks /\ c # page
      BY <1>6 DEF WithFree, PagesIn
    <3> QED BY <3>1, <1>20
  <2>3. page \in AllChunks \ WithFree(mng, s)
    BY <1>1, <1>6
  <2> QED BY <2>1, <2>2, <2>3, <1>5, <1>17, <1>19, PageListPush
<1>24. ASSUME NEW t \in Small, t # s PROVE PageList(n, list_of_lists[t], t)
  <2>1. \A c \in AllChunks : n[c] = mng[c] \/ (/\ mng[c] # NoPage => mng[c].bl = s
                                               /\ n[c] # NoPage => n[c].bl = s)
    <3> SUFFICES ASSUME NEW c \in AllChunks, n[c] # mng[c] PROVE mng[c].bl = s /\ n[c].bl = s
      OBVIOUS
    <3>1. n[c].bl = m[c].bl
      BY <1>18 DEF SameBuffers
    <3>2. CASE c = page
      BY <3>1, <3>2, <1>2, <1>3
    <3>3. CASE c # page
      <4>1. c = h /\ m[c] = mng[c] /\ h # Null
        BY <3>3, <1>20, ChunksFacts
      <4>2. mng[c].bl = s
        BY <4>1, <1>7 DEF WithFree
      <4> QED BY <3>1, <4>1, <4>2
    <3> QED BY <3>2, <3>3
  <2> QED BY <2>1, <1>5, <1>17, <1>24, OtherLists
<1>25. list_of_lists' \in [Small -> AllChunks \cup {Null}] /\ \A t \in Small : PageList(mng', list_of_lists'[t], t)
  <2>1. /\ list_of_lists' \in [Small -> AllChunks \cup {Null}] /\ list_of_lists'[s] = page
        /\ \A t \in Small : t # s => list_of_lists'[t] = list_of_lists[t]
    BY <1>1, <1>5, <1>16
  <2> QED BY <2>1, <1>16, <1>23, <1>24
<1>26. KInv' /\ held' = held
  BY <1>16 DEF MdbInv, kmem, KInv, Avail, Owned, Sorted, Chain, Ranked, Follows
<1>27. Buffers(mng', bufs', held')
  BY <1>16, <1>22, <1>26
<1> QED BY <1>25, <1>26, <1>27, MdbInvPrime

\* The page has all its buffers again, and goes back to kmem_t.
LEMMA FreeReturnInv ==
  ASSUME MdbInv, NEW b \in bufs, ~Large(b.size), NEW page, page = PageOf(b.at),
         NEW m, GotBack(m, page, b),
         m[page].num_free # 1, m[page].num_free = max_free(mng[page].bl),
         Returned(m, page, mng[page].bl), bufs' = bufs \ {b}
  PROVE  MdbInv'
<1>1. /\ page \in PagesIn(mng) /\ page \in AllChunks /\ page \in Nat /\ page % PageSize = 0
      /\ mng[page].num_free \in Nat /\ mng[page].bl \in Small /\ PageBlock(page) \in held
      /\ ListIs(mng, m, page, <<b.at>> \o mng[page].freelist, mng[page].num_free + 1)
  BY PushedPage
<1>2. /\ m \in Mngs /\ OnlyAt(mng, m, page) /\ PagesIn(m) = PagesIn(mng) /\ m[page].bl = mng[page].bl
      /\ m[page].num_free = mng[page].num_free + 1
      /\ m[page].next_freelist = mng[page].next_freelist
      /\ m[page].prev_freelist = mng[page].prev_freelist
  BY <1>1 DEF ListIs
<1>3. PICK s \in Small : s = mng[page].bl
  BY <1>1
<1>4. PICK h : h = list_of_lists[s]
  OBVIOUS
<1>5. /\ PageList(mng, h, s) /\ mng \in Mngs /\ list_of_lists \in [Small -> AllChunks \cup {Null}]
      /\ \A t \in Small : PageList(mng, list_of_lists[t], t)
  BY <1>4 DEF MdbInv, Buffers
<1>6. page \in WithFree(mng, s)
  <2>1. mng[page].num_free > 0
    BY <1>1, <1>2
  <2> QED BY <2>1, <1>1, <1>3 DEF WithFree
<1>7. PICK p : p = mng[page].prev_freelist
  OBVIOUS
<1>8. PICK n : n = mng[page].next_freelist
  OBVIOUS
<1>9. /\ n \in AllChunks \cup {Null} /\ p \in AllChunks \cup {Null}
      /\ n # Null => n \in WithFree(mng, s) /\ n # page
      /\ h # page => p \in WithFree(mng, s) /\ p # page /\ p # Null
      /\ h = page => p = Null
  <2>1. n \in AllChunks \cup {Null} /\ p \in AllChunks \cup {Null}
    BY <1>1, <1>5, <1>7, <1>8, NextPageType, MngNotNoPage DEF PagesIn
  <2>2. n # Null => n \in WithFree(mng, s)
    BY <1>5, <1>6, <1>8, PageListFacts
  <2>3. n # page
    BY <1>5, <1>6, <1>8, PageListFacts
  <2>4. h # page => p \in WithFree(mng, s) /\ mng[p].next_freelist = page
    BY <1>5, <1>6, <1>7 DEF PageList, Backward
  <2>5. h # page => p # page
    BY <2>3, <2>4, <1>8
  <2>6. h = page => p = Null
    BY <1>5, <1>6, <1>7 DEF PageList, Backward
  <2>7. Null \notin WithFree(mng, s)
    BY ChunksFacts DEF WithFree, PagesIn
  <2> QED BY <2>1, <2>2, <2>3, <2>4, <2>5, <2>6, <2>7
<1>10. PICK l : l = RelinkPrev(m, n, p)
  OBVIOUS
<1>11. PrevIs(m, l, n, p)
  <2>1. n \in PagesIn(m) \cup {Null}
    BY <1>2, <1>9 DEF WithFree
  <2> QED BY <2>1, <1>2, <1>9, <1>10, SetPrev
<1>12. PICK w : w = RelinkNext(l, p, n)
  OBVIOUS
<1>13. NextIs(l, w, p, n)
  <2>1. p \in PagesIn(l) \cup {Null} /\ l \in Mngs
    BY <1>2, <1>9, <1>11 DEF WithFree, PrevIs
  <2> QED BY <2>1, <1>9, <1>12, SetNext
<1>14. Bridged(m, page) = w
  <2>1. list_of_lists[m[page].bl] = h
    BY <1>2, <1>3, <1>4
  <2>2. m[page].prev_freelist = p /\ m[page].next_freelist = n
    BY <1>2, <1>7, <1>8
  <2>3. Bridged(m, page) = IF h # page /\ p # Null THEN RelinkNext(RelinkPrev(m, n, p), p, n)
                           ELSE RelinkPrev(m, n, p)
    BY <2>1, <2>2, BridgedIs
  <2>4. RelinkPrev(m, n, p) = l /\ (p = Null => RelinkNext(l, p, n) = l)
    BY <1>10 DEF RelinkNext
  <2>5. h # page /\ p # Null <=> p # Null
    BY <1>9
  <2> QED BY <2>3, <2>4, <2>5, <1>12
<1>15. w \in Mngs /\ PagesIn(w) = PagesIn(m)
  BY <1>11, <1>13 DEF NextIs, PrevIs
<1>16. ASSUME NEW c \in AllChunks
       PROVE  /\ SameBuffers(w[c], m[c])
              /\ w[c].next_freelist = IF c = p THEN n ELSE m[c].next_freelist
              /\ w[c].prev_freelist = IF c = n THEN p ELSE m[c].prev_freelist
              /\ w[c] = m[c] \/ c = n \/ c = p
  <2>1. /\ SameBuffers(w[c], l[c]) /\ w[c].prev_freelist = l[c].prev_freelist
        /\ w[c].next_freelist = IF c = p THEN n ELSE l[c].next_freelist
    BY <1>13 DEF NextIs
  <2>2. /\ SameBuffers(l[c], m[c]) /\ l[c].next_freelist = m[c].next_freelist
        /\ l[c].prev_freelist = IF c = n THEN p ELSE m[c].prev_freelist
    BY <1>11 DEF PrevIs
  <2>3. (l[c] = m[c] \/ c = n) /\ (w[c] = l[c] \/ c = p)
    BY <1>11, <1>13 DEF NextIs, PrevIs, OnlyAt
  <2>4. SameBuffers(w[c], m[c])
    BY <2>1, <2>2 DEF SameBuffers
  <2> QED BY <2>1, <2>2, <2>3, <2>4
<1>17. PICK z : z = [w EXCEPT ![page] = NoPage]
  OBVIOUS
<1>18. /\ z \in Mngs /\ z[page] = NoPage /\ \A c \in AllChunks : c # page => z[c] = w[c]
  BY <1>1, <1>15, <1>17 DEF Mngs
<1>19. /\ mng' = z /\ FreeStep(PageBlock(page))
       /\ list_of_lists' = [list_of_lists EXCEPT ![s] = IF h = page THEN n ELSE h]
  <2>1. list_of_lists' = IF h = page THEN [list_of_lists EXCEPT ![s] = n] ELSE list_of_lists
    BY <1>2, <1>3, <1>4, <1>8 DEF Returned
  <2>2. list_of_lists = [list_of_lists EXCEPT ![s] = h]
    BY <1>4, <1>5
  <2> QED BY <2>1, <2>2, <1>14, <1>17 DEF Returned, PageBlock
<1>20. SameButLinks(m, w)
  <2>1. \A c \in AllChunks : w[c] = NoPage <=> m[c] = NoPage
    BY <1>15 DEF PagesIn
  <2>2. \A c \in AllChunks : SameBuffers(w[c], m[c])
    BY <1>16
  <2> QED BY <2>1, <2>2 DEF SameButLinks, SameBuffers
<1>21. Buffers(z, bufs \ {b}, held \ {PageBlock(page)})
  <2>1. PICK k : k = max_free(mng[page].bl)
    OBVIOUS
  <2>2. /\ m[page].num_free = k =>
             Buffers([w EXCEPT ![page] = NoPage], bufs \ {b}, held \ {PageBlock(page)})
        /\ (m[page].num_free # k \/ k = 1) => Buffers(w, bufs \ {b}, held)
    BY <2>1, <1>1, <1>15, <1>20, FreedBuffers
  <2> QED BY <2>1, <2>2, <1>17
<1>22. KInv' /\ held' = held \ {PageBlock(page)}
  BY <1>1, <1>19, FreeInv DEF MdbInv
<1>23. ASSUME NEW c \in AllChunks, c # page
       PROVE  /\ SameBuffers(z[c], mng[c])
              /\ c \in PagesIn(z) <=> c \in PagesIn(mng)
              /\ z[c].next_freelist = IF c = p THEN n ELSE mng[c].next_freelist
              /\ z[c].prev_freelist = IF c = n THEN p ELSE mng[c].prev_freelist
              /\ z[c] = mng[c] \/ c = n \/ c = p
  <2>1. z[c] = w[c] /\ m[c] = mng[c]
    BY <1>2, <1>18, <1>23 DEF OnlyAt
  <2>2. c \in PagesIn(z) <=> c \in PagesIn(mng)
    BY <2>1, <1>2, <1>15 DEF PagesIn
  <2> QED BY <2>1, <2>2, <1>16
<1>24. PageList(z, IF h = page THEN n ELSE h, s)
  <2>1. WithFree(z, s) = WithFree(mng, s) \ {page}
    <3>1. ASSUME NEW c \in AllChunks, c # page
          PROVE  c \in WithFree(z, s) <=> c \in WithFree(mng, s)
      BY <3>1, <1>23 DEF WithFree, SameBuffers
    <3>2. page \notin WithFree(z, s)
      BY <1>18 DEF WithFree, PagesIn
    <3>3. WithFree(z, s) \subseteq AllChunks /\ WithFree(mng, s) \subseteq AllChunks
      BY DEF WithFree, PagesIn
    <3> QED BY <3>1, <3>2, <3>3
  <2>2. ASSUME NEW c \in WithFree(z, s)
        PROVE  /\ z[c].next_freelist = IF page # h /\ c = mng[page].prev_freelist THEN mng[page].next_freelist
                                       ELSE mng[c].next_freelist
               /\ z[c].prev_freelist = IF c = mng[page].next_freelist THEN mng[page].prev_freelist
                                       ELSE mng[c].prev_freelist
    <3>1. c \in AllChunks /\ c # page /\ c # Null
      BY <1>18, ChunksFacts DEF WithFree, PagesIn
    <3>2. c = p => page # h
      BY <3>1, <1>9
    <3> QED BY <3>1, <3>2, <1>7, <1>8, <1>23
  <2>3. PageList(z, IF h = page THEN mng[page].next_freelist ELSE h, s)
    BY <2>1, <2>2, <1>5, <1>6, <1>18, PageListRemove
  <2> QED BY <2>3, <1>8
<1>25. ASSUME NEW t \in Small, t # s PROVE PageList(z, list_of_lists[t], t)
  <2>1. \A c \in AllChunks : z[c] = mng[c] \/ (/\ mng[c] # NoPage => mng[c].bl = s
                                               /\ z[c] # NoPage => z[c].bl = s)
    <3> SUFFICES ASSUME NEW c \in AllChunks, z[c] # mng[c]
                 PROVE  mng[c].bl = s /\ (z[c] # NoPage => z[c].bl = s)
      OBVIOUS
    <3>1. CASE c = page
      BY <3>1, <1>3, <1>18
    <3>2. CASE c # page
      <4>1. (c = n \/ c = p) /\ c # Null
        BY <3>2, <1>23, ChunksFacts
      <4>2. c \in WithFree(mng, s)
        BY <4>1, <1>9
      <4>3. mng[c].bl = s
        BY <4>2 DEF WithFree
      <4> QED BY <3>2, <4>3, <1>23 DEF SameBuffers
    <3> QED BY <3>1, <3>2
  <2> QED BY <2>1, <1>5, <1>18, <1>25, OtherLists
<1>26. list_of_lists' \in [Small -> AllChunks \cup {Null}] /\ \A t \in Small : PageList(mng', list_of_lists'[t], t)
  <2>1. PICK g \in AllChunks \cup {Null} : g = IF h = page THEN n ELSE h
    BY <1>4, <1>5, <1>9
  <2>2. /\ list_of_lists' \in [Small -> AllChunks \cup {Null}] /\ list_of_lists'[s] = g
        /\ \A t \in Small : t # s => list_of_lists'[t] = list_of_lists[t]
    BY <2>1, <1>5, <1>19
  <2> QED BY <2>1, <2>2, <1>19, <1>24, <1>25
<1>27. Buffers(mng', bufs', held')
  BY <1>19, <1>21, <1>22
<1> QED BY <1>22, <1>26, <1>27, MdbInvPrime

\* mdb_free_buffer keeps the invariant.
LEMMA FreeBufferInv ==
  ASSUME MdbInv, NEW b \in bufs, FreeBuffer(b)
  PROVE  MdbInv'
<1>1. CASE Large(b.size)
  BY <1>1, FreeLargeInv
<1>2. CASE ~Large(b.size)
  <2>1. PICK page : page = PageOf(b.at)
    OBVIOUS
  <2>2. PICK m : GotBack(m, page, b)
    BY DEF GotBack
  <2>3. bufs' = bufs \ {b} /\ PageStep(m, page, mng[page].bl)
    BY <1>2, <2>1, <2>2 DEF FreeBuffer, GotBack
  <2>4. CASE m[page].num_free = 1
    <3>1. Relisted(m, page, mng[page].bl)
      BY <2>3, <2>4 DEF PageStep
    <3> QED BY <3>1, <1>2, <2>1, <2>2, <2>3, <2>4, FreeRelistInv
  <2>5. CASE m[page].num_free # 1 /\ m[page].num_free = max_free(mng[page].bl)
    <3>1. Returned(m, page, mng[page].bl)
      BY <2>3, <2>5 DEF PageStep
    <3> QED BY <3>1, <1>2, <2>1, <2>2, <2>3, <2>5, FreeReturnInv
  <2>6. CASE m[page].num_free # 1 /\ m[page].num_free # max_free(mng[page].bl)
    <3>1. mng' = m /\ UNCHANGED <<kmem, list_of_lists>>
      BY <2>3, <2>6 DEF PageStep
    <3> QED BY <3>1, <1>2, <2>1, <2>2, <2>3, <2>6, FreeKeepInv
  <2> QED BY <2>4, <2>5, <2>6
<1> QED BY <1>1, <1>2

\* The rest of the kernel gives back neither pages nor buffers.
LEMMA OthersInv ==
  ASSUME MdbInv, KInv', UNCHANGED <<mng, list_of_lists, bufs>>,
         \A b \in held : b \in held' \/ b \in others
  PROVE  MdbInv'
<1>1. Buffers(mng, bufs, held)
  BY DEF MdbInv
<1>2. PICK K : K = held'
  OBVIOUS
<1>3. (\A p \in PagesIn(mng) : PageBlock(p) \in held) /\ (\A d \in bufs : Large(d.size) => d \in held)
  BY <1>1 DEF Buffers, BufferOK
<1>4. \A b \in others : b \notin bufs /\ \A p \in PagesIn(mng) : b # PageBlock(p)
  <2>1. \A p : PageBlock(p).at = p /\ PageBlock(p).size = PageSize
    BY DEF PageBlock
  <2> QED BY <2>1 DEF others, Pages, PagesIn
<1>5. (\A p \in PagesIn(mng) : PageBlock(p) \in K) /\ (\A d \in bufs : Large(d.size) => d \in K)
  BY <1>2, <1>3, <1>4
<1>6. Buffers(mng, bufs, K)
  BY <1>1, <1>5, BuffersHeld
<1>7. Buffers(mng', bufs', held')
  BY <1>2, <1>6
<1>8. list_of_lists' \in [Small -> AllChunks \cup {Null}] /\ \A s \in Small : PageList(mng', list_of_lists'[s], s)
  BY DEF MdbInv
<1> QED BY <1>7, <1>8, MdbInvPrime

\* Before the first buffer there are no pages.
LEMMA MdbInitInv == Init => MdbInv
<1> SUFFICES ASSUME Init PROVE MdbInv
  OBVIOUS
<1>1. KInv /\ mng = [c \in AllChunks |-> NoPage] /\ list_of_lists = [s \in Small |-> Null] /\ bufs = {}
  BY KInitInv DEF Init
<1>2. mng \in Mngs /\ PagesIn(mng) = {} /\ \A s : WithFree(mng, s) = {}
  BY <1>1 DEF Mngs, PagesIn, WithFree
<1>3. Buffers(mng, bufs, held)
  BY <1>1, <1>2 DEF Buffers
<1>4. ASSUME NEW s \in Small PROVE PageList(mng, list_of_lists[s], s)
  <2>1. PICK w : w = NextPage(mng)
    OBVIOUS
  <2>2. w \in Words0
    BY <2>1, <1>2, NextPageType
  <2>3. PICK o : o = [c \in AllChunks |-> 0] /\ o \in [AllChunks -> Int]
    <3>1. [c \in AllChunks |-> 0] \in [AllChunks -> Int]
      OBVIOUS
    <3> QED BY <3>1
  <2>4. Chain({}, o, 0, Null, w)
    BY <2>2, <2>3 DEF Chain, Ranked, Follows
  <2>5. Backward(mng, Null, s)
    BY <1>2 DEF Backward
  <2>6. list_of_lists[s] = Null
    BY <1>1
  <2> QED BY <2>1, <2>4, <2>5, <2>6, <1>2 DEF PageList
<1> QED BY <1>1, <1>3, <1>4 DEF MdbInv

\* Every step keeps the invariant.
LEMMA MdbStepInv == MdbInv /\ [Next]_vars => MdbInv'
<1> SUFFICES ASSUME MdbInv, [Next]_vars PROVE MdbInv'
  OBVIOUS
<1>0. KInv
  BY DEF MdbInv
<1>1. ASSUME NEW s \in MdbSizes, AllocBuffer(s) PROVE MdbInv'
  BY <1>1, AllocLargeInv, AllocSmallInv
<1>2. ASSUME NEW b \in bufs, FreeBuffer(b) PROVE MdbInv'
  BY <1>2, FreeBufferInv
<1>3. ASSUME NEW s \in OtherSizes, NEW c, CanAlloc(s, c), AllocStep(s, c),
             UNCHANGED <<mng, list_of_lists, bufs>>
      PROVE  MdbInv'
  <2>1. s \in Sizes
    BY DEF Sizes
  <2>2. KInv' /\ held \subseteq held'
    BY <2>1, <1>0, <1>3, AllocInv
  <2> QED BY <2>2, <1>3, OthersInv
<1>4. ASSUME NEW b \in others, Free(b) PROVE MdbInv'
  <2>1. b \in held /\ FreeStep(b) /\ UNCHANGED <<mng, list_of_lists, bufs>>
    BY <1>4 DEF others, Free
  <2>2. KInv' /\ held' = held \ {b}
    BY <2>1, <1>0, FreeInv
  <2> QED BY <2>1, <2>2, OthersInv
<1>5. ASSUME NEW r \in Added, Add(r) PROVE MdbInv'
  <2>1. AddStep(r) /\ UNCHANGED <<mng, list_of_lists, bufs>>
    BY <1>5 DEF Add
  <2>2. KInv' /\ held' = held
    BY <2>1, <1>0, AddInv
  <2> QED BY <2>1, <2>2, OthersInv
<1>6. ASSUME UNCHANGED vars PROVE MdbInv'
  <2>1. KInv' /\ held' = held /\ UNCHANGED <<mng, list_of_lists, bufs>>
    BY <1>6, <1>0 DEF vars, kmem, KInv, Avail, Owned, Sorted, Chain, Ranked, Follows
  <2> QED BY <2>1, OthersInv
<1>7. ASSUME Next PROVE MdbInv'
  BY <1>1, <1>2, <1>3, <1>4, <1>5, <1>7 DEF Next, Alloc, AllocAligned
<1> QED BY <1>6, <1>7

\* The invariant holds in every state.
THEOREM MdbInvariant == Spec => []MdbInv
BY MdbInitInv, MdbStepInv, PTL DEF Spec

\* The variables of both allocators keep their types.
THEOREM AllocatorTypes == Spec => []TypeOK
<1>1. MdbInv => TypeOK
  <2> SUFFICES ASSUME MdbInv PROVE TypeOK
    OBVIOUS
  <2>1. KInv /\ Buffers(mng, bufs, held) /\ list_of_lists \in [Small -> AllChunks \cup {Null}]
    BY DEF MdbInv
  <2>2. Chain(Avail, Addr, -1, kmem_free_list, word) /\ memory \in SUBSET AllChunks /\ free_chunks = Cardinality(Avail)
    BY <2>1 DEF KInv, Sorted
  <2>3. kmem_free_list \in AllChunks \cup {Null} /\ word \in [AllChunks -> AllChunks \cup {Null}]
    BY <2>2 DEF Chain, Words0
  <2>4. free_chunks \in 0 .. Cardinality(AllChunks)
    <3>1. Ranked(Avail, Addr, -1)
      BY <2>2 DEF Chain
    <3> QED BY <3>1, <2>2, BelowCount, ChunksFacts
  <2>5. (\A b \in held : b.size \in Sizes) /\ (\A b \in bufs : b.size \in MdbSizes)
    BY <2>1 DEF KInv, IsBlock, Buffers, BufferOK
  <2>6. \A c \in Pages : mng[c].bl \in Small
    BY <2>1, NextPageType, MngNotNoPage DEF Pages, Buffers
  <2> QED BY <2>1, <2>2, <2>3, <2>4, <2>5, <2>6 DEF TypeOK
<1> QED BY <1>1, MdbInvariant, PTL

(***************************************************************************)
(* The free list of kmem_t is sorted, has free_chunks chunks, and they are  *)
(* those that are not held, whatever regions and sizes there are.           *)
(***************************************************************************)
THEOREM FreeListStaysSorted == Spec => []FreeListSorted
<1>1. MdbInv => FreeListSorted
  BY InvSorted DEF MdbInv
<1> QED BY <1>1, MdbInvariant, PTL

(***************************************************************************)
(* alloc() reports "out of kernel memory" only if every aligned free block  *)
(* of the size contains the last free chunk.                                *)
(***************************************************************************)
THEOREM FailsAtTheTailOnly == Spec => []OutOfMemory
<1>1. MdbInv => OutOfMemory
  BY InvOutOfMemory DEF MdbInv
<1> QED BY <1>1, MdbInvariant, PTL
-----------------------------------------------------------------------------
(* kmem_t implements the pool of MemPool *)

\* The free list has what is not held.
LEMMA ListIsAvail == KInv => List = Avail
BY ListFacts DEF KInv

\* The chunks of the blocks that callers hold.
Blocks(H) == {Chunks(b.at, b.size) : b \in H}

\* A step of kmem_t is one of the pool, or changes nothing of it.
LEMMA PoolAlloc ==
  ASSUME KInv, KInv', NEW size \in Sizes, NEW colour, CanAlloc(size, colour), AllocStep(size, colour)
  PROVE  Pool!Next
<1>1. PICK at : at = AllocAt(size, colour)
  OBVIOUS
<1>2. PICK b : b = [at |-> at, size |-> size]
  OBVIOUS
<1>3. /\ held' = held \cup {b} /\ at \in Avail /\ IsBlock(b) /\ Chunks(at, size) \subseteq Avail
      /\ Avail' = Avail \ Chunks(at, size) /\ memory' = memory
  BY <1>1, <1>2, AllocInv
<1>4. List = Avail /\ List' = Avail'
  <2>1. KInv' => (List = Avail)'
    BY ListIsAvail, PTL
  <2> QED BY <2>1, ListIsAvail
<1>5. GoodSize(size)
  BY SizesGood
<1>6. PICK r : r = Rounded(size)
  OBVIOUS
<1>7. Pool!Chunks(at, r) = Chunks(at, size)
  BY <1>6 DEF Pool!Chunks, Chunks
<1>8. at % r = 0
  BY <1>2, <1>3, <1>6 DEF IsBlock
<1>9. Blocks(held)' = Blocks(held) \cup {Chunks(at, size)}
  BY <1>2, <1>3 DEF Blocks
<1>10. Pool!Alloc(at, r)
  BY <1>3, <1>4, <1>7, <1>8, <1>9 DEF Pool!Alloc, Blocks
<1>11. r \in {Rounded(s) : s \in Sizes} /\ at \in List
  BY <1>3, <1>4, <1>6
<1> QED BY <1>10, <1>11 DEF Pool!Next

\* The same for free().
LEMMA PoolFree ==
  ASSUME KInv, KInv', NEW b \in held, FreeStep(b)
  PROVE  Pool!Next
<1>1. held' = held \ {b} /\ memory' = memory /\ Avail' = Avail \cup ChunksOf(b)
  BY FreeInv
<1>2. List = Avail /\ List' = Avail'
  <2>1. KInv' => (List = Avail)'
    BY ListIsAvail, PTL
  <2> QED BY <2>1, ListIsAvail
<1>3. PICK C : C = Chunks(b.at, b.size)
  OBVIOUS
<1>4. ASSUME NEW d \in held, d # b PROVE Chunks(d.at, d.size) # C
  <2>1. Chunks(d.at, d.size) \cap C = {}
    BY <1>3, <1>4 DEF KInv, ChunksOf
  <2>2. b.at \in C
    <3>1. Aligned(b.at) /\ GoodSize(b.size)
      BY SizesGood DEF KInv, IsBlock
    <3> QED BY <3>1, <1>3, SizeFacts, RunFacts
  <2> QED BY <2>1, <2>2
<1>5. Blocks(held)' = Blocks(held) \ {C} /\ C \in Blocks(held)
  BY <1>1, <1>3, <1>4 DEF Blocks
<1>6. Pool!Free(C)
  BY <1>1, <1>2, <1>3, <1>5 DEF Pool!Free, Blocks, ChunksOf
<1> QED BY <1>5, <1>6 DEF Pool!Next, Blocks

\* The same for add().
LEMMA PoolAdd ==
  ASSUME KInv, KInv', NEW r \in Added, AddStep(r)
  PROVE  Pool!Next
<1>1. held' = held /\ memory' = memory \cup r /\ r \cap memory = {} /\ Avail' = Avail \cup r
  BY AddInv
<1>2. List = Avail /\ List' = Avail'
  <2>1. KInv' => (List = Avail)'
    BY ListIsAvail, PTL
  <2> QED BY <2>1, ListIsAvail
<1>3. Blocks(held)' = Blocks(held)
  BY <1>1 DEF Blocks
<1>4. Pool!Add(r)
  BY <1>1, <1>2, <1>3 DEF Pool!Add, Blocks
<1> QED BY <1>4 DEF Pool!Next

\* Nothing of the pool changes when kmem_t does not.
LEMMA PoolSame ==
  ASSUME UNCHANGED kmem
  PROVE  UNCHANGED Pool!vars
BY DEF kmem, Pool!vars, List, Pos, After, Places

\* What the step of a buffer means to kmem_t.
LEMMA KmemStep ==
  ASSUME MdbInv, [Next]_vars
  PROVE  \/ UNCHANGED kmem
         \/ \E size \in Sizes, colour \in Colours \cup {Any} : CanAlloc(size, colour) /\ AllocStep(size, colour)
         \/ \E b \in held : FreeStep(b)
         \/ \E r \in Added : AddStep(r)
<1>1. ASSUME NEW s \in MdbSizes, AllocBuffer(s), Large(s)
      PROVE  s \in Sizes /\ CanAlloc(s, Any) /\ AllocStep(s, Any)
  BY <1>1 DEF AllocBuffer, Sizes
<1>2. ASSUME NEW s \in MdbSizes, AllocBuffer(s), ~Large(s)
      PROVE  UNCHANGED kmem \/ (PageSize \in Sizes /\ CanAlloc(PageSize, Any) /\ AllocStep(PageSize, Any))
  BY <1>2 DEF AllocBuffer, Sizes
<1>3. ASSUME NEW b \in bufs, FreeBuffer(b) PROVE UNCHANGED kmem \/ \E d \in held : FreeStep(d)
  <2>1. CASE Large(b.size)
    BY <1>3, <2>1 DEF FreeBuffer, MdbInv, Buffers, BufferOK
  <2>2. CASE ~Large(b.size)
    <3>1. PICK page : page = PageOf(b.at)
      OBVIOUS
    <3>2. PICK m : PageStep(m, page, mng[page].bl)
      BY <1>3, <2>2, <3>1 DEF FreeBuffer
    <3>3. UNCHANGED kmem \/ FreeStep(PageBlock(page))
      BY <3>2 DEF PageStep, Relisted, Returned, PageBlock
    <3>4. PageBlock(page) \in held
      BY <2>2, <3>1 DEF MdbInv, Buffers, BufferOK, PagesIn
    <3> QED BY <3>3, <3>4
  <2> QED BY <2>1, <2>2
<1>4. ASSUME UNCHANGED vars PROVE UNCHANGED kmem
  BY <1>4 DEF vars
<1> QED BY <1>1, <1>2, <1>3, <1>4 DEF Next, Alloc, AllocAligned, Free, Add, others, Sizes

(***************************************************************************)
(* kmem_t with its list implements the pool of MemPool.                     *)
(***************************************************************************)
THEOREM KmemImplementsMemPool == Spec => ImplementsMemPool
<1>1. Init => Pool!Init
  <2> SUFFICES ASSUME Init PROVE Pool!Init
    OBVIOUS
  <2>1. KInv /\ held = {} /\ memory = Boot
    BY KInitInv DEF Init, KInit
  <2>2. List = Avail
    BY <2>1, ListIsAvail
  <2> QED BY <2>1, <2>2 DEF Pool!Init, Avail, Owned
<1>2. MdbInv /\ [Next]_vars => [Pool!Next]_Pool!vars
  <2> SUFFICES ASSUME MdbInv, [Next]_vars PROVE [Pool!Next]_Pool!vars
    OBVIOUS
  <2>1. KInv /\ KInv'
    BY MdbStepInv DEF MdbInv
  <2> QED BY <2>1, KmemStep, PoolSame, PoolAlloc, PoolFree, PoolAdd
<1> QED BY <1>1, <1>2, MdbInvariant, PTL DEF Spec, ImplementsMemPool, Pool!Spec

-----------------------------------------------------------------------------
(* The pages and buffers, whatever the sizes *)

\* The chunk a word is in, if it is in a block.
LEMMA WordInChunk ==
  ASSUME NEW b, IsBlock(b), NEW x \in Words(b)
  PROVE  x \in Nat /\ \E c \in ChunksOf(b) : Aligned(c) /\ c <= x /\ x < c + ChunkSize
<1>1. GoodSize(b.size) /\ Aligned(b.at) /\ b.at \in Nat /\ b.size \in Nat
  BY SizesGood DEF IsBlock, Aligned, GoodSize
<1>2. ChunkSize \in Nat \ {0}
  BY KMemoryAssumption
<1>3. x \in Nat /\ b.at <= x /\ x < b.at + b.size
  BY <1>1 DEF Words
<1>4. PICK n \in Nat \ {0} : ChunksOf(b) = Run(b.at, n) /\ Rounded(b.size) = n * ChunkSize
  BY <1>1, SizeFacts DEF ChunksOf
<1>5. b.size <= Rounded(b.size) /\ Rounded(b.size) \in Nat
  BY <1>1, <1>2 DEF Rounded
<1>6. x < b.at + n * ChunkSize
  BY <1>1, <1>3, <1>4, <1>5
<1>7. PICK k \in Nat : k = x \div ChunkSize
  BY <1>2, <1>3
<1>8. PICK c : c = k * ChunkSize
  OBVIOUS
<1>9. Aligned(c) /\ c \in Nat
  BY <1>8, MultipleAligned
<1>10. c <= x /\ x < c + ChunkSize
  <2>1. ASSUME NEW P \in Int, P > 0 PROVE x % P = x - (x \div P) * P
    BY <2>1, <1>3
  <2>2. x % ChunkSize \in 0 .. ChunkSize - 1
    BY <1>2, <1>3
  <2>3. x % ChunkSize = x - c
    BY <2>1, <1>2, <1>7, <1>8
  <2> QED BY <2>2, <2>3, <1>2, <1>3, <1>9
<1>11. ~(c < b.at)
  BY <1>1, <1>2, <1>3, <1>9, <1>10, AlignedApart
<1>12. b.at <= c /\ c < b.at + n * ChunkSize
  <2>1. b.at + n * ChunkSize \in Nat
    BY <1>1, <1>4, <1>5
  <2> QED BY <2>1, <1>1, <1>3, <1>6, <1>9, <1>10, <1>11
<1>13. c \in Run(b.at, n)
  BY <1>1, <1>9, <1>12, RunFacts
<1> QED BY <1>3, <1>4, <1>9, <1>10, <1>13

\* No word is in two blocks that are held.
LEMMA BlocksApart ==
  ASSUME KInv, NEW b \in held, NEW d \in held, b # d
  PROVE  Words(b) \cap Words(d) = {}
<1> SUFFICES ASSUME NEW x \in Words(b), x \in Words(d) PROVE FALSE
  OBVIOUS
<1>1. IsBlock(b) /\ IsBlock(d) /\ ChunksOf(b) \cap ChunksOf(d) = {} /\ ChunkSize \in Nat \ {0}
  BY KMemoryAssumption DEF KInv
<1>2. PICK c \in ChunksOf(b) : Aligned(c) /\ c <= x /\ x < c + ChunkSize
  BY <1>1, WordInChunk
<1>3. PICK e \in ChunksOf(d) : Aligned(e) /\ e <= x /\ x < e + ChunkSize
  BY <1>1, WordInChunk
<1>4. x \in Nat /\ c \in Nat /\ e \in Nat
  BY <1>1, <1>2, <1>3, WordInChunk DEF Aligned
<1>5. ~(c < e) /\ ~(e < c)
  BY <1>1, <1>2, <1>3, <1>4, AlignedApart
<1>6. c = e
  BY <1>4, <1>5
<1> QED BY <1>1, <1>2, <1>3, <1>6

\* The block a buffer is in.
Home(b) == IF Large(b.size) THEN b ELSE PageBlock(PageOf(b.at))

\* Every buffer is inside its block; a small one is a slot of its page.
LEMMA HomeFacts ==
  ASSUME MdbInv, NEW b \in bufs
  PROVE  /\ Home(b) \in held /\ Words(b) \subseteq Words(Home(b))
         /\ ~Large(b.size) => /\ PageOf(b.at) \in PagesIn(mng) /\ b.size \in Small
                              /\ PageOf(b.at) \in Nat /\ PageOf(b.at) % PageSize = 0
                              /\ b.at \in Slots(PageOf(b.at), b.size)
<1>1. KInv /\ Buffers(mng, bufs, held) /\ BufferOK(b, mng, held)
  BY DEF MdbInv, Buffers
<1>2. CASE Large(b.size)
  BY <1>1, <1>2 DEF Home, BufferOK
<1>3. CASE ~Large(b.size)
  <2>1. PICK p : p = PageOf(b.at)
    OBVIOUS
  <2>2. p \in PagesIn(mng) /\ mng[p].bl = b.size /\ b.size \in Small
    BY <1>1, <1>3, <2>1 DEF BufferOK, PagesIn, Small
  <2>3. PageBlock(p) \in held /\ PageOK(p, mng[p], OutOf(bufs, p))
    BY <2>2, <1>1 DEF Buffers
  <2>4. p \in Nat /\ p % PageSize = 0
    BY <2>3, <1>1, PageApart
  <2>5. b.at \in OutOf(bufs, p)
    BY <2>1 DEF OutOf
  <2>6. b.at \in Slots(p, b.size)
    BY <2>2, <2>3, <2>5 DEF PageOK, PageCore
  <2>7. b.at \in Nat /\ p + MngSize <= b.at /\ b.at + b.size <= p + PageSize
    BY <2>2, <2>4, <2>6, SlotFacts
  <2>8. MngSize \in Nat /\ b.size \in Nat /\ PageSize \in Nat
    BY <2>2, MdbAssumption DEF Small
  <2>9. PageBlock(p).at = p /\ PageBlock(p).size = PageSize
    BY DEF PageBlock
  <2>10. Words(b) \subseteq Words(PageBlock(p))
    BY <2>4, <2>7, <2>8, <2>9 DEF Words
  <2> QED BY <1>3, <2>1, <2>2, <2>3, <2>4, <2>6, <2>10 DEF Home
<1> QED BY <1>2, <1>3

\* Two buffers share no word.
LEMMA BuffersApart ==
  ASSUME MdbInv, NEW b \in bufs, NEW d \in bufs, b # d
  PROVE  Words(b) \cap Words(d) = {}
<1>1. /\ KInv /\ Buffers(mng, bufs, held) /\ BufferOK(b, mng, held) /\ BufferOK(d, mng, held)
      /\ Home(b) \in held /\ Home(d) \in held
      /\ Words(b) \subseteq Words(Home(b)) /\ Words(d) \subseteq Words(Home(d))
  BY HomeFacts DEF MdbInv, Buffers
<1>2. CASE Home(b) # Home(d)
  BY <1>1, <1>2, BlocksApart
<1>3. CASE Home(b) = Home(d)
  <2>1. ~Large(b.size) /\ ~Large(d.size)
    <3>1. \A p : PageBlock(p).at = p
      BY DEF PageBlock
    <3>2. ASSUME NEW x \in bufs, NEW y \in bufs, x # y, Home(x) = Home(y), Large(x.size) PROVE FALSE
      <4>1. BufferOK(x, mng, held) /\ BufferOK(y, mng, held) /\ Home(x) = x
        BY <3>2, <1>1 DEF Buffers, Home
      <4>2. ~Large(y.size) /\ x = PageBlock(PageOf(y.at))
        BY <4>1, <3>2 DEF Home
      <4>3. mng[x.at] = NoPage /\ mng[PageOf(y.at)] # NoPage
        BY <4>1, <4>2, <3>2 DEF BufferOK
      <4> QED BY <4>2, <4>3, <3>1
    <3> QED BY <3>2, <1>3
  <2>2. PICK p : p = PageOf(b.at)
    OBVIOUS
  <2>3. PageOf(d.at) = p
    <3>1. \A q : PageBlock(q).at = q
      BY DEF PageBlock
    <3> QED BY <3>1, <2>1, <2>2, <1>3 DEF Home
  <2>4. PICK s \in Small : s = b.size /\ s = d.size
    <3>1. b.size = mng[p].bl /\ d.size = mng[p].bl
      BY <2>1, <2>2, <2>3, <1>1 DEF BufferOK
    <3>2. b.size \in Small
      BY <2>1, HomeFacts
    <3> QED BY <3>1, <3>2
  <2>5. p \in Nat /\ p % PageSize = 0 /\ b.at \in Slots(p, s) /\ d.at \in Slots(p, s)
    BY <2>1, <2>2, <2>3, <2>4, HomeFacts
  <2>6. b.at # d.at
    BY <2>4, <1>1 DEF BufferOK
  <2>7. PICK x \in Slots(p, s), y \in Slots(p, s) : x = b.at /\ y = d.at
    BY <2>5
  <2>8. /\ x \in Nat /\ y \in Nat /\ s \in Nat
        /\ x < y => x + s <= y
        /\ y < x => y + s <= x
    BY <2>5, SlotFacts, MdbAssumption DEF Small
  <2>9. x + s <= y \/ y + s <= x
    BY <2>6, <2>7, <2>8
  <2>10. Words(b) = x .. x + s - 1 /\ Words(d) = y .. y + s - 1
    BY <2>4, <2>7 DEF Words
  <2> QED BY <2>8, <2>9, <2>10
<1> QED BY <1>2, <1>3

(***************************************************************************)
(* No word of memory is in two buffers, or in a buffer and a management     *)
(* structure; no page goes back to kmem_t with a buffer handed out, and one *)
(* with none handed out does.                                               *)
(***************************************************************************)
THEOREM BuffersStayDisjoint == Spec => []BuffersDisjoint
<1>1. MdbInv => BuffersDisjoint
  <2> SUFFICES ASSUME MdbInv PROVE BuffersDisjoint
    OBVIOUS
  <2>1. KInv /\ Buffers(mng, bufs, held) /\ Pages = PagesIn(mng)
    BY DEF MdbInv, Pages, PagesIn
  <2>2. \A b \in bufs : ~Large(b.size) => PageOf(b.at) \in Pages
    BY <2>1, HomeFacts
  <2>3. ASSUME NEW p \in Pages
        PROVE  /\ [at |-> p, size |-> PageSize] \in held
               /\ FreeOf(mng[p]) \cap OutOf(bufs, p) = {}
               /\ Cardinality(FreeOf(mng[p]) \cup OutOf(bufs, p)) = max_free(mng[p].bl)
               /\ \A a \in FreeOf(mng[p]) \cup OutOf(bufs, p) :
                    p + MngSize <= a /\ a + mng[p].bl <= p + PageSize
               /\ max_free(mng[p].bl) > 1 => OutOf(bufs, p) # {}
    <3>1. PageBlock(p) \in held /\ PageOK(p, mng[p], OutOf(bufs, p))
      BY <2>1 DEF Buffers
    <3>2. p \in Nat /\ p % PageSize = 0
      BY <3>1, <2>1, PageApart
    <3>3. PICK s \in Small : s = mng[p].bl
      <4>1. mng[p] \in Mng
        BY <2>1, NextPageType DEF PagesIn, Buffers
      <4> QED BY <4>1, MngNotNoPage
    <3>4. /\ FreeOf(mng[p]) \cap OutOf(bufs, p) = {}
          /\ FreeOf(mng[p]) \cup OutOf(bufs, p) = Slots(p, s)
          /\ max_free(s) > 1 => OutOf(bufs, p) # {}
      BY <3>1, <3>3 DEF PageOK, PageCore
    <3>5. Cardinality(Slots(p, s)) = max_free(s) /\ \A a \in Slots(p, s) : p + MngSize <= a /\ a + s <= p + PageSize
      BY <3>2, SlotFacts
    <3>6. [at |-> p, size |-> PageSize] \in held
      BY <3>1 DEF PageBlock
    <3> QED BY <3>3, <3>4, <3>5, <3>6
  <2> QED BY <2>2, <2>3, BuffersApart DEF BuffersDisjoint, FreeOf, Members, OutOf
<1> QED BY <1>1, MdbInvariant, PTL

\* What Listed computes is the walk along next_freelist.
LEMMA ListedWalk ==
  ASSUME MdbInv, NEW s \in Small
  PROVE  \A k \in Places : Listed(s)[k] = After(NextPage(mng), list_of_lists[s], k)
<1>1. PICK h \in AllChunks \cup {Null} : h = list_of_lists[s]
  BY DEF MdbInv
<1>2. PICK w \in Words0 : w = NextPage(mng)
  BY NextPageType DEF MdbInv, Buffers
<1>3. PICK o, lo : Chain(WithFree(mng, s), o, lo, h, w)
  BY <1>1, <1>2 DEF MdbInv, PageList
<1>4. PICK f : f = [k \in Places |-> After(w, h, k)]
  OBVIOUS
<1>5. PICK N \in Nat : N = Cardinality(AllChunks) /\ Places = 0 .. N
  BY ChunksFacts DEF Places
<1> DEFINE Hop(p) == IF p = Null THEN Null ELSE mng[p].next_freelist
<1>6. \A k \in Nat : After(w, h, k + 1) = Hop(After(w, h, k))
  <2> SUFFICES ASSUME NEW k \in Nat PROVE After(w, h, k + 1) = Hop(After(w, h, k))
    OBVIOUS
  <2>1. After(w, h, k + 1) = IF After(w, h, k) = Null THEN Null ELSE w[After(w, h, k)]
    BY AfterRec
  <2>2. ASSUME After(w, h, k) # Null PROVE w[After(w, h, k)] = mng[After(w, h, k)].next_freelist
    <3>1. After(w, h, k) \in WithFree(mng, s)
      BY <1>3, <2>2, ChainList
    <3> QED BY <3>1, <1>2 DEF WithFree, PagesIn, NextPage
  <2> QED BY <2>1, <2>2
<1>7. f[0] = h /\ \A k \in 1 .. N : f[k] = Hop(f[k - 1])
  <2>1. After(w, h, 0) = h
    BY AfterRec
  <2>2. ASSUME NEW k \in 1 .. N PROVE f[k] = Hop(f[k - 1])
    <3>1. PICK j \in Nat : j = k - 1 /\ k = j + 1
      OBVIOUS
    <3>2. f[k] = After(w, h, j + 1) /\ f[k - 1] = After(w, h, j)
      BY <3>1, <1>4, <1>5
    <3> QED BY <3>2, <1>6
  <2> QED BY <2>1, <2>2, <1>4, <1>5
<1> HIDE DEF Hop
<1> DEFINE Walk(g) == [k \in Places |-> IF k = 0 THEN h ELSE Hop(g[k - 1])]
           W == CHOOSE g : g = Walk(g)
<1>8. f = Walk(f)
  <2>1. \A k \in Places : f[k] = Walk(f)[k]
    BY <1>5, <1>7
  <2>2. f = [k \in Places |-> f[k]]
    BY <1>4
  <2> QED BY <2>1, <2>2
<1>9. W = Walk(W)
  <2> HIDE DEF Walk
  <2> QED BY <1>8
<1>10. \A k \in Places : Listed(s)[k] = W[k]
  BY <1>1 DEF Listed, Hop
<1> HIDE DEF W
<1> DEFINE F == [k \in 0 .. N |-> IF W[k] = f[k] THEN 1 ELSE 0]
<1>11. F[0] \in {1}
  <2>1. 0 \in 0 .. N /\ 0 \in Places
    BY <1>5
  <2>2. W[0] = f[0]
    BY <2>1, <1>7, <1>9
  <2> QED BY <2>1, <2>2
<1>12. ASSUME NEW k \in 1 .. N, F[k - 1] \in {1} PROVE F[k] \in {1}
  <2>1. k \in 0 .. N /\ k - 1 \in 0 .. N /\ k # 0
    OBVIOUS
  <2>2. W[k - 1] = f[k - 1]
    BY <2>1, <1>12
  <2>3. W[k] = Hop(W[k - 1])
    BY <2>1, <1>5, <1>9
  <2> QED BY <2>1, <2>2, <2>3, <1>7
<1> HIDE DEF F
<1>13. \A k \in 0 .. N : F[k] \in {1}
  BY <1>11, <1>12, Induction
<1>14. \A k \in Places : W[k] = f[k]
  BY <1>5, <1>13 DEF F
<1> QED BY <1>1, <1>2, <1>4, <1>10, <1>14

(***************************************************************************)
(* The list of every size is doubly linked, ends, and has exactly the pages *)
(* of the size with a free buffer, however many pages there are.            *)
(***************************************************************************)
THEOREM PagesStayListed == Spec => []PagesListed
<1>1. MdbInv => PagesListed
  <2> SUFFICES ASSUME MdbInv, NEW s \in Small
               PROVE  LET l == Listed(s) IN
                        /\ l[Cardinality(AllChunks)] = Null
                        /\ {l[k] : k \in Places} \ {Null} = {p \in Pages : mng[p].bl = s /\ mng[p].num_free > 0}
                        /\ \A k \in Places : l[k] # Null =>
                             /\ mng[l[k]].prev_freelist = IF k = 0 THEN Null ELSE l[k - 1]
                             /\ mng[l[k]].num_free = Len(mng[l[k]].freelist)
    BY DEF PagesListed
  <2>1. PICK l : l = Listed(s)
    OBVIOUS
  <2>2. PICK h \in AllChunks \cup {Null} : h = list_of_lists[s]
    BY DEF MdbInv
  <2>3. PICK w \in Words0 : w = NextPage(mng)
    BY NextPageType DEF MdbInv, Buffers
  <2>4. PICK E : E = WithFree(mng, s)
    OBVIOUS
  <2>5. PageList(mng, h, s) /\ mng \in Mngs
    BY <2>2 DEF MdbInv, Buffers
  <2>6. PICK o, lo : Chain(E, o, lo, h, w)
    BY <2>3, <2>4, <2>5 DEF PageList
  <2>7. PICK N \in Nat : N = Cardinality(AllChunks) /\ Places = 0 .. N
    BY ChunksFacts DEF Places
  <2>8. \A k \in Places : l[k] = After(w, h, k)
    BY <2>1, <2>2, <2>3, ListedWalk
  <2>9. /\ Cardinality(E) \in Nat /\ Cardinality(E) <= N
        /\ \A x \in E : Cardinality(Below(E, o, x)) \in Nat /\ Cardinality(Below(E, o, x)) < Cardinality(E)
    <3>1. Ranked(E, o, lo)
      BY <2>6 DEF Chain
    <3> QED BY <3>1, <2>7, BelowCount
  <2>10. /\ \A k \in Nat : After(w, h, k) = Null <=> Cardinality(E) <= k
         /\ \A k \in Nat : After(w, h, k) # Null =>
              After(w, h, k) \in E /\ After(w, h, k + 1) = w[After(w, h, k)]
         /\ \A d \in E : After(w, h, Cardinality(Below(E, o, d))) = d
    BY <2>6, ChainList
  <2>11. E \subseteq AllChunks /\ Null \notin E
    BY <2>4, ChunksFacts DEF WithFree, PagesIn
  <2>12. l[N] = Null
    BY <2>7, <2>8, <2>9, <2>10
  <2>13. {l[k] : k \in Places} \ {Null} = E
    <3>1. ASSUME NEW k \in Places, l[k] # Null PROVE l[k] \in E
      BY <3>1, <2>7, <2>8, <2>10
    <3>2. ASSUME NEW d \in E PROVE \E k \in Places : l[k] = d
      <4>1. PICK k \in Nat : k = Cardinality(Below(E, o, d))
        BY <2>9
      <4>2. k \in Places /\ After(w, h, k) = d
        BY <4>1, <2>7, <2>9, <2>10
      <4> QED BY <4>2, <2>8
    <3> QED BY <3>1, <3>2, <2>11
  <2>14. E = {p \in Pages : mng[p].bl = s /\ mng[p].num_free > 0}
    BY <2>4 DEF WithFree, PagesIn, Pages
  <2>15. ASSUME NEW k \in Places, l[k] # Null
         PROVE  /\ mng[l[k]].prev_freelist = IF k = 0 THEN Null ELSE l[k - 1]
                /\ mng[l[k]].num_free = Len(mng[l[k]].freelist)
    <3>1. PICK p : p = l[k]
      OBVIOUS
    <3>2. p \in E /\ p \in PagesIn(mng)
      BY <3>1, <2>4, <2>7, <2>8, <2>10, <2>15 DEF WithFree
    <3>3. mng[p].num_free = Len(mng[p].freelist)
      BY <3>2 DEF MdbInv, Buffers, PageOK, PageCore
    <3>4. ASSUME k = 0 PROVE mng[p].prev_freelist = Null
      <4>1. p = h
        BY <3>1, <3>4, <2>8, AfterRec
      <4> QED BY <4>1, <3>2, <2>4, <2>5 DEF PageList, Backward
    <3>5. ASSUME k # 0 PROVE mng[p].prev_freelist = l[k - 1]
      <4>1. PICK j \in Nat : j = k - 1 /\ k = j + 1 /\ j \in Places
        BY <3>5, <2>7
      <4>2. PICK c : c = After(w, h, j) /\ c = l[j]
        BY <4>1, <2>8
      <4>3. After(w, h, j + 1) = p
        BY <3>1, <4>1, <2>8
      <4>4. c # Null
        <5>1. After(w, h, j) = Null => After(w, h, j + 1) = Null
          BY AfterRec
        <5> QED BY <5>1, <4>2, <4>3, <3>1, <2>15
      <4>5. c \in E /\ p = w[c]
        BY <4>1, <4>2, <4>3, <4>4, <2>10
      <4>6. mng[c].next_freelist = p
        BY <4>5, <2>3, <2>4 DEF NextPage, WithFree, PagesIn
      <4>7. mng[p].prev_freelist = c
        BY <4>5, <4>6, <3>2, <2>4, <2>5, PageListFacts
      <4> QED BY <4>1, <4>2, <4>7
    <3> QED BY <3>1, <3>3, <3>4, <3>5
  <2> QED BY <2>1, <2>7, <2>12, <2>13, <2>14, <2>15
<1> QED BY <1>1, MdbInvariant, PTL
=============================================================================
