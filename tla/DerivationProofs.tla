--------------------------- MODULE DerivationProofs ---------------------------
(***************************************************************************)
(* Proofs about the tree of derivations that the mapping database promises, *)
(* for any number of page table entries and any memory.                     *)
(***************************************************************************)
EXTENDS Derivation, TLAPS

\* Sigma0 has no page table entry, and the mark of an entry that is not in use is
\* neither one nor sigma0.
Distinct == {Sigma0, None} \cap Pages = {} /\ Sigma0 # None

TypeOK == /\ origin \in [Pages -> Pages \cup {Sigma0, None}]
          /\ frames \in [Pages -> SUBSET Frames]
          /\ writable \subseteq Mapped

\* A rank that falls from a mapping to the one it was derived from.
Falls(rank) == \A p \in Mapped : origin[p] # Sigma0 => rank[origin[p]] < rank[p]

\* Rooted would hold of two mappings derived from each other.  There are none: by
\* going from a mapping to the one it was derived from one always gets to sigma0.
Grounded == \E rank \in [Pages -> Nat] : Falls(rank)

TreeInv == TypeOK /\ Rooted /\ Grounded

\* No mapping is derived from an entry that is not in use.
LEMMA NoOrphans ==
  ASSUME Distinct, TreeInv, NEW t \in Pages \ Mapped, NEW p \in Pages
  PROVE  origin[p] # t
BY DEF Distinct, TreeInv, Rooted, TypeOK, Mapped

\* Initially nothing is mapped.
LEMMA InitTree == Distinct /\ Init => TreeInv
<1> SUFFICES ASSUME Distinct, Init PROVE TreeInv
  OBVIOUS
<1>1. Mapped = {}
  BY DEF Init, Mapped
<1>2. TypeOK /\ Rooted
  BY <1>1 DEF Init, TypeOK, Rooted
<1>3. [p \in Pages |-> 0] \in [Pages -> Nat]
  OBVIOUS
<1> QED BY <1>1, <1>2, <1>3 DEF TreeInv, Grounded, Falls

\* A new mapping is a leaf of the tree.
LEMMA MapStep ==
  ASSUME Distinct, TreeInv, NEW f \in Pages \cup {Sigma0}, NEW t \in Pages, Map(f, t)
  PROVE  TreeInv'
<1>1. t \notin Mapped /\ (f = Sigma0 \/ f \in Mapped) /\ f # None /\ f # t
  BY DEF Map, Distinct, Mapped
<1>2. PICK F \in SUBSET (IF f = Sigma0 THEN Frames ELSE frames[f]) :
        frames' = [frames EXCEPT ![t] = F]
  BY DEF Map
<1>3. /\ origin' = [origin EXCEPT ![t] = f]
      /\ origin \in [Pages -> Pages \cup {Sigma0, None}]
      /\ frames \in [Pages -> SUBSET Frames]
  BY DEF Map, TreeInv, TypeOK
<1>4. Mapped' = Mapped \cup {t}
  BY <1>1, <1>3 DEF Mapped
<1>5. F \in SUBSET Frames
  BY <1>1, <1>3 DEF Mapped
<1>6. TypeOK'
  <2>1. writable' \subseteq writable \cup {t} /\ writable \subseteq Mapped
    BY DEF Map, TreeInv, TypeOK
  <2> QED BY <1>2, <1>3, <1>4, <1>5, <2>1 DEF TypeOK
<1>7. Rooted'
  <2> SUFFICES ASSUME NEW p \in Mapped', origin'[p] # Sigma0
               PROVE  origin'[p] \in Mapped' /\ frames'[p] \subseteq frames'[origin'[p]]
    BY DEF Rooted
  <2>1. CASE p = t
    BY <2>1, <1>1, <1>2, <1>3, <1>4 DEF Mapped
  <2>2. CASE p # t
    <3>1. p \in Mapped /\ origin'[p] = origin[p] /\ origin[p] # t
      BY <2>2, <1>1, <1>3, <1>4, NoOrphans DEF Mapped
    <3>2. origin[p] \in Mapped /\ frames[p] \subseteq frames[origin[p]]
      BY <3>1 DEF TreeInv, Rooted
    <3> QED BY <3>1, <3>2, <2>2, <1>2, <1>3, <1>4 DEF Mapped
  <2> QED BY <2>1, <2>2
<1>8. Grounded'
  <2>1. PICK rank \in [Pages -> Nat] : Falls(rank)
    BY DEF TreeInv, Grounded
  <2> DEFINE below == [rank EXCEPT ![t] = IF f = Sigma0 THEN 0 ELSE rank[f] + 1]
  <2>2. below \in [Pages -> Nat]
    BY <1>1 DEF Mapped
  <2>3. ASSUME NEW p \in Mapped', origin'[p] # Sigma0
        PROVE  below[origin'[p]] < below[p]
    <3>1. CASE p = t
      <4>1. origin'[p] = f /\ f \in Pages /\ f # Sigma0
        BY <3>1, <2>3, <1>1, <1>3 DEF Mapped
      <4>2. below[p] = rank[f] + 1 /\ below[f] = rank[f]
        BY <4>1, <3>1, <1>1
      <4> QED BY <4>1, <4>2
    <3>2. CASE p # t
      <4>1. p \in Mapped /\ p \in Pages /\ origin'[p] = origin[p] /\ origin[p] # t
        BY <3>2, <1>1, <1>3, <1>4, NoOrphans DEF Mapped
      <4>2. origin[p] \in Pages /\ rank[origin[p]] < rank[p]
        BY <4>1, <2>1, <2>3 DEF TreeInv, Rooted, Falls, Mapped
      <4> QED BY <4>1, <4>2, <3>2
    <3> QED BY <3>1, <3>2
  <2> QED BY <2>2, <2>3 DEF Grounded, Falls
<1> QED BY <1>6, <1>7, <1>8 DEF TreeInv

\* A grant moves a mapping with all that was derived from it.
LEMMA GrantStep ==
  ASSUME Distinct, TreeInv, NEW f \in Pages, NEW t \in Pages, Grant(f, t)
  PROVE  TreeInv'
<1>1. /\ f \in Mapped /\ t \notin Mapped /\ f # t
      /\ origin \in [Pages -> Pages \cup {Sigma0, None}]
      /\ frames \in [Pages -> SUBSET Frames]
  BY DEF Grant, TreeInv, TypeOK
<1>2. \A p \in Pages : origin'[p] = IF p = t THEN origin[f] ELSE
                                    IF p = f THEN None ELSE
                                    IF origin[p] = f THEN t ELSE origin[p]
  BY <1>1 DEF Grant
<1>3. \A p \in Pages : frames'[p] = IF p = t THEN frames[f] ELSE
                                    IF p = f THEN {} ELSE frames[p]
  BY <1>1 DEF Grant
<1>4. Mapped' = (Mapped \ {f}) \cup {t}
  BY <1>1, <1>2 DEF Mapped, Distinct
<1>5. PICK rank \in [Pages -> Nat] : Falls(rank)
  BY DEF TreeInv, Grounded
<1>6. origin[f] # f
  BY <1>1, <1>5 DEF Falls, Mapped, Distinct
<1>7. TypeOK'
  <2>1. origin' \in [Pages -> Pages \cup {Sigma0, None}]
    BY <1>1 DEF Grant
  <2>2. frames' \in [Pages -> SUBSET Frames]
    BY <1>1 DEF Grant
  <2>3. writable' \subseteq (writable \ {f}) \cup {t} /\ writable \subseteq Mapped
    BY DEF Grant, TreeInv, TypeOK
  <2> QED BY <2>1, <2>2, <2>3, <1>4 DEF TypeOK
<1>8. ASSUME NEW p \in Mapped', origin'[p] # Sigma0
      PROVE  LET q == IF p = t THEN f ELSE p
             IN /\ q \in Mapped /\ origin[q] # Sigma0 /\ origin[q] # t
                /\ origin'[p] = IF origin[q] = f THEN t ELSE origin[q]
                /\ frames'[p] = frames[q]
  <2>1. p \in Pages /\ (p = t \/ p \in Mapped \ {f})
    BY <1>4 DEF Mapped
  <2>2. CASE p = t
    <3>1. origin'[p] = origin[f] /\ frames'[p] = frames[f]
      BY <2>1, <2>2, <1>2, <1>3
    <3>2. origin[f] # t
      BY <1>1, NoOrphans
    <3> QED BY <3>1, <3>2, <2>2, <1>1, <1>6, <1>8
  <2>3. CASE p # t
    <3>1. p \in Mapped /\ p # f
      BY <2>1, <2>3
    <3>2. /\ origin'[p] = IF origin[p] = f THEN t ELSE origin[p]
          /\ frames'[p] = frames[p]
      BY <3>1, <2>1, <2>3, <1>2, <1>3
    <3>3. origin[p] # t
      BY <2>1, <1>1, NoOrphans
    <3>4. origin[p] # Sigma0
      BY <3>2, <1>1, <1>8 DEF Distinct
    <3> QED BY <3>1, <3>2, <3>3, <3>4, <2>3
  <2> QED BY <2>2, <2>3
<1>9. Rooted'
  <2> SUFFICES ASSUME NEW p \in Mapped', origin'[p] # Sigma0
               PROVE  origin'[p] \in Mapped' /\ frames'[p] \subseteq frames'[origin'[p]]
    BY DEF Rooted
  <2> DEFINE q == IF p = t THEN f ELSE p
  <2>1. /\ q \in Mapped /\ origin[q] # Sigma0 /\ origin[q] # t
        /\ origin'[p] = IF origin[q] = f THEN t ELSE origin[q]
        /\ frames'[p] = frames[q]
    BY <1>8
  <2>2. origin[q] \in Mapped /\ frames[q] \subseteq frames[origin[q]]
    BY <2>1 DEF TreeInv, Rooted
  <2> HIDE DEF q
  <2> QED BY <2>1, <2>2, <1>1, <1>3, <1>4 DEF Mapped
<1>10. Grounded'
  <2> DEFINE moved == [rank EXCEPT ![t] = rank[f]]
  <2>1. moved \in [Pages -> Nat]
    OBVIOUS
  <2>2. ASSUME NEW p \in Mapped', origin'[p] # Sigma0
        PROVE  moved[origin'[p]] < moved[p]
    <3> DEFINE q == IF p = t THEN f ELSE p
    <3>1. /\ q \in Mapped /\ origin[q] # Sigma0 /\ origin[q] # t
          /\ origin'[p] = IF origin[q] = f THEN t ELSE origin[q]
      BY <1>8, <2>2
    <3>2. origin[q] \in Pages /\ rank[origin[q]] < rank[q]
      BY <3>1, <1>5 DEF TreeInv, Rooted, Falls, Mapped
    <3>3. moved[p] = rank[q] /\ moved[origin'[p]] = rank[origin[q]]
      BY <3>1, <3>2, <1>4 DEF Mapped
    <3> HIDE DEF q, moved
    <3> QED BY <3>2, <3>3
  <2> QED BY <2>1, <2>2 DEF Grounded, Falls
<1> QED BY <1>7, <1>9, <1>10 DEF TreeInv

\* What was derived from p, or from a mapping derived from p, is derived from p.
LEMMA DerivedClosed ==
  ASSUME NEW p, NEW q \in Mapped, origin[q] \in Derived(p) \cup {p}
  PROVE  q \in Derived(p)
<1> DEFINE Closed == {C \in SUBSET Mapped : \A r \in Mapped \ C : origin[r] \notin C \cup {p}}
<1> SUFFICES ASSUME NEW C \in Closed PROVE q \in C
  BY DEF Derived
<1>1. Derived(p) \subseteq C
  BY DEF Derived
<1> QED BY <1>1

\* An unmap takes whole branches: memory that is derived from memory in F is in F,
\* and p itself goes only with all of its memory.
LEMMA WholeBranches ==
  ASSUME Distinct, TreeInv, NEW p \in Mapped, NEW F \in SUBSET frames[p], NEW self \in BOOLEAN,
         self => F = frames[p],
         NEW q \in Mapped, origin[q] \in Revoked(p, F, self)
  PROVE  q \in Revoked(p, F, self)
<1>1. origin[q] # Sigma0
  BY DEF Revoked, Derived, Distinct, Mapped
<1>2. frames[q] \subseteq frames[origin[q]]
  BY <1>1 DEF TreeInv, Rooted
<1>3. CASE origin[q] \in Derived(p) /\ frames[origin[q]] \subseteq F
  BY <1>2, <1>3, DerivedClosed DEF Revoked
<1>4. CASE self /\ origin[q] = p
  BY <1>2, <1>4, DerivedClosed DEF Revoked
<1> QED BY <1>3, <1>4 DEF Revoked

\* So nobody loses the mapping it was derived from and stays.
LEMMA UnmapStep ==
  ASSUME Distinct, TreeInv, NEW p \in Pages, Unmap(p)
  PROVE  TreeInv'
<1>p. p \in Mapped
  BY DEF Unmap
<1>a. PICK F \in SUBSET frames[p], self \in BOOLEAN :
        /\ self => F = frames[p]
        /\ writable' = writable \ Revoked(p, F, self)
        /\ \/ /\ origin' = [q \in Pages |-> IF q \in Revoked(p, F, self) THEN None ELSE origin[q]]
              /\ frames' = [q \in Pages |-> IF q \in Revoked(p, F, self) THEN {} ELSE frames[q]]
           \/ UNCHANGED <<origin, frames>>
  BY DEF Unmap
<1> DEFINE R == Revoked(p, F, self)
<1>b. R \subseteq Mapped
  BY <1>p DEF Revoked, Derived
<1>c. \A q \in Mapped : origin[q] \in R => q \in R
  BY <1>p, <1>a, WholeBranches
<1>1. /\ writable' = writable \ R
      /\ \/ /\ origin' = [q \in Pages |-> IF q \in R THEN None ELSE origin[q]]
            /\ frames' = [q \in Pages |-> IF q \in R THEN {} ELSE frames[q]]
         \/ UNCHANGED <<origin, frames>>
  BY <1>a
<1> HIDE DEF R
<1>2. CASE UNCHANGED <<origin, frames>>
  BY <1>1, <1>2 DEF TreeInv, TypeOK, Rooted, Grounded, Falls, Mapped
<1>3. CASE /\ origin' = [q \in Pages |-> IF q \in R THEN None ELSE origin[q]]
           /\ frames' = [q \in Pages |-> IF q \in R THEN {} ELSE frames[q]]
  <2>1. Mapped' = Mapped \ R
    BY <1>3 DEF Mapped
  <2>2. TypeOK'
    BY <1>1, <1>3, <2>1 DEF TreeInv, TypeOK
  <2>3. \A q \in Mapped' : /\ q \in Mapped /\ origin'[q] = origin[q] /\ origin[q] \notin R
                           /\ frames'[q] = frames[q]
    BY <1>c, <1>3, <2>1 DEF Mapped
  <2>4. Rooted'
    BY <2>1, <2>3 DEF TreeInv, Rooted
  <2>5. Grounded'
    BY <2>3 DEF TreeInv, Grounded, Falls
  <2> QED BY <2>2, <2>4, <2>5 DEF TreeInv
<1> QED BY <1>1, <1>2, <1>3

\* Every step keeps the tree.
LEMMA NextTree == Distinct /\ TreeInv /\ [Next]_vars => TreeInv'
<1> SUFFICES ASSUME Distinct, TreeInv, [Next]_vars PROVE TreeInv'
  OBVIOUS
<1>1. CASE UNCHANGED vars
  BY <1>1 DEF vars, TreeInv, TypeOK, Rooted, Grounded, Falls, Mapped
<1> QED BY <1>1, MapStep, GrantStep, UnmapStep DEF Next

\* Whatever is mapped and granted, and whatever part of a mapping is revoked with
\* what was derived from it: every mapping was derived from one that still exists
\* and covers its memory.
THEOREM MappingsAreRooted ==
  ASSUME Distinct
  PROVE  Spec => []Rooted
<1>1. TreeInv => Rooted
  BY DEF TreeInv
<1> QED BY <1>1, InitTree, NextTree, PTL DEF Spec

\* No mapping is derived from itself, through however many others: all memory that
\* is mapped anywhere was given by sigma0.
THEOREM MappingsAreGrounded ==
  ASSUME Distinct
  PROVE  Spec => []Grounded
<1>1. TreeInv => Grounded
  BY DEF TreeInv
<1> QED BY <1>1, InitTree, NextTree, PTL DEF Spec
=============================================================================
