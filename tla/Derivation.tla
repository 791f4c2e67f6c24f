------------------------------ MODULE Derivation ------------------------------
(***************************************************************************)
(* What the mapping database promises, without lists, arrays and depths:    *)
(* every mapping was derived from another one or from sigma0, which owns    *)
(* all memory; an unmap takes away all that was derived from a mapping      *)
(* within the unmapped memory, and nothing else.                            *)
(***************************************************************************)
EXTENDS Integers, FiniteSets

CONSTANTS Pages,   \* page table entries
          Frames,  \* units of physical memory
          Sigma0, None

VARIABLES origin,   \* the mapping each was derived from, None if not mapped
          frames,   \* the memory it covers
          writable  \* the entries that allow writing

vars == <<origin, frames, writable>>

Mapped == {p \in Pages : origin[p] # None}

Init == /\ origin = [p \in Pages |-> None]
        /\ frames = [p \in Pages |-> {}]
        /\ writable = {}

\* The mappings derived from p, in any number of steps: the fewest that have with p,
\* and with every one of them, all that were derived from it.
Derived(p) ==
  LET M      == Mapped
      Closed == {C \in SUBSET M : \A r \in M \ C : origin[r] \notin C \cup {p}}
  IN {q \in M : \A C \in Closed : q \in C}

(***************************************************************************)
(* Map(f, t): t is derived from f, or from sigma0, and covers a part of its *)
(* memory.  It is writable only if f is.                                    *)
(***************************************************************************)
Map(f, t) ==
  /\ f = Sigma0 \/ f \in Mapped
  /\ t \notin Mapped
  /\ origin' = [origin EXCEPT ![t] = f]
  /\ \E F \in SUBSET (IF f = Sigma0 THEN Frames ELSE frames[f]) :
       F # {} /\ frames' = [frames EXCEPT ![t] = F]
  /\ writable' \in {writable, IF f = Sigma0 \/ f \in writable THEN writable \cup {t} ELSE writable}

\* Grant(f, t): t takes the place of f among the mappings, with its rights or less.
Grant(f, t) ==
  /\ f \in Mapped /\ t \notin Mapped
  /\ origin' = [p \in Pages |-> CASE p = t -> origin[f]
                                  [] p = f -> None
                                  [] OTHER -> IF origin[p] = f THEN t ELSE origin[p]]
  /\ frames' = [frames EXCEPT ![t] = frames[f], ![f] = {}]
  /\ writable' \in {writable \ {f}, IF f \in writable THEN (writable \ {f}) \cup {t} ELSE writable}

(***************************************************************************)
(* Unmap(p): all rights, or the right to write, are revoked for a part F of *)
(* p: for all mappings of memory in F that were derived from p, in however  *)
(* many steps and through mappings of whatever size, and for nothing else   *)
(* but p itself, of which all or nothing is revoked.                        *)
(***************************************************************************)
Revoked(p, F, self) == {q \in Derived(p) : frames[q] \subseteq F} \cup (IF self THEN {p} ELSE {})

Unmap(p) ==
  /\ p \in Mapped
  /\ \E F \in SUBSET frames[p], self \in BOOLEAN :
       LET R == Revoked(p, F, self) IN
       /\ self => F = frames[p]
       /\ writable' = writable \ R
       /\ \/ /\ origin' = [q \in Pages |-> IF q \in R THEN None ELSE origin[q]]
             /\ frames' = [q \in Pages |-> IF q \in R THEN {} ELSE frames[q]]
          \/ UNCHANGED <<origin, frames>>

Next == \/ \E f \in Pages \cup {Sigma0}, t \in Pages : Map(f, t)
        \/ \E f, t \in Pages : Grant(f, t)
        \/ \E p \in Pages : Unmap(p)

Spec == Init /\ [][Next]_vars
-----------------------------------------------------------------------------
\* Every mapping goes back to sigma0, within the memory of the one it was derived
\* from.
Rooted == \A p \in Mapped : origin[p] # Sigma0 =>
            /\ origin[p] \in Mapped
            /\ frames[p] \subseteq frames[origin[p]]
=============================================================================
