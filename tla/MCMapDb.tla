------------------------------- MODULE MCMapDb -------------------------------
(* A large frame of two small ones that is mapped as a large and as a small    *)
(* page in two spaces.                                                         *)
EXTENDS MapDb

CONSTANTS sp1, sp2

MCPages   == {sp1, sp2} \X {Large, 1}
MCGranted == {<<sp2, Large>>}
=============================================================================
