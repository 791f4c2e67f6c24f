------------------------------ MODULE MCMdbAlloc ------------------------------
(* Six chunks from boot and two added later, eight words each; an MDB page  *)
(* is two chunks and takes three buffers of three words or two of four.     *)
EXTENDS MdbAlloc

MCBoot    == {16, 24, 32, 40, 48, 56}
MCAdded   == {{72, 80}}
MCColours == {[span |-> 32, align |-> 16]}
=============================================================================
