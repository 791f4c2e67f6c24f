------------------------------ MODULE MCKernel ------------------------------
(* Instances of the kernel: three threads at two priorities, and two threads *)
(* at one priority for liveness.                                             *)
EXTENDS Kernel

CONSTANTS t1, t2, t3

MCPrio  == [t \in Threads |-> IF t = t3 THEN 2 ELSE 1]
MCSpace == [t \in Threads |-> IF t = t3 THEN "b" ELSE "a"]
MCPager == [t \in Threads |-> IF t = t1 THEN t2 ELSE t3]
MCPrivileged == {"a"}

OneSpace == [t \in Threads |-> "a"]
LonePager == [t \in Threads |-> IF t = t1 THEN t2 ELSE t]
PairPager == [t \in Threads |-> IF t = t1 THEN t2 ELSE t1]
=============================================================================
