---------------------------- MODULE MCInterrupts ----------------------------
(* Two threads of different priority, either of which may handle the        *)
(* interrupts of a line.                                                     *)
EXTENDS Interrupts

CONSTANTS t1, t2, irq1

MCPrio  == [t \in Threads |-> IF t \in Irqs THEN 3 ELSE IF t = t2 THEN 2 ELSE 1]
MCSpace == [t \in Threads |-> IF t \in Irqs THEN "kernel" ELSE "a"]
MCPager == [t \in Threads |-> IF t = t1 THEN t2 ELSE IF t = t2 THEN t1 ELSE t]
MCPrivileged == {"a"}
=============================================================================
