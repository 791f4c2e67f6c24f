------------------------------- MODULE ReadySet -------------------------------
(***************************************************************************)
(* What the scheduler promises, without rings, hints and time: the ready    *)
(* queue is a set; a scheduling decision takes a runnable thread of the     *)
(* highest priority in it and drops blocked threads only.  Kernel uses the  *)
(* ready queue in this form; RunQueue implements it.                        *)
(***************************************************************************)
EXTENDS Integers

CONSTANTS Threads, Idle

VARIABLES current,  \* the running thread
          run,      \* the runnable threads
          prio,     \* the priority of every thread
          ready     \* the threads in the ready queue

vars == <<current, run, prio, ready>>

Init == /\ current = Idle
        /\ run = {}
        /\ prio \in [Threads -> Nat]
        /\ ready = {}

\* The decision taken on the queue rs when st can run: x, and the queue it leaves.
Choice(rs, st, x, rest) ==
  IF rs \cap st = {} THEN x = Idle /\ rest = {}
  ELSE /\ x \in rs \cap st
       /\ \A y \in rs \cap st : prio[y] <= prio[x]
       /\ rs \ rest \subseteq {y \in rs \ st : prio[y] >= prio[x]}
       /\ \A y \in rest : prio[y] <= prio[x]

Decide(W) ==
  /\ run' = run \cup W
  /\ \E x \in Threads \cup {Idle}, rest \in SUBSET (ready \cup W \cup ({current} \ {Idle})) :
       /\ Choice(ready \cup W \cup ({current} \ {Idle}), run \cup W, x, rest)
       /\ current' = x
       /\ ready' = IF x # current THEN rest \cup ({current} \ {Idle}) ELSE rest
  /\ UNCHANGED prio

\* Threads become runnable; the current thread goes on.
Wake(W) == /\ run' = run \cup W
           /\ ready' = ready \cup W
           /\ UNCHANGED <<current, prio>>

\* One of them preempts the current thread; it need not be queued itself.
Preempt(W, x) ==
  /\ current \in Threads /\ x \in W /\ prio[current] < prio[x]
  /\ run' = run \cup W
  /\ current' = x
  /\ \E S \in {W, W \ {x}} : ready' = ready \cup S \cup {current}
  /\ UNCHANGED prio

\* The current thread hands the processor to another runnable one ...
Donate(x) == /\ current \in Threads /\ x \in run
             /\ current' = x
             /\ ready' = ready \cup {current}
             /\ UNCHANGED <<run, prio>>

\* ... or blocks, with or without waking the thread it hands it to.
Block(x) == /\ current \in run
            /\ current' = x
            /\ run' = (run \ {current}) \cup ({x} \ {Idle})
            /\ UNCHANGED <<ready, prio>>

\* A thread that does not run is stopped; it may stay queued.
Stop(t) == /\ t # current
           /\ run' = run \ {t}
           /\ ready' \in {ready, ready \ {t}}
           /\ UNCHANGED <<current, prio>>

\* New scheduling parameters may queue the thread, whatever its state.
SetPrio(t) == /\ prio' = [prio EXCEPT ![t] = prio'[t]] /\ prio'[t] \in Nat
              /\ ready' \in {ready, ready \cup {t}}
              /\ UNCHANGED <<current, run>>

Next == \/ \E W \in SUBSET (Threads \ run) :
             \/ Wake(W)
             \/ Decide(W)
             \/ \E x \in W : Preempt(W, x)
        \/ \E x \in Threads : Donate(x) \/ Stop(x) \/ SetPrio(x)
        \/ \E x \in (Threads \ run) \cup {Idle} : Block(x)

Spec == Init /\ [][Next]_vars

\* No runnable thread is lost: it runs or it is queued.
NoLost == run \subseteq ready \cup {current}
=============================================================================
