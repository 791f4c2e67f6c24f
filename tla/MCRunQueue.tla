------------------------------ MODULE MCRunQueue ------------------------------
(***************************************************************************)
(* Instances of RunQueue for TLC: three threads and what happens to each.   *)
(***************************************************************************)
EXTENDS RunQueue

CONSTANTS t1, t2, t3

\* t1 changes its priority and delays preemptions, t2 loses its time slice, t3 is
\* deleted and created; all yield and donate time.
MCEnv == ({"switch"} \X Threads)
           \cup {<<"prio", t1>>, <<"delay", t1>>, <<"time", t2>>, <<"life", t3>>}

\* A new priority is set for a thread that has no pager yet.
InactiveEnv == {<<"prio", t3>>, <<"inactive", t3>>, <<"life", t3>>}

\* A thread sets its delayed flag; nobody ever grants it a delay.
FlagEnv == {<<"delay", t1>>}
=============================================================================
