------------------------------ MODULE PrioQueue ------------------------------
(***************************************************************************)
(* prio_queue_t of schedule.h on the ring macros of queueing.h: one ring of *)
(* thread control blocks per priority, linked through ready_list, and       *)
(* max_prio, a hint above which every ring is empty.  A queue is a record:  *)
(*   head   prio_queue[], the first thread of every ring or Null            *)
(*   next, prev   tcb_t::ready_list                                         *)
(*   in     the threads with queue_state_t::ready set                       *)
(*   max    max_prio                                                        *)
(* The code leaves the links of a dequeued thread dangling when its ring    *)
(* goes on; they are Null here, so that following one is an error.          *)
(***************************************************************************)
EXTENDS Integers, FiniteSets

CONSTANTS Threads, Idle, Null,
          MaxPrio    \* MAX_PRIO

Prios == 0 .. MaxPrio

\* init(); the entry of MaxPrio, which its loop does not reach, is the zero of
\* the static storage the scheduler lives in.
EmptyQueue == [head |-> [p \in Prios |-> Null],
               next |-> [t \in Threads |-> Null],
               prev |-> [t \in Threads |-> Null],
               in   |-> {},
               max  |-> -1]

\* What ENQUEUE_LIST_HEAD and ENQUEUE_LIST_TAIL share: t goes between the last
\* and the first thread of ring p.
Linked(q, p, t) ==
  LET h == IF q.head[p] = Null THEN t ELSE q.head[p]
      l == IF q.head[p] = Null THEN t ELSE q.prev[h]
  IN [q EXCEPT !.next = [@ EXCEPT ![t] = h, ![l] = t],
               !.prev = [@ EXCEPT ![t] = l, ![h] = t]]

\* The ring is left unlinked at its head only when it was empty.
EnqueueList(q, p, t, first) ==
  LET r == Linked(q, p, t)
  IN IF first \/ q.head[p] = Null THEN [r EXCEPT !.head[p] = t] ELSE r

\* prio_queue_t::enqueue of t, of priority p
enqueue(q, p, t, first) ==
  IF t \in q.in THEN q
  ELSE [EnqueueList(q, p, t, first) EXCEPT
          !.in = @ \cup {t}, !.max = IF p > @ THEN p ELSE @]

\* DEQUEUE_LIST.  The links of a thread outside of the rings, which nothing
\* reads, are Null here.  Mutant: the head of the ring is forgotten.
MutHeadStays(q, p, t) ==
  LET n == q.next[t]
      l == q.prev[t]
      r == [q EXCEPT !.next = [@ EXCEPT ![l] = n, ![t] = Null],
                     !.prev = [@ EXCEPT ![n] = l, ![t] = Null]]
  IN IF n = t THEN [r EXCEPT !.head[p] = Null] ELSE r
DequeueList(q, p, t) ==
  LET n == q.next[t]
      l == q.prev[t]
      r == [q EXCEPT !.next = [@ EXCEPT ![l] = n, ![t] = Null],
                     !.prev = [@ EXCEPT ![n] = l, ![t] = Null]]
  IN IF n = t THEN [r EXCEPT !.head[p] = Null]
     ELSE IF q.head[p] = t THEN [r EXCEPT !.head[p] = n] ELSE r

\* prio_queue_t::dequeue
dequeue(q, p, t) ==
  IF t \notin q.in THEN q ELSE [DequeueList(q, p, t) EXCEPT !.in = @ \ {t}]

(***************************************************************************)
(* scheduler_t::find_next_thread on the queue q, where prio and run are the *)
(* priorities and the runnable threads: one round looks at the head of ring *)
(* p, returns it, takes it out, or goes on with the ring below.             *)
(***************************************************************************)
FindRound(s, prio, run) ==
  IF s.x # Null THEN s
  ELSE IF s.p < 0 THEN [s EXCEPT !.x = Idle, !.q.max = -1]
  ELSE LET t == s.q.head[s.p]
       IN CASE t = Null -> [s EXCEPT !.p = @ - 1]
            [] t # Null /\ t \in run -> [s EXCEPT !.x = t, !.q.max = s.p]
            [] OTHER -> [s EXCEPT !.q = dequeue(@, prio[t], t)]

\* The thread found (x) and the queue left (q), after the rounds of both loops.
find_next_thread(q, prio, run) ==
  LET rounds == MaxPrio + Cardinality(Threads) + 3
      S[n \in 0 .. rounds] ==
        IF n = 0 THEN {[q |-> q, p |-> q.max, x |-> Null]}
        ELSE {FindRound(s, prio, run) : s \in S[n - 1]}
  IN CHOOSE s \in S[rounds] : TRUE

\* The threads of ring p in round-robin order: n steps from its head.
Nth(q, p, n) ==
  LET W[k \in 0 .. n] == IF k = 0 THEN q.head[p] ELSE q.next[W[k - 1]]
  IN W[n]
Ring(q, p) ==
  IF q.head[p] = Null THEN {} ELSE {Nth(q, p, n) : n \in 0 .. Cardinality(Threads) - 1}
=============================================================================
