------------------------------- MODULE RunQueue -------------------------------
(***************************************************************************)
(* scheduler_t of schedule.h and schedule.cc on one processor: the priority *)
(* queue, time slices, the timer interrupt, delayed preemption,             *)
(* SYS_THREAD_SWITCH and SYS_SCHEDULE.  What IPC, exregs and thread control *)
(* do to a thread is reduced to how they change its state and the queue:    *)
(* Block, Handoff, Send, Stop, Create, Activate and Delete.                 *)
(*                                                                          *)
(* Time counts in timer ticks.  Total quanta are infinite, their default;   *)
(* the pending flag, which only users read, is left out.                    *)
(***************************************************************************)
EXTENDS PrioQueue, SequencesExt

CONSTANTS DefaultPrio,  \* DEFAULT_PRIORITY
          DefaultLen,   \* DEFAULT_TIMESLICE_LENGTH
          Lengths,      \* time slices SYS_SCHEDULE sets; 0 is infinite
          Delays,       \* maximal delays SYS_SCHEDULE sets
          MaxDebt,      \* bound: overdrawn time slices count up to this
          Env           \* what is done by, or to, which thread, see Does

ASSUME RunQueueAssumption ==
  /\ IsFiniteSet(Threads)
  /\ Idle \notin Threads /\ Null \notin Threads \cup {Idle}
  /\ MaxPrio \in Nat /\ DefaultPrio \in Prios
  /\ Lengths \subseteq Nat /\ Delays \subseteq Nat
  /\ DefaultLen \in Nat /\ MaxDebt \in Nat

VARIABLES current,   \* get_current_tcb()
          state,     \* tcb_t::thread_state, reduced, and existence
          q,         \* root_prio_queue
          prio,      \* tcb_t::priority
          sens,      \* tcb_t::sensitive_prio
          len,       \* tcb_t::timeslice_length
          slice,     \* tcb_t::current_timeslice
          pslice,    \* prio_queue_t::current_timeslice
          maxdelay,  \* tcb_t::max_delay
          delay,     \* tcb_t::current_max_delay
          delayed    \* threads with the delayed flag of their UTCB set

params == <<prio, sens, len, maxdelay>>
vars   == <<current, state, q, prio, sens, len, slice, pslice, maxdelay, delay, delayed>>

\* A system call or an event that a run can leave out, for every thread.
Does(what, t) == <<what, t>> \in Env

\* none: no such thread; inactive: created without a pager (state aborted).
States   == {"none", "inactive", "blocked", "running"}
runnable == {t \in Threads : state[t] = "running"}
blocked  == {t \in Threads : state[t] = "blocked"}

Init == /\ current = Idle
        /\ state = [t \in Threads |-> "blocked"]
        /\ q = EmptyQueue
        /\ prio = [t \in Threads |-> DefaultPrio]
        /\ sens = [t \in Threads |-> DefaultPrio]
        /\ len = [t \in Threads |-> DefaultLen]
        /\ slice = [t \in Threads |-> DefaultLen]
        /\ pslice = 0
        /\ maxdelay = [t \in Threads |-> 0]
        /\ delay = [t \in Threads |-> 0]
        /\ delayed = {}

\* enqueue_ready of t in the queue r.
Enq(r, t, first) == enqueue(r, prio[t], t, first)

\* scheduler_t::delay_preemption
delay_preemption(c, t) ==
  c = t \/ (sens[c] >= prio[t] /\ delay[c] > 0)

\* scheduler_t::check_dispatch_thread
check_dispatch_thread(c, t) ==
  IF c \in delayed /\ delay[c] > 0 THEN ~delay_preemption(c, t)
  ELSE prio[c] < prio[t]

\* scheduler_t::schedule called by the current thread with the queue r.
schedule(r, run) ==
  LET f == find_next_thread(r, prio, run)
  IN /\ f.x # Null
     /\ current' = f.x
     /\ q' = IF f.x # current /\ current # Idle THEN Enq(f.q, current, FALSE) ELSE f.q

(***************************************************************************)
(* scheduler_t::end_of_timeslice of c: the ring of its priority moves on to *)
(* the thread after c, the time slice of c is renewed, and that of the next *)
(* thread starts.  p is what is left of the current time slice.  Mutant:    *)
(* the ring does not move on.                                               *)
(***************************************************************************)
MutNotRotated(r, c) == Enq(r, c, TRUE)
Rotated(r, c) == LET e == Enq(r, c, TRUE) IN [e EXCEPT !.head[prio[c]] = e.next[c]]

end_of_timeslice(r, c, p) ==
  /\ slice' = [slice EXCEPT ![c] = p + len[c]]
  /\ pslice' = slice'[Rotated(r, c).head[prio[c]]]

\* preempt_thread(c, w) with the queue r, where p is left of the time slice.
preempt_thread(c, w, r, p) ==
  /\ slice' = [slice EXCEPT ![c] = p]
  /\ q' = Enq(r, c, TRUE)
  /\ pslice' = slice'[w]
  /\ current' = w

\* parse_wakeup_queues: the expired threads, in the order of the list.
Woken(order) == [t \in Threads |-> IF t \in ToSet(order) THEN "running" ELSE state[t]]
WokenQueue(order) ==
  LET W[k \in 0 .. Len(order)] == IF k = 0 THEN q ELSE Enq(W[k - 1], order[k], FALSE)
  IN W[Len(order)]
HighestWakeup(order) ==
  LET H[k \in 0 .. Len(order)] ==
        IF k = 0 THEN current
        ELSE IF check_dispatch_thread(H[k - 1], order[k]) THEN order[k] ELSE H[k - 1]
  IN H[Len(order)]

\* The delay granted to c is used up at once.
UsedUp(c) == [delay EXCEPT ![c] = 0]

\* handle_timer_interrupt while a thread runs.
Timer(order) ==
  LET c == current
      w == HighestWakeup(order)
      r == WokenQueue(order)
      p == IF len[c] # 0 /\ pslice > -MaxDebt THEN pslice - 1 ELSE pslice
      expired == len[c] # 0 /\ p <= 0
      extend  == expired /\ c \in delayed /\ delay_preemption(c, w)
  IN /\ c # Idle
     /\ state' = Woken(order)
     /\ delay' = IF extend THEN UsedUp(c) ELSE delay
     /\ LET left == IF extend THEN p + delay[c] ELSE p
        IN \/ /\ expired /\ ~extend
              /\ end_of_timeslice(r, c, p)
              /\ schedule(Rotated(r, c), {t \in Threads : state'[t] = "running"})
           \/ /\ ~expired \/ extend
              /\ w = c
              /\ pslice' = left /\ q' = r
              /\ UNCHANGED <<current, slice>>
           \/ /\ ~expired \/ extend
              /\ w # c
              /\ preempt_thread(c, w, r, left)
     /\ UNCHANGED <<params, delayed>>

\* handle_timer_interrupt in the idle thread, which takes interrupts only while it
\* sleeps: after a search that found nothing, and left the hint at -1.
TimerIdle(order) ==
  /\ current = Idle /\ order # << >>
  /\ q.max = -1
  /\ state' = Woken(order)
  /\ q' = WokenQueue(order)
  /\ UNCHANGED <<current, slice, pslice, params, delay, delayed>>

\* One round of idle_thread.
IdleSchedule ==
  /\ current = Idle
  /\ schedule(q, runnable)
  /\ UNCHANGED <<state, slice, pslice, params, delay, delayed>>

\* A thread blocks in an IPC and switches to the idle thread ...
Block ==
  /\ current # Idle
  /\ state' = [state EXCEPT ![current] = "blocked"]
  /\ current' = Idle
  /\ UNCHANGED <<q, slice, pslice, params, delay, delayed>>

\* ... or to the partner d, whose IPC it has completed.
Handoff(d) ==
  /\ current # Idle /\ d \in blocked
  /\ state' = [state EXCEPT ![current] = "blocked", ![d] = "running"]
  /\ current' = d
  /\ UNCHANGED <<q, slice, pslice, params, delay, delayed>>

\* The end of a send phase: the receiver d runs at once or is queued.
Send(d) ==
  /\ current # Idle /\ d \in blocked
  /\ state' = [state EXCEPT ![d] = "running"]
  /\ IF check_dispatch_thread(current, d)
     THEN current' = d /\ q' = Enq(q, current, FALSE)
     ELSE q' = Enq(q, d, FALSE) /\ UNCHANGED current
  /\ UNCHANGED <<slice, pslice, params, delay, delayed>>

\* SYS_EXCHANGE_REGISTERS halts d, which stays queued.
Stop(d) ==
  /\ current # Idle /\ d \in runnable \ {current}
  /\ state' = [state EXCEPT ![d] = "blocked"]
  /\ UNCHANGED <<current, q, slice, pslice, params, delay, delayed>>

\* The user sets or clears the delayed flag in its UTCB.
SetDelayed ==
  /\ current # Idle /\ Does("delay", current)
  /\ delayed' = IF current \in delayed THEN delayed \ {current} ELSE delayed \cup {current}
  /\ UNCHANGED <<current, state, q, slice, pslice, params, delay>>

\* SYS_THREAD_SWITCH to the runnable thread d.
Donate(d) ==
  /\ current # Idle /\ Does("switch", current) /\ d \in runnable \ {current}
  /\ q' = Enq(q, current, FALSE)
  /\ current' = d
  /\ UNCHANGED <<state, slice, pslice, params, delay, delayed>>

\* SYS_THREAD_SWITCH to nilthread, or to a thread that cannot run.
Yield ==
  LET c == current
      r == Enq(q, c, FALSE)
  IN /\ c # Idle /\ Does("switch", c)
     /\ delay' = [delay EXCEPT ![c] = maxdelay[c]]
     /\ end_of_timeslice(r, c, 0)
     /\ schedule(Rotated(r, c), runnable)
     /\ UNCHANGED <<state, params, delayed>>

(***************************************************************************)
(* SYS_SCHEDULE of d.  Its three arguments are independent, so that a call  *)
(* with several of them is a sequence of these steps.                       *)
(***************************************************************************)
MaySchedule(d) ==
  current # Idle /\ state[d] \in {"running", "blocked"}
                    \cup (IF Does("inactive", d) THEN {"inactive"} ELSE {})

\* set_priority between dequeue_ready and enqueue_ready; mutant:
\* sensitive_prio is not raised
Requeued(d, p) == enqueue(dequeue(q, prio[d], d), p, d, FALSE)
MutSensKept(d, p) == sens
SensAtLeast(d, p) == [sens EXCEPT ![d] = IF @ < p THEN p ELSE @]

SchedulePrio(d, p) ==
  /\ MaySchedule(d) /\ Does("prio", d) /\ p # prio[d]
  /\ q' = Requeued(d, p)
  /\ prio' = [prio EXCEPT ![d] = p]
  /\ sens' = SensAtLeast(d, p)
  /\ UNCHANGED <<current, state, len, slice, pslice, maxdelay, delay, delayed>>

\* The time control word: a fresh total quantum, which is infinite, or a new
\* time slice length.
ScheduleTime(d) ==
  /\ MaySchedule(d) /\ Does("time", d)
  /\ \/ q' = Enq(q, d, FALSE) /\ slice' = [slice EXCEPT ![d] = len[d]] /\ UNCHANGED len
     \/ \E l \in Lengths : /\ len' = [len EXCEPT ![d] = l]
                           /\ slice' = [slice EXCEPT ![d] = l]
                           /\ UNCHANGED q
  /\ UNCHANGED <<current, state, prio, sens, pslice, maxdelay, delay, delayed>>

SchedulePreemption(d, m, p) ==
  /\ MaySchedule(d) /\ Does("delay", d)
  /\ maxdelay' = [maxdelay EXCEPT ![d] = m]
  /\ delay' = [delay EXCEPT ![d] = m]
  /\ sens' = IF p >= prio[d] THEN [sens EXCEPT ![d] = p] ELSE sens
  /\ UNCHANGED <<current, state, q, prio, len, slice, pslice, delayed>>

\* SYS_THREAD_CONTROL: tcb_t::init resets the queue state of the new thread.
Create(t) ==
  /\ current # Idle /\ Does("life", t) /\ state[t] = "none"
  /\ state' = [state EXCEPT ![t] = "inactive"]
  /\ q' = [q EXCEPT !.in = @ \ {t}]
  /\ prio' = [prio EXCEPT ![t] = DefaultPrio]
  /\ sens' = [sens EXCEPT ![t] = DefaultPrio]
  /\ len' = [len EXCEPT ![t] = DefaultLen]
  /\ slice' = [slice EXCEPT ![t] = DefaultLen]
  /\ maxdelay' = [maxdelay EXCEPT ![t] = 0]
  /\ delay' = [delay EXCEPT ![t] = 0]
  /\ delayed' = delayed \ {t}
  /\ UNCHANGED <<current, pslice>>

\* Setting the pager lets the thread wait for its startup message.
Activate(t) ==
  /\ current # Idle /\ state[t] = "inactive"
  /\ state' = [state EXCEPT ![t] = "blocked"]
  /\ UNCHANGED <<current, q, slice, pslice, params, delay, delayed>>

\* delete_tcb: only an activated thread is taken out of the ready queue.
DeletedFrom(t) == IF state[t] = "inactive" THEN q ELSE dequeue(q, prio[t], t)
Delete(t) ==
  /\ current \notin {Idle, t} /\ Does("life", t) /\ state[t] # "none"
  /\ q' = DeletedFrom(t)
  /\ state' = [state EXCEPT ![t] = "none"]
  /\ UNCHANGED <<current, slice, pslice, params, delay, delayed>>

Ticks == \E order \in SetToAllKPermutations(blocked) \cup {<< >>} :
           Timer(order) \/ TimerIdle(order)

Next == \/ Ticks \/ IdleSchedule
        \/ Block \/ SetDelayed \/ Yield
        \/ \E d \in Threads :
             \/ Handoff(d) \/ Send(d) \/ Stop(d) \/ Donate(d)
             \/ ScheduleTime(d)
             \/ \E p \in Prios : SchedulePrio(d, p)
             \/ \E m \in Delays, p \in Prios : SchedulePreemption(d, m, p)
             \/ Create(d) \/ Activate(d) \/ Delete(d)

Spec == Init /\ [][Next]_vars

\* The timer keeps ticking and the idle thread keeps looking for work.
Fairness == WF_vars(Ticks) /\ WF_vars(IdleSchedule)
FairSpec == Spec /\ Fairness
-----------------------------------------------------------------------------
TypeOK == /\ current \in Threads \cup {Idle}
          /\ state \in [Threads -> States]
          /\ q.head \in [Prios -> Threads \cup {Null}]
          /\ q.next \in [Threads -> Threads \cup {Null}]
          /\ q.prev \in [Threads -> Threads \cup {Null}]
          /\ q.in \subseteq Threads /\ q.max \in Prios \cup {-1}
          /\ prio \in [Threads -> Prios] /\ sens \in [Threads -> Prios]
          /\ len \in [Threads -> Nat] /\ slice \in [Threads -> Int]
          /\ pslice \in Int
          /\ maxdelay \in [Threads -> Nat] /\ delay \in [Threads -> Nat]
          /\ delayed \subseteq Threads

(***************************************************************************)
(* The ring of every priority, walked from its head, meets exactly the      *)
(* queued threads of that priority, and prev undoes next: ENQUEUE_LIST_*,   *)
(* DEQUEUE_LIST and set() of end_of_timeslice never tear a ring apart, and  *)
(* no change of priority leaves a thread in the wrong one.                  *)
(***************************************************************************)
RingsExact ==
  /\ \A p \in Prios : Ring(q, p) = {t \in q.in : prio[t] = p}
  /\ \A t \in q.in : q.next[q.prev[t]] = t /\ q.prev[q.next[t]] = t

(***************************************************************************)
(* max_prio is never below a queued thread: find_next_thread starts its     *)
(* search there and would miss the thread for ever.                         *)
(***************************************************************************)
HintCovers == \A t \in q.in : prio[t] <= q.max

(***************************************************************************)
(* ASSERT(tcb->queue_state.is_set(queue_state_t::ready)) in                 *)
(* find_next_thread: every thread it can meet in a ring is marked as queued.*)
(* It takes an unmarked thread out again and again.                         *)
(***************************************************************************)
MetAreQueued == \A p \in Prios : Ring(q, p) \subseteq q.in

(***************************************************************************)
(* RunQueue implements the ready set that Kernel is built on: the search    *)
(* finds a runnable thread of the highest priority, loses none and drops    *)
(* blocked threads only, and a timer tick within a time slice hands the     *)
(* processor upwards only.  The last needs sensitive_prio to stay in sync   *)
(* with the priority, since delay_preemption looks at nothing else.         *)
(***************************************************************************)
Set == INSTANCE ReadySet WITH run <- runnable, ready <- q.in
ImplementsReadySet == Set!Spec

(***************************************************************************)
(* Round robin: a thread that can run and has the highest priority runs     *)
(* again and again, provided that time slices are finite, nobody delays     *)
(* preemptions, and the order of the rings is not for ever overruled: by    *)
(* passing the processor on in an IPC or SYS_THREAD_SWITCH, or by new       *)
(* priorities, which put a thread at the end of a ring.                     *)
(***************************************************************************)
Waits(t) == /\ t \in runnable /\ delayed = {}
            /\ \A u \in runnable : prio[u] <= prio[t] /\ len[u] # 0
Overruled == \E d \in Threads : \/ Handoff(d) \/ Donate(d)
                               \/ \E p \in Prios : SchedulePrio(d, p)
RoundRobin ==
  \A t \in Threads :
    <>[]Waits(t) => ([]<>(current = t) \/ []<><<Overruled>>_vars)

(***************************************************************************)
(* "defacto disable delayed preemptions": a thread whose maximal delay is   *)
(* zero does not keep the processor after its time slice.                   *)
(***************************************************************************)
NoDelayGranted ==
  (current # Idle /\ len[current] # 0 /\ maxdelay[current] = 0) => pslice >= 0
=============================================================================
