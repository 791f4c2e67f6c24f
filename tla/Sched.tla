-------------------------------- MODULE Sched --------------------------------
(***************************************************************************)
(* The events that make the uniprocessor kernel choose another thread: the  *)
(* timer interrupt with its IPC timeouts and time slices, the idle thread,  *)
(* and SYS_THREAD_SWITCH.  Time is not kept: at every tick any set of the   *)
(* pending timeouts, and the time slice, may turn out to have expired.      *)
(***************************************************************************)
EXTENDS Tcb

\* parse_wakeup_queues drops the expired timeout of a thread waiting forever,
\* unless it is the transfer timeout of a copy.
Woken(exp) == {x \in exp : state[x] # "waiting_forever" \/ x \in xfer}

\* The woken threads whose stack gets handle_ipc_timeout from notify().
Notified(exp) == {x \in Woken(exp) : is_sending(state[x]) \/ is_receiving(state[x])}

WokenState(exp) == [x \in Threads |-> IF x \in Woken(exp) THEN "running" ELSE state[x]]

\* mutant: the expired timeouts stay in the wakeup queue
MutStillPending(exp) ==
  /\ wakeup' = wakeup
  /\ state' = WokenState(exp)
  /\ pc' = [x \in Threads |-> IF x \in Notified(exp) THEN "timeout" ELSE pc[x]]
  /\ tstate' = [x \in Threads |-> IF x \in Notified(exp) THEN state[x] ELSE tstate[x]]
  /\ xfer' = xfer \ Woken(exp)

parse_wakeup_queues(exp) ==
  /\ wakeup' = wakeup \ exp
  /\ state' = WokenState(exp)
  /\ pc' = [x \in Threads |-> IF x \in Notified(exp) THEN "timeout" ELSE pc[x]]
  /\ tstate' = [x \in Threads |-> IF x \in Notified(exp) THEN state[x] ELSE tstate[x]]
  /\ xfer' = xfer \ Woken(exp)

\* highest_wakeup: the woken threads that may preempt t.
Preempting(t, exp) ==
  {x \in Woken(exp) : check_dispatch_thread(t, x) /\ \A y \in Woken(exp) : Prio[y] <= Prio[x]}

\* handle_timer_interrupt while t runs.
Timer(t) ==
  \E exp \in SUBSET wakeup :
    /\ AtUser(t) /\ parse_wakeup_queues(exp)
    /\ \/ /\ Preempting(t, exp) = {}
          /\ ready' = ready \cup Woken(exp)
          /\ UNCHANGED current
       \/ /\ current' \in Preempting(t, exp)
          /\ ready' = ready \cup Woken(exp) \cup {t}
       \/ \* end_of_timeslice
          schedule(t, ready \cup Woken(exp) \cup {t}, WokenState(exp))
    /\ UNCHANGED <<partner, sstate, spartner, sendq, arg, outer, alive, failed>>

\* handle_timer_interrupt in the idle thread, which schedules by itself.
TimerIdle ==
  /\ current = Idle /\ failed = {}
  /\ \E exp \in SUBSET wakeup :
       /\ exp # {} /\ parse_wakeup_queues(exp)
       /\ ready' = ready \cup Woken(exp)
  /\ UNCHANGED <<current, partner, sstate, spartner, sendq, arg, outer, alive, failed>>

\* One round of idle_thread.
IdleSchedule ==
  /\ current = Idle /\ failed = {}
  /\ schedule(Idle, ready, state)
  /\ UNCHANGED <<state, partner, sstate, spartner, wakeup, sendq, pc, arg, outer, xfer,
                 tstate, alive, failed>>

\* The threads SYS_THREAD_SWITCH donates the time slice of t to.
Donees(t) == {d \in alive \ {t} : is_runnable(state[d])}

ThreadSwitch(t) ==
  /\ AtUser(t) /\ Does("switch")
  /\ \/ current' \in Donees(t) /\ ready' = Enqueued(t)
     \/ schedule(t, ready \cup {t}, state)
  /\ UNCHANGED <<state, partner, sstate, spartner, wakeup, sendq, pc, arg, outer, xfer,
                 tstate, alive, failed>>
=============================================================================
