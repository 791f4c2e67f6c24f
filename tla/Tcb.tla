--------------------------------- MODULE Tcb ---------------------------------
(***************************************************************************)
(* The thread control blocks of the uniprocessor kernel: the fields of      *)
(* tcb_t that IPC, scheduling and thread control share, the thread states   *)
(* of threadstate.h, the three queues a thread can be in (ready, wakeup,    *)
(* send), switching between threads and unwinding a thread from an IPC.     *)
(*                                                                          *)
(* The kernel runs with interrupts off from a kernel entry to the next      *)
(* return to user level or thread switch.  A thread whose pc is not "user"  *)
(* is inside the kernel; when it is the current thread, continuing it is    *)
(* the only possible step.  A thread that is not current keeps in pc the    *)
(* place where its kernel stack resumes.                                    *)
(***************************************************************************)
EXTENDS Integers, Sequences, FiniteSets, Functions

CONSTANTS Threads,   \* the user threads
          Idle,      \* the idle thread
          Nil,       \* threadid_t::nilthread()
          AnyThread,       \* threadid_t::anythread()
          AnyLocal,  \* threadid_t::anylocalthread()
          Bad,       \* an id no thread has (wrong version number)
          Prio,      \* tcb_t::priority
          Space,     \* tcb_t::space
          Pager,     \* utcb_t::pager
          Privileged,\* the spaces of sigma0, sigma1 and the root task
          Env        \* what the user programs do, see Does

ASSUME TcbAssumption ==
  /\ Idle \notin Threads
  /\ {Nil, AnyThread, AnyLocal, Bad} \cap Threads = {}
  /\ Idle \notin {Nil, AnyThread, AnyLocal, Bad}
  /\ Cardinality({Nil, AnyThread, AnyLocal, Bad}) = 4
  /\ Prio \in [Threads -> Nat]
  /\ Pager \in [Threads -> Threads]

VARIABLES current,    \* get_current_tcb()
          state,      \* tcb_t::thread_state
          partner,    \* tcb_t::partner
          sstate,     \* tcb_t::saved_state
          spartner,   \* tcb_t::saved_partner
          ready,      \* threads with queue_state_t::ready set
          wakeup,     \* threads with queue_state_t::wakeup set
          sendq,      \* the ring send_head of every thread, head first
          pc,         \* where the kernel stack of every thread resumes
          arg,        \* the arguments of the sys_ipc it is executing
          outer,      \* those of the IPC whose copy raised the pagefault it sends
          xfer,       \* threads with tcb_t::has_xfer_timeout set
          tstate,     \* the argument of a pending handle_ipc_timeout
          alive,      \* threads that exist and are activated
          failed      \* assertions of the source that a step has violated

vars == <<current, state, partner, sstate, spartner, ready, wakeup, sendq,
          pc, arg, outer, xfer, tstate, alive, failed>>

\* Environment switches: every system call or event the users may cause is
\* guarded by one, so that a run can leave it out.
Does(what) == what \in Env

ids == Threads \cup {Nil, AnyThread, AnyLocal, Bad}
-----------------------------------------------------------------------------
(* threadstate.h *)
BlockedStates  == {"waiting_forever", "waiting_timeout", "locked_waiting",
                   "polling", "halted", "aborted"}
RunnableStates == {"running", "locked_running", "locked_running_ipc_done"}
ThreadStates   == BlockedStates \cup RunnableStates

is_runnable(s)  == s \in RunnableStates
is_waiting(s)   == s \in {"waiting_forever", "waiting_timeout"}
is_sending(s)   == s \in {"polling", "locked_running"}
is_receiving(s) == s \in {"waiting_forever", "waiting_timeout", "locked_waiting"}

(***************************************************************************)
(* Where a kernel stack resumes: at user level; in a phase of sys_ipc; after*)
(* one of its switch_to calls ("polled", "special", "rcvwait", "lockwait"); *)
(* in thread_startup; in a handler put on the stack by notify(); or in the  *)
(* loop of irq_thread, before and after its switch_to.                      *)
(***************************************************************************)
PCs == {"user", "send", "xfer", "copy", "snddone", "recv",
        "polled", "special", "rcvwait", "lockwait",
        "startup", "error", "timeout", "irq", "acked"}

Timeouts == {"zero", "finite", "never"}

\* kind: a system call or a pagefault IPC; typed: the message has typed items.
Args == [kind : {"none", "user", "pf"}, to : ids, from : ids, sid : ids,
         snd : Timeouts, rcv : Timeouts, typed : BOOLEAN]

NoArg == [kind |-> "none", to |-> Nil, from |-> Nil, sid |-> Nil,
          snd |-> "never", rcv |-> "never", typed |-> FALSE]

\* DEQUEUE_LIST of t from the send queue s; mutant: the queue keeps t.
MutStaysQueued(s, t) == s
Without(s, t) ==
  IF t \notin Range(s) THEN s
  ELSE LET i == CHOOSE i \in DOMAIN s : s[i] = t
       IN [j \in 1 .. Len(s) - 1 |-> IF j < i THEN s[j] ELSE s[j + 1]]

\* A place where the timer interrupt is taken and system calls start.
AtUser(t)  == current = t /\ pc[t] = "user" /\ failed = {}
InKernel(t, where) == current = t /\ pc[t] = where /\ failed = {}

\* get_tcb(tid)->get_global_id() == tid
Exists(tid) == tid \in alive
-----------------------------------------------------------------------------
(* Scheduling primitives *)

\* scheduler_t::check_dispatch_thread; no thread delays its preemption here.
check_dispatch_thread(a, b) == Prio[a] < Prio[b]

\* set_timeout, when the timeout of the phase asks for one; mutant: never armed.
MutNotArmed(t, timeout) == wakeup
Armed(t, timeout) == IF timeout = "finite" THEN wakeup \cup {t} ELSE wakeup

\* cancel_timeout; mutant: the timeout stays.
MutStillArmed(t) == wakeup
Cancelled(t) == wakeup \ {t}

\* enqueue_ready of the thread that switches away; mutant: forgotten.
MutNotEnqueued(t) == ready
Enqueued(t) == ready \cup {t}

\* The runnable threads of highest priority in the ready queue rs.
TopRunnable(rs, st) ==
  {x \in rs : is_runnable(st[x]) /\ \A y \in rs : is_runnable(st[y]) => Prio[y] <= Prio[x]}

(***************************************************************************)
(* scheduler_t::find_next_thread picks x in the queue rs, after taking out  *)
(* the blocked threads it meets first: all those of higher priority, and    *)
(* those of x's priority that are ahead of x.                               *)
(***************************************************************************)
find_next_thread(rs, st, x, rest) ==
  IF \A y \in rs : ~is_runnable(st[y])
  THEN x = Idle /\ rest = {}
  ELSE /\ x \in TopRunnable(rs, st)
       /\ \E ahead \in SUBSET {y \in rs : ~is_runnable(st[y]) /\ Prio[y] = Prio[x]} :
            rest = rs \ (ahead \cup {y \in rs : ~is_runnable(st[y]) /\ Prio[y] > Prio[x]})

\* scheduler_t::schedule of the current thread t, already in the queue rs.
schedule(t, rs, st) ==
  \E x \in Threads \cup {Idle}, rest \in SUBSET rs :
     /\ find_next_thread(rs, st, x, rest)
     /\ current' = x
     /\ ready' = IF x # t /\ t # Idle THEN rest \cup {t} ELSE rest
-----------------------------------------------------------------------------
(***************************************************************************)
(* tcb_t::unwind takes t, in state s, out of its IPC; every caller sets the *)
(* state of t itself afterwards.  When t was sending the pagefault of an    *)
(* interrupted copy, restore_state brings back the state of that copy and   *)
(* the loop unwinds it too.                                                 *)
(***************************************************************************)
NotStarted(s) == is_waiting(s) \/ s = "polling"

UnwoundWakeup(t, s) == IF NotStarted(s) THEN Cancelled(t) ELSE wakeup

\* mutant: the sender is left in the queue
MutNotDequeued(t, s) == sendq
UnwoundSendq(t, s) ==
  IF s = "polling" /\ partner[t] \in Threads
  THEN [sendq EXCEPT ![partner[t]] = Without(@, t)] ELSE sendq

\* ASSERT(queue_state.is_set(queue_state_t::send)) in dequeue_send
DequeueFails(t, s) ==
  IF s = "polling" /\ ~(partner[t] \in Threads /\ t \in Range(sendq[partner[t]]))
  THEN {"dequeue_send"} ELSE {}

\* A pagefault IPC inside another IPC.
Nested(t) == spartner[t] # Nil

\* The partner p that is aborted with t in state s and told by
\* notify(handle_ipc_error).
AbortedBy(t, s, p) ==
  CASE s = "locked_running" -> {x \in Threads \cap {p} :
                                   state[x] = "locked_waiting" /\ partner[x] = t}
    [] s = "locked_waiting" -> {x \in Threads \cap {p} : state[x] = "locked_running"}
    [] OTHER -> {}

Aborted(t, s) ==
  AbortedBy(t, s, partner[t])
    \cup IF Nested(t) THEN AbortedBy(t, sstate[t], spartner[t]) ELSE {}

\* restore_state; mutant: it keeps the saved partner
UnwoundPartner(t) == IF Nested(t) THEN [partner EXCEPT ![t] = spartner[t]] ELSE partner
UnwoundSstate(t) == IF Nested(t) THEN [sstate EXCEPT ![t] = "aborted"] ELSE sstate
MutSavedPartnerKept(t) == spartner
UnwoundSpartner(t) == [spartner EXCEPT ![t] = Nil]
=============================================================================
