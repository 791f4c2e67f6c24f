------------------------------- MODULE Kernel -------------------------------
(***************************************************************************)
(* The uniprocessor kernel: IPC, scheduling, exchange of registers and      *)
(* thread deletion and creation over the same thread control blocks.        *)
(***************************************************************************)
EXTENDS Ipc, ExRegs, Sched, ThreadLife

\* After start-up: every thread runs at user level and waits for the processor.
Init ==
  /\ current = Idle
  /\ state = [t \in Threads |-> "running"]
  /\ partner = [t \in Threads |-> Nil]
  /\ sstate = [t \in Threads |-> "aborted"]
  /\ spartner = [t \in Threads |-> Nil]
  /\ ready = Threads
  /\ wakeup = {}
  /\ sendq = [t \in Threads |-> <<>>]
  /\ pc = [t \in Threads |-> "user"]
  /\ arg = [t \in Threads |-> NoArg]
  /\ outer = [t \in Threads |-> NoArg]
  /\ xfer = {}
  /\ tstate = [t \in Threads |-> "running"]
  /\ alive = Threads
  /\ failed = {}

Next ==
  \/ \E t \in Threads : \/ IpcNext(t) \/ ExchangeRegisters(t)
                        \/ Timer(t) \/ ThreadSwitch(t)
                        \/ DeleteThread(t) \/ CreateThread(t)
  \/ TimerIdle \/ IdleSchedule

Spec == Init /\ [][Next]_vars
-----------------------------------------------------------------------------
\* Every field of the thread control blocks holds a value of its C++ type.
TypeOK ==
  /\ current \in Threads \cup {Idle}
  /\ state \in [Threads -> ThreadStates]
  /\ partner \in [Threads -> ids]
  /\ sstate \in [Threads -> ThreadStates]
  /\ spartner \in [Threads -> ids]
  /\ ready \subseteq Threads
  /\ wakeup \subseteq Threads
  /\ sendq \in [Threads -> Seq(Threads)]
  /\ pc \in [Threads -> PCs]
  /\ arg \in [Threads -> Args]
  /\ outer \in [Threads -> Args]
  /\ xfer \subseteq Threads
  /\ tstate \in [Threads -> ThreadStates]
  /\ alive \subseteq Threads

\* No ASSERT of the queue operations and of save_state fails, no thread leaves
\* a pagefault through the system call exit.
NoAssertionFails == failed = {}

\* No thread is lost: one that may run is in the ready queue or is running, so
\* find_next_thread will find it (schedule.cc, every enqueue_ready before a switch).
NoLostThread ==
  \A t \in Threads : is_runnable(state[t]) => t \in ready \cup {current}

\* The threads that must take themselves out of a send queue.
IsQueued(t) ==
  \/ state[t] = "polling"
  \/ state[t] = "locked_running" /\ pc[t] \in {"polled", "irq"}
  \/ pc[t] = "timeout" /\ tstate[t] = "polling"

\* A send queue holds, once each, exactly the threads that poll on its owner, have
\* been accepted by it but not run yet, or timed out and not run yet.
SendQueueExact ==
  \A t, r \in Threads :
     /\ t \in Range(sendq[r]) <=> IsQueued(t) /\ partner[t] = r
     /\ \A i, j \in DOMAIN sendq[r] : sendq[r][i] = sendq[r][j] => i = j

\* r, in its receive phase, asked for a message of s (coming from t).
AskedFor(r, s, t) ==
  LET from == IF pc[r] = "startup" THEN Pager[r] ELSE arg[r].from
  IN from \in {s, AnyThread} \/ (from = AnyLocal /\ Space[r] = Space[t])

\* A message is transferred only to a thread that asked for its sender: one that
\* still waits, or one that is locked by its own receive and found the sender queued.
Rendezvous ==
  \A t \in Threads : pc[t] = "xfer" =>
     LET r == arg[t].to IN
     \/ is_waiting(state[r]) /\ AskedFor(r, arg[t].sid, t)
     \/ /\ state[r] = "locked_waiting" /\ state[t] = "locked_running"
        /\ AskedFor(r, t, t)

\* s is in its send phase to r: queued and accepted, transferring, or waiting for
\* its pager in the middle of the copy.
SendsTo(s, r) ==
  \/ /\ state[s] = "locked_running" /\ arg[s].to = r
     /\ pc[s] \in {"polled", "irq", "xfer", "copy", "snddone", "recv"}
  \/ HasOuter(s) /\ outer[s].to = r /\ spartner[s] = r

\* handle_ipc_timeout is about to abort the transfer from s to r.
AbortsFor(s, r) == pc[s] = "timeout" /\ tstate[s] = "locked_running" /\ partner[s] = r

\* No receiver stays locked: it is about to run, its sender is in the send phase,
\* or the abort of that phase is pending (thread.cc: "Abort both threads").
LockedPair ==
  \A r \in Threads : state[r] = "locked_waiting" /\ r # current =>
     \E s \in Threads : SendsTo(s, r) \/ AbortsFor(s, r)

\* While a copy is in progress both sides are locked (the assertions of
\* handle_xfer_timeouts), over pagefaults, overflows and timeouts of the transfer.
CopyLocked ==
  \A t \in Threads : pc[t] = "copy" =>
     state[t] = "locked_running" /\ state[arg[t].to] = "locked_waiting"

\* r has its message: it runs, or the thread that sent it is about to activate it.
HasMessage(r) ==
  \/ r = current
  \/ current # Idle /\ pc[current] \in {"snddone", "recv"} /\ arg[current].to = r

\* Sender and receiver never wait for each other: no thread polls on one that
\* waits, would accept it and has no message yet.
NoMissedRendezvous ==
  \A s, r \in Threads :
     state[s] = "polling" /\ partner[s] = r /\ arg[s].sid = s
     /\ is_waiting(state[r]) /\ AskedFor(r, s, s)
       => HasMessage(r)

\* A thread that waits is registered as waiting for the partner it asked for: a
\* message, once delivered, ends the wait.  (Until its sender leaves the kernel the
\* receiver is still marked as waiting.)
DeliveryEndsWait ==
  \A r \in Threads : is_waiting(state[r]) =>
     \/ partner[r] = IF pc[r] = "startup" THEN Pager[r] ELSE arg[r].from
     \/ HasMessage(r)

\* An aborted pagefault IPC ends by restoring the state before the pagefault,
\* never by returning from a system call the thread did not make.
PagefaultRestored == "exit from IPC" \notin failed

\* No saved state survives the end of a pagefault IPC or of a startup: the next
\* save_state, and the test for a nested IPC in unwind, rely on it.
SavedStateClean ==
  \A t \in alive : pc[t] = "user" => sstate[t] = "aborted" /\ spartner[t] = Nil

\* Back at user level a thread is running, or was halted there (ipc.cc: "make sure
\* we are running before potentially exiting to user").
UserLevelRuns ==
  \A t \in alive : pc[t] = "user" => state[t] \in {"running", "halted"}

\* A thread waiting with a timeout has one pending.
TimeoutArmed ==
  \A t \in Threads :
     state[t] = "waiting_timeout" \/ (state[t] = "polling" /\ arg[t].snd = "finite")
       => t \in wakeup

\* A pending timeout belongs to a thread blocked in its IPC, or to one that runs
\* right now and is about to cancel it: none expires for a thread that was activated
\* and has yet to run, or for one that was stopped, which it would resume.
NoStaleTimeout ==
  \A t \in wakeup : is_runnable(state[t]) \/ state[t] \in {"halted", "aborted"} => t = current

\* A deleted thread is in no queue of the kernel.
DeletedLeavesQueues ==
  \A d \in Threads \ alive :
     d \notin ready \cup wakeup /\ \A r \in Threads : d \notin Range(sendq[r])

\* The timer never resumes a halted thread and never runs a deleted one.
StoppedStaysStopped ==
  [][\A t \in wakeup : state[t] \in {"halted", "aborted"} => state'[t] # "running"]_vars
-----------------------------------------------------------------------------
(***************************************************************************)
(* Fairness.  The kernel runs every entry to its end; interrupts are on in  *)
(* user mode and in the idle thread, so a pending timeout that keeps being  *)
(* due is taken; the round-robin queue of a priority level gives every      *)
(* runnable thread of the top level its turn.                               *)
(***************************************************************************)
KernelStep(t) == pc[t] # "user" /\ IpcNext(t)

Tick == TimerIdle \/ \E u \in Threads : Timer(u)

Expire(t) == Tick /\ t \in wakeup /\ t \notin wakeup'

Dispatch(t) == current # t /\ (Tick \/ IdleSchedule) /\ current' = t

FairSpec ==
  /\ Spec
  /\ \A t \in Threads : WF_vars(KernelStep(t)) /\ SF_vars(Expire(t)) /\ SF_vars(Dispatch(t))

\* An IPC phase that blocks with a finite timeout ends: with a message, or with
\* the timeout.
TimeoutEndsWait ==
  \A t \in Threads :
     state[t] = "waiting_timeout" \/ (state[t] = "polling" /\ arg[t].snd = "finite")
       ~> pc[t] = "user" \/ state[t] \in {"waiting_forever", "locked_waiting"}
=============================================================================
