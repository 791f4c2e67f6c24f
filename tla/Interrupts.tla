------------------------------ MODULE Interrupts ------------------------------
(***************************************************************************)
(* Interrupts as IPC (api/backup/interrupt.cc), next to everything else the *)
(* kernel does.  Every line has a kernel thread: it is halted while the     *)
(* line is enabled, sends the interrupt to its handler, and waits for the   *)
(* acknowledgement, which enables the line again.  handle_interrupt stands  *)
(* in for the thread as long as it can: the thread runs only to send an     *)
(* interrupt that found its handler busy, and after the acknowledgement.    *)
(* The lines are edge-triggered: masking one does not reach the hardware,   *)
(* and an interrupt of a masked line is remembered by the controller        *)
(* (glue/v4-ia64/intctrl.cc), or should be (platform/generic/intctrl-apic.cc).*)
(***************************************************************************)
EXTENDS Kernel

CONSTANT Irqs   \* the interrupt threads

\* create_kernel_thread and set_priority(MAX_PRIO): they have the kernel's space and
\* nobody is more important.
ASSUME IrqAssumption ==
  /\ Irqs \subseteq Threads
  /\ \A i \in Irqs, t \in Threads : Prio[t] <= Prio[i]
  /\ \A i \in Irqs, t \in Threads \ Irqs : Space[t] # Space[i]

VARIABLES handler,  \* tcb_t::get_irq_handler of the interrupt threads
          masked,   \* intctrl_t: redir[irq].entry.mask
          pending,  \* intctrl_t: redir[irq].pending
          due       \* history: the lines whose device has raised an interrupt since the
                    \* handler was last told of one

irqvars == <<vars, handler, masked, pending, due>>

\* After start-up: every interrupt thread has been created by its first
\* thread_control_interrupt and all lines are detached.
IrqInit ==
  /\ current = Idle
  /\ state = [t \in Threads |-> IF t \in Irqs THEN "aborted" ELSE "running"]
  /\ partner = [t \in Threads |-> Nil]
  /\ sstate = [t \in Threads |-> "aborted"]
  /\ spartner = [t \in Threads |-> Nil]
  /\ ready = Threads \ Irqs
  /\ wakeup = {}
  /\ sendq = [t \in Threads |-> <<>>]
  /\ pc = [t \in Threads |-> IF t \in Irqs THEN "irq" ELSE "user"]
  /\ arg = [t \in Threads |-> NoArg]
  /\ outer = [t \in Threads |-> NoArg]
  /\ xfer = {}
  /\ tstate = [t \in Threads |-> "running"]
  /\ alive = Threads
  /\ failed = {}
  /\ handler = [i \in Irqs |-> i]
  /\ masked = Irqs
  /\ pending = {}
  /\ due = {}

\* queue_state.is_set(queue_state_t::send)
Queued(i) == \E r \in Threads : i \in Range(sendq[r])
-----------------------------------------------------------------------------
\* The handler waits for this interrupt, or for anything.  Mutant: any waiting
\* handler will do.
MutWaitsAtAll(i, h) == h \in alive /\ is_waiting(state[h])
IsWaitingFor(i, h) == h \in alive /\ is_waiting(state[h]) /\ partner[h] \in {i, AnyThread}

(***************************************************************************)
(* handle_interrupt(i), where c is the current thread, in a step that makes *)
(* next the current thread if nobody is switched to.  An aborted interrupt  *)
(* thread has been detached meanwhile; its interrupt is spurious, ignored.  *)
(***************************************************************************)
\* The handler does not exist.
NotDelivered(i, next) ==
  /\ ~Exists(handler[i])
  /\ state' = [state EXCEPT ![i] = "aborted"]
  /\ current' = next
  /\ due' = due \cup {i}
  /\ UNCHANGED <<partner, ready, sendq>>

\* The shortcut: the message is delivered on behalf of the interrupt thread,
\* which waits for the acknowledgement.
Delivered(i, c, next) ==
  LET h == handler[i] IN
  /\ Exists(h) /\ IsWaitingFor(i, h)
  /\ partner' = [partner EXCEPT ![i] = h, ![h] = i]
  /\ \/ /\ c # Idle => check_dispatch_thread(c, h)
        /\ state' = [state EXCEPT ![i] = "waiting_forever"]
        /\ ready' = ready \cup ({c} \ {Idle})
        /\ current' = h
     \/ /\ c # Idle /\ ~check_dispatch_thread(c, h)
        /\ state' = [state EXCEPT ![i] = "waiting_forever", ![h] = "running"]
        /\ ready' = ready \cup {h}
        /\ current' = next
  /\ due' = due \ {i}
  /\ UNCHANGED sendq

\* The handler is busy: the interrupt thread queues up with it.
Deferred(i, next) ==
  LET h == handler[i] IN
  /\ Exists(h) /\ ~IsWaitingFor(i, h)
  /\ partner' = [partner EXCEPT ![i] = h]
  /\ state' = [state EXCEPT ![i] = "polling"]
  /\ sendq' = [sendq EXCEPT ![h] = Append(@, i)]
  /\ current' = next
  /\ due' = due \cup {i}
  /\ UNCHANGED ready

\* ASSERT(irq_tcb->get_state().is_halted()), and the one of enqueue_send; st is
\* the state of the interrupt thread.
HandleFails(i, st) ==
  {m \in {"irq_halted", "enqueue_send"} :
     /\ st # "aborted"
     /\ \/ m = "irq_halted" /\ st # "halted"
        \/ m = "enqueue_send" /\ Exists(handler[i]) /\ ~IsWaitingFor(i, handler[i]) /\ Queued(i)}

handle_interrupt(i, c, next) ==
  /\ state[i] # "aborted"
  /\ NotDelivered(i, next) \/ Delivered(i, c, next) \/ Deferred(i, next)
-----------------------------------------------------------------------------
(* intctrl_t *)

\* Interrupts are on at user level and in the idle thread.
InterruptsOn == failed = {} /\ (current # Idle => pc[current] = "user")

\* handle_irq of a line that is not masked.  Mutant: nor is it afterwards.
MutNotMasked(i) == masked
Masked(i) == masked \cup {i}
Raise(i) ==
  /\ InterruptsOn /\ i \notin masked
  /\ handle_interrupt(i, current, current)
  /\ failed' = HandleFails(i, state[i])
  /\ masked' = Masked(i)
  /\ UNCHANGED <<sstate, spartner, wakeup, pc, arg, outer, xfer, tstate, alive, handler, pending>>

\* handle_irq of a masked line.  The one of the APIC returns before it gets to
\* "edge triggered IRQs are marked as pending if masked".
MarkedPending(i) == IF Does("apic") THEN pending ELSE pending \cup {i}
RaiseMasked(i) ==
  /\ InterruptsOn /\ i \in masked /\ handler[i] # i
  /\ pending' = MarkedPending(i)
  /\ due' = due \cup {i}
  /\ UNCHANGED <<vars, handler, masked>>
-----------------------------------------------------------------------------
(* irq_thread *)

\* Accepted by the handler: leave its send queue and deliver.
IrqSend(i) ==
  LET h == handler[i] IN
  /\ InKernel(i, "irq") /\ Queued(i)
  /\ sendq' = [sendq EXCEPT ![h] = Without(@, i)]
  /\ failed' = IF i \in Range(sendq[h]) THEN {} ELSE {"dequeue_send"}
  /\ partner' = [partner EXCEPT ![h] = i, ![i] = h]
  /\ state' = [state EXCEPT ![i] = "waiting_forever"]
  /\ pc' = [pc EXCEPT ![i] = "acked"]
  /\ current' = h
  /\ due' = due \ {i}
  /\ UNCHANGED <<sstate, spartner, ready, wakeup, arg, outer, xfer, tstate, alive,
                 handler, masked, pending>>

\* What unmask returns: whether an interrupt has arrived while the line was masked.
\* Mutant: it enables the line anyway.
MutEnabledAnyway(i) == FALSE
unmask(i) == i \in pending

(***************************************************************************)
(* Acknowledged: unmask enables the line again, unless an interrupt is      *)
(* pending; that one is handled at once, before the thread switches to the  *)
(* idle thread.                                                             *)
(***************************************************************************)
IrqAcked(i) ==
  /\ InKernel(i, "acked") \/ (InKernel(i, "irq") /\ ~Queued(i))
  /\ pc' = [pc EXCEPT ![i] = "irq"]
  /\ \/ /\ ~unmask(i)
        /\ state' = [state EXCEPT ![i] = "halted"]
        /\ masked' = masked \ {i}
        /\ current' = Idle
        /\ failed' = {}
        /\ UNCHANGED <<partner, ready, sendq, pending, due>>
     \/ /\ unmask(i)
        /\ handle_interrupt(i, i, Idle)
        /\ failed' = HandleFails(i, "halted")
        /\ pending' = pending \ {i}
        /\ UNCHANGED masked
  /\ UNCHANGED <<sstate, spartner, wakeup, arg, outer, xfer, tstate, alive, handler>>
-----------------------------------------------------------------------------
\* thread_control_interrupt takes an interrupt that waits for its handler out of
\* the send queue.  Mutant: it stays there.
MutStillQueued(i) == sendq
Unqueued(i) == IF state[i] = "polling" THEN [sendq EXCEPT ![partner[i]] = Without(@, i)] ELSE sendq

\* The IPC of the loop of irq_thread: a call to the handler, without timeouts.
IrqCall(i, h) == IF h = i THEN NoArg ELSE [NoArg EXCEPT !.to = h, !.from = h, !.sid = i]

\* Left out of a run unless its Env says so (README): the interrupt thread is
\* in the middle of its loop, where it takes any activation for an acknowledgement.
UsualAttach(i) == pc[i] = "acked" => Does("reattach")

(***************************************************************************)
(* thread_control_interrupt, from SYS_THREAD_CONTROL of a privileged thread *)
(* t: h becomes the handler of i, whether such a thread exists or not, and  *)
(* i itself detaches the line.  The new handler is told of what comes from  *)
(* now on; enable leaves a mark of a pending interrupt, disable clears it.  *)
(***************************************************************************)
AttachInterrupt(t, i, h) ==
  /\ AtUser(t) /\ Does("attach") /\ Space[t] \in Privileged
  /\ h # handler[i]
  /\ UsualAttach(i)
  /\ sendq' = Unqueued(i)
  /\ failed' = DequeueFails(i, state[i])
  /\ handler' = [handler EXCEPT ![i] = h]
  /\ arg' = [arg EXCEPT ![i] = IrqCall(i, h)]
  /\ state' = [state EXCEPT ![i] = IF h = i THEN "aborted" ELSE "halted"]
  /\ IF h = i
     THEN masked' = masked \cup {i} /\ pending' = pending \ {i}
     ELSE masked' = masked \ {i} /\ UNCHANGED pending
  /\ due' = due \ {i}
  /\ UNCHANGED <<current, partner, sstate, spartner, ready, wakeup, pc, outer, xfer, tstate, alive>>

IrqNext ==
  \/ Next /\ UNCHANGED <<handler, masked, pending, due>>
  \/ \E i \in Irqs :
       \/ Raise(i) \/ RaiseMasked(i) \/ IrqSend(i) \/ IrqAcked(i)
       \/ \E t \in Threads \ Irqs, h \in (Threads \ Irqs) \cup {i, Bad} : AttachInterrupt(t, i, h)

IrqSpec == IrqInit /\ [][IrqNext]_irqvars
-----------------------------------------------------------------------------
\* The interrupt of i is on its way: it waits for the handler, the handler has
\* accepted it, it was delivered and waits for the acknowledgement, or it has that.
InService(i) ==
  \/ state[i] \in {"polling", "locked_running"} /\ i \in Range(sendq[handler[i]])
  \/ state[i] = "waiting_forever" /\ partner[i] = handler[i]
  \/ state[i] = "running"
  \/ i = current

\* An attached line is enabled exactly while its thread is halted ("we should only
\* receive irqs if the thread is halted"), and while it is not, an interrupt is on
\* its way to the handler or back: nothing but a missing handler disables it for good.
IrqLine ==
  \A i \in Irqs : handler[i] # i /\ i # current =>
     /\ i \notin masked <=> state[i] = "halted"
     /\ i \in masked => InService(i) \/ (state[i] = "aborted" /\ handler[i] = Bad)

\* The shortcut past SYS_IPC keeps its rules: no interrupt is queued for a thread
\* that waits for it or for anybody and has no message yet, and no thread is taken
\* out of its wait by an interrupt it did not wait for.
InterruptMeetsHandler ==
  \A i \in Irqs, h \in Threads :
     /\ state[i] = "polling" /\ partner[i] = h /\ is_waiting(state[h]) /\ AskedFor(h, i, i)
          => HasMessage(h)
     /\ partner[h] = i /\ pc[h] \in {"rcvwait", "special"} => AskedFor(h, i, i)

(***************************************************************************)
(* No edge is lost: once a device has raised an interrupt, its thread is    *)
(* queued with the handler until that is told; or it came while the line    *)
(* was masked for the one before, and then it is marked as pending and the  *)
(* thread is on its way to the acknowledgement, which looks at the mark     *)
(* before it enables the line ("edge triggered IRQs are marked as pending   *)
(* if masked", "check if any interrupts have arrived while beeing masked"). *)
(***************************************************************************)
EdgeRemembered ==
  \A i \in due : state[i] # "aborted" =>
     \/ state[i] \in {"polling", "locked_running"} /\ i \in Range(sendq[handler[i]])
     \/ i \in pending /\ i \in masked /\ InService(i)
=============================================================================
