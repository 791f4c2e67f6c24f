--------------------------- MODULE InterruptsProofs ---------------------------
(***************************************************************************)
(* Interrupts next to everything else the kernel does, for any number of    *)
(* threads and lines and every plain and steady use.                        *)
(***************************************************************************)
EXTENDS Interrupts, KernelProofs

\* The ids in the arguments of an IPC of t, as far as propagation and waiting for
\* local threads can be told from them.
GoodIds(t, a) ==
  /\ "propagate" \notin Env => a.to = Nil \/ a.sid = t
  /\ "anylocal" \notin Env => a.from # AnyLocal

\* Interrupts without the reattachment of a line whose thread is in its loop.
LineUse == PlainUse /\ SteadyUse /\ "reattach" \notin Env

\* The interrupt threads, and no others, are in the loop of irq_thread.
IrqThreads ==
  /\ handler \in [Irqs -> Threads \cup {Bad}]
  /\ \A t \in Threads : Irq(t) <=> t \in Irqs

(***************************************************************************)
(* A detached line is masked for good.  The thread of an attached one calls *)
(* the handler, is halted exactly while the line is enabled, has the        *)
(* handler for its partner from the interrupt to the acknowledgement, and   *)
(* gives up only when there is no handler.                                  *)
(***************************************************************************)
LineInv == \A i \in Irqs :
  /\ handler[i] \in (Threads \ Irqs) \cup {i, Bad}
  /\ handler[i] = i => state[i] = "aborted" /\ i \in masked /\ i \notin pending
  /\ handler[i] # i =>
       /\ "attach" \in Env
       /\ arg[i].to = handler[i] /\ arg[i].from = handler[i] /\ arg[i].sid = i
       /\ i \notin masked <=> state[i] = "halted"
       /\ state[i] \in {"polling", "locked_running", "waiting_forever"} =>
            partner[i] = handler[i] /\ handler[i] \in Threads
       /\ state[i] = "aborted" => handler[i] = Bad

\* The inductive invariant of the interrupts.
IrqInv == QueueInv /\ SteadyInv /\ IrqThreads /\ LineInv

(***************************************************************************)
(* What a step of the kernel other than an interrupt does to thread x.      *)
(* Either x only learns who sent it a message, or it goes on with an IPC;   *)
(* an interrupt thread is accepted or gets its acknowledgement.             *)
(***************************************************************************)
Learns(x) == \E t \in Threads : pc[t] = "xfer" /\ arg[t].to = x /\ partner'[x] = arg[t].sid

GoesOn(x) ==
  /\ ~Irq(x) /\ ~Irq(x)'
  /\ pc'[x] \in {"rcvwait", "special"} => arg'[x].from = partner'[x]
  /\ GoodIds(x, arg[x]) => GoodIds(x, arg'[x])

Accepted(x) == state[x] = "polling" /\ state'[x] = "locked_running"
Acknowledged(x) == state[x] = "waiting_forever" /\ state'[x] = "running"

Frame(x) ==
  /\ \/ pc'[x] = pc[x] /\ arg'[x] = arg[x] /\ (partner'[x] = partner[x] \/ Learns(x))
     \/ GoesOn(x)
  /\ Irq(x) => state'[x] = state[x] \/ Accepted(x) \/ Acknowledged(x)
-----------------------------------------------------------------------------
\* The ids the users may name.
LEMMA UserIds ==
  ASSUME NEW t \in Threads, NEW a \in UserArgs(t)
  PROVE  GoodIds(t, [a EXCEPT !.sid = SenderId(t, a)])
<1>1. /\ "propagate" \notin Env => a.sid = t
      /\ "anylocal" \notin Env => a.from # AnyLocal
  <2>1. \A s \in SendArgs(t) : "propagate" \notin Env => s.sid = t
    BY DEF SendArgs, Does
  <2>2. \A r \in RecvArgs : "anylocal" \notin Env => r.from # AnyLocal
    BY IdsDiffer, TcbAssumption DEF RecvArgs, Does
  <2>3. CASE \E s \in SendArgs(t) : a = Call(s, NoRecv)
    BY <2>1, <2>3, IdsDiffer DEF Call, NoRecv
  <2>4. CASE \E r \in RecvArgs : a = Call(NoSend(t), r)
    BY <2>2, <2>4 DEF Call, NoSend
  <2>5. CASE \E s \in SendArgs(t), r \in RecvArgs : a = Call(s, r)
    BY <2>1, <2>2, <2>5 DEF Call
  <2> QED BY <2>3, <2>4, <2>5 DEF UserArgs
<1>2. a \in Args
  BY UserArgsType
<1> DEFINE b == [a EXCEPT !.sid = SenderId(t, a)]
<1>3. b.from = a.from /\ b.sid = SenderId(t, a)
  BY <1>2 DEF Args
<1>4. a.sid = t => SenderId(t, a) = t
  BY DEF SenderId
<1> QED BY <1>1, <1>3, <1>4 DEF GoodIds

\* The ids the kernel uses.
LEMMA KernelIds ==
  ASSUME NEW t \in Threads
  PROVE  GoodIds(t, NoArg) /\ GoodIds(t, PagefaultArg(t))
<1>1. Pager[t] # AnyLocal
  BY TcbAssumption
<1> QED BY <1>1, IdsDiffer DEF GoodIds, NoArg, PagefaultArg

\* An IPC that ends leaves the other threads alone.
LEMMA ReturnFrame ==
  ASSUME QueueInv, NEW t \in Threads, ~Irq(t), NEW st \in [Threads -> ThreadStates],
         Return(t, st, partner), NEW x \in Threads,
         Irq(x) => st[x] = state[x] \/ (state[x] = "waiting_forever" /\ st[x] = "running")
  PROVE  Frame(x)
<1>1. /\ pc' = [pc EXCEPT ![t] = "user"] /\ arg' = [arg EXCEPT ![t] = NoArg]
      /\ \A y \in Threads : state'[y] = IF y = t /\ arg[t].kind = "pf" THEN sstate[t] ELSE st[y]
      /\ \A y \in Threads \ {t} : partner'[y] = partner[y]
  <2>1. TypeOK /\ Untyped /\ partner \in [Threads -> ids]
    BY DEF QueueInv, IInv, TypeOK
  <2> QED BY <2>1, ReturnEffect
<1>2. CASE x = t
  BY <1>1, <1>2, KernelIds DEF Frame, GoesOn, Irq, QueueInv, IInv, TypeOK
<1>3. CASE x # t
  BY <1>1, <1>3 DEF Frame, Acknowledged, QueueInv, IInv, TypeOK
<1> QED BY <1>2, <1>3

\* A thread that starts to wait is registered with the partner it named.
LEMMA WaitFrame ==
  ASSUME QueueInv, NEW t \in Threads, pc[t] = "recv", Waiting(t), NEW w \in PCs \ {"irq", "acked"},
         pc' = [pc EXCEPT ![t] = w], w \in {"rcvwait", "special"} => partner'[t] = arg[t].from,
         NEW x \in Threads, x # t => partner'[x] = partner[x],
         Irq(x) => state'[x] = state[x] \/ Accepted(x) \/ Acknowledged(x)
  PROVE  Frame(x)
<1> DEFINE v == [NoArg EXCEPT !.kind = arg[t].kind, !.from = arg[t].from]
<1>1. arg' = [arg EXCEPT ![t] = v] /\ v.from = arg[t].from /\ v.to = Nil
  BY DEF Waiting, NoArg
<1> HIDE DEF v
<1>2. CASE x = t
  BY <1>1, <1>2 DEF Frame, GoesOn, GoodIds, Irq, QueueInv, IInv, TypeOK
<1>3. CASE x # t
  BY <1>1, <1>3 DEF Frame, QueueInv, IInv, TypeOK
<1> QED BY <1>2, <1>3

\* What the steps of the kernel do to a thread, one by one.
LEMMA IpcFrame ==
  ASSUME PlainUse, SteadyUse, QueueInv, SteadyInv, NEW t \in Threads, IpcNext(t), NEW x \in Threads
  PROVE  Frame(x)
<1>1. /\ state \in [Threads -> ThreadStates] /\ partner \in [Threads -> ids]
      /\ pc \in [Threads -> PCs] /\ arg \in [Threads -> Args]
      /\ Running(t) \in [Threads -> ThreadStates] /\ (x # t => Running(t)[x] = state[x])
  BY Values DEF QueueInv, IInv, TypeOK, Running
<1>2. /\ pc[t] # "startup" /\ Nil \notin Threads
      /\ Irq(x) => state[x] \notin {"locked_waiting", "waiting_timeout"}
  BY TcbAssumption DEF SteadyInv, Places, QueueInv, Phases, Irq
<1>3. CASE SysIpc(t)
  <2>1. PICK a \in UserArgs(t) :
          /\ arg' = [arg EXCEPT ![t] = [a EXCEPT !.sid = SenderId(t, a)]]
          /\ pc' = [pc EXCEPT ![t] = IF a.to = Nil THEN "recv" ELSE "send"]
          /\ pc[t] = "user" /\ UNCHANGED <<state, partner>>
    BY <1>3 DEF SysIpc, AtUser
  <2>2. GoodIds(t, [a EXCEPT !.sid = SenderId(t, a)])
    BY UserIds
  <2> QED BY <1>1, <2>1, <2>2 DEF Frame, GoesOn, Irq
<1>4. CASE PageFault(t)
  BY <1>1, <1>4, KernelIds DEF PageFault, AtUser, Frame, GoesOn, Irq
<1>5. CASE SendNonExisting(t)
  BY <1>1, <1>5, ReturnFrame DEF SendNonExisting, InKernel, Irq
<1>6. CASE SendReady(t)
  BY <1>1, <1>6 DEF SendReady, InKernel, Frame, GoesOn, Irq
<1>7. CASE SendZeroTimeout(t)
  BY <1>1, <1>7, ReturnFrame DEF SendZeroTimeout, InKernel, Irq
<1>8. CASE SendBlock(t)
  BY <1>1, <1>8 DEF SendBlock, InKernel, Frame, GoesOn, Irq
<1>9. CASE SendResume(t)
  BY <1>1, <1>9 DEF SendResume, InKernel, Frame, GoesOn, Irq
<1>10. CASE Transfer(t)
  BY <1>1, <1>10 DEF Transfer, InKernel, AfterSend, Frame, GoesOn, Learns, Irq
<1>11. CASE SendDone(t)
  <2>1. /\ pc[t] = "snddone" /\ arg[t].to \in Threads /\ is_receiving(state[arg[t].to])
        /\ DoneState(arg[t].to) = "running"
    BY <1>11 DEF SendDone, InKernel, QueueInv, Receivers, Committed, Untyped, DoneState
  <2> DEFINE st == [state EXCEPT ![arg[t].to] = DoneState(arg[t].to), ![t] = "running"]
  <2>2. st \in [Threads -> ThreadStates] /\ Return(t, st, partner)
    BY <1>1, <1>11, <2>1, Values DEF SendDone
  <2>3. Irq(x) => st[x] = state[x] \/ (state[x] = "waiting_forever" /\ st[x] = "running")
    BY <1>1, <1>2, <2>1 DEF Irq, is_receiving
  <2> HIDE DEF st
  <2> QED BY <2>1, <2>2, <2>3, ReturnFrame DEF Irq
<1>12. CASE RecvSpecial(t)
  <2>1. /\ pc[t] = "recv" /\ Waiting(t) /\ pc' = [pc EXCEPT ![t] = "special"]
        /\ partner' = [partner EXCEPT ![t] = arg[t].from]
        /\ state' = [state EXCEPT ![t] = "waiting_forever"]
    BY <1>12 DEF RecvSpecial, InKernel
  <2>2. "special" \in PCs \ {"irq", "acked"}
    BY DEF PCs
  <2> QED BY <1>1, <2>1, <2>2, WaitFrame DEF Irq
<1>13. CASE RecvNonExisting(t)
  BY <1>1, <1>13, ReturnFrame DEF RecvNonExisting, InKernel, Irq
<1>14. CASE RecvZeroTimeout(t)
  BY <1>1, <1>14, ReturnFrame DEF RecvZeroTimeout, InKernel, Irq
<1>15. CASE RecvBlock(t)
  <2>1. /\ pc[t] = "recv" /\ Waiting(t) /\ pc' = [pc EXCEPT ![t] = "rcvwait"]
        /\ partner' = [partner EXCEPT ![t] = arg[t].from]
        /\ x # t => state'[x] = state[x]
    BY <1>1, <1>15 DEF RecvBlock, InKernel
  <2>2. "rcvwait" \in PCs \ {"irq", "acked"}
    BY DEF PCs
  <2> QED BY <1>1, <2>1, <2>2, WaitFrame DEF Irq
<1>16. CASE RecvPartner(t)
  <2> DEFINE f == FromTcb(t, arg[t])
  <2>1. /\ pc[t] = "recv" /\ Waiting(t) /\ pc' = [pc EXCEPT ![t] = "lockwait"]
        /\ partner' = partner /\ f \in Threads /\ state[f] = "polling"
    BY <1>16 DEF RecvPartner, PartnerReady, InKernel
  <2> HIDE DEF f
  <2>2. HasSent(arg[t]) => arg[t].to \in Threads /\ is_receiving(state[arg[t].to])
    BY <2>1 DEF HasSent, QueueInv, Receivers, Committed
  <2>3. Irq(x) => state'[x] = state[x] \/ Accepted(x) \/ Acknowledged(x)
    <3> DEFINE locked == [state EXCEPT ![f] = "locked_running", ![t] = "locked_waiting"]
    <3>1. state' = locked \/ (HasSent(arg[t]) /\ state' = [locked EXCEPT ![arg[t].to] = "running"])
      BY <1>16 DEF RecvPartner, f
    <3>2. Irq(x) => x # t
      BY <2>1 DEF Irq
    <3>3. x # t => locked[x] = IF x = f THEN "locked_running" ELSE state[x]
      BY <1>1, <2>1
    <3>4. f \in Threads /\ locked \in [Threads -> ThreadStates]
      BY <1>1, <2>1, Values
    <3> HIDE DEF locked
    <3> QED BY <1>2, <2>1, <2>2, <3>1, <3>2, <3>3, <3>4 DEF Accepted, Acknowledged, is_receiving
  <2>4. "lockwait" \in PCs \ {"irq", "acked"}
    BY DEF PCs
  <2> QED BY <2>1, <2>3, <2>4, WaitFrame
<1>17. CASE RecvResume(t)
  BY <1>1, <1>17, ReturnFrame DEF RecvResume, InKernel, Irq
<1>18. CASE HandleIpcError(t)
  BY <1>1, <1>18, KernelIds DEF HandleIpcError, IpcError, InKernel, Frame, GoesOn, Irq
<1>19. CASE HandleIpcTimeout(t)
  <2>1. pc[t] = "timeout" /\ tstate[t] \notin {"locked_running", "locked_waiting"} /\ spartner[t] = Nil
    BY <1>19 DEF HandleIpcTimeout, InKernel, QueueInv, Phases, Untyped
  <2>2. Aborted(t, tstate[t]) = {} /\ UnwoundPartner(t) = partner
    BY <2>1 DEF Aborted, AbortedBy, Nested, UnwoundPartner
  <2>3. /\ pc'[x] = IF x = t THEN "user" ELSE pc[x]
        /\ x # t => state'[x] = state[x]
        /\ arg' = [arg EXCEPT ![t] = NoArg]
        /\ x # t => partner'[x] = partner[x]
    BY <1>1, <1>19, <2>2 DEF HandleIpcTimeout, IpcError
  <2> QED BY <1>1, <2>1, <2>3, KernelIds DEF Frame, GoesOn, Irq
<1> QED
  BY <1>2, <1>3, <1>4, <1>5, <1>6, <1>7, <1>8, <1>9, <1>10, <1>11, <1>12, <1>13, <1>14, <1>15,
     <1>16, <1>17, <1>18, <1>19, NoCopy DEF IpcNext, ThreadStartup, InKernel

\* exregs has no access to the interrupt threads.
LEMMA ExregsFrame ==
  ASSUME PlainUse, SteadyUse, QueueInv, SteadyInv, NEW t \in Threads, ExchangeRegisters(t),
         NEW x \in Threads
  PROVE  Frame(x)
<1>1. PICK d \in alive, c \in Controls : Space[d] = Space[t] /\ perform_exregs(d, c)
  BY DEF ExchangeRegisters
<1>2. d \in Threads /\ ~Irq(d) /\ state[d] \in ThreadStates
  BY <1>1 DEF ExchangeRegisters, AtUser, QueueInv, IInv, TypeOK, IrqPhases, Irq
<1>3. CASE IsAborted(state[d], c)
  <2>1. state[d] \notin {"locked_running", "locked_waiting"}
    BY <1>1, <1>3 DEF perform_exregs, UsualAbort, Does, PlainUse
  <2>2. Aborted(d, state[d]) = {} /\ UnwoundPartner(d) = partner
    BY <1>2, <2>1, UnwindEffect DEF QueueInv, IInv
  <2>3. /\ pc'[x] = IF x = d THEN "error" ELSE pc[x]
        /\ x # d => state'[x] = state[x]
        /\ UNCHANGED <<arg, partner>>
    BY <1>1, <1>3, <2>2 DEF perform_exregs
  <2> QED BY <1>2, <2>3 DEF Frame, GoesOn, Irq
<1>4. CASE ~IsAborted(state[d], c)
  BY <1>1, <1>2, <1>4 DEF perform_exregs, Frame
<1> QED BY <1>3, <1>4

\* Nor has a timeout.
LEMMA TickFrame ==
  ASSUME QueueInv, \A y \in Threads : y = current => pc[y] = "user",
         NEW exp \in SUBSET wakeup, parse_wakeup_queues(exp), UNCHANGED <<partner, arg>>,
         NEW x \in Threads
  PROVE  Frame(x)
<1>1. /\ \A y \in wakeup : ~Irq(y)
      /\ state'[x] = IF x \in exp THEN "running" ELSE state[x]
      /\ pc'[x] = IF x \in exp /\ NotStarted(state[x]) THEN "timeout" ELSE pc[x]
  BY ExpireEffect DEF Irq
<1> QED BY <1>1 DEF Frame, GoesOn, Irq

\* What any step of a plain and steady use does to a thread.
LEMMA NextFrame ==
  ASSUME PlainUse, SteadyUse, QueueInv, SteadyInv, Next, NEW x \in Threads
  PROVE  Frame(x)
<1>1. ASSUME NEW t \in Threads, Timer(t)
      PROVE  Frame(x)
  <2>1. /\ \E exp \in SUBSET wakeup : parse_wakeup_queues(exp)
        /\ current = t /\ pc[t] = "user" /\ UNCHANGED <<partner, arg>>
    BY <1>1 DEF Timer, AtUser
  <2> QED BY <2>1, TickFrame
<1>2. ASSUME TimerIdle
      PROVE  Frame(x)
  <2>1. /\ \E exp \in SUBSET wakeup : parse_wakeup_queues(exp)
        /\ current = Idle /\ Idle \notin Threads /\ UNCHANGED <<partner, arg>>
    BY <1>2, TcbAssumption DEF TimerIdle
  <2> QED BY <2>1, TickFrame
<1>3. ASSUME NEW t \in Threads, DeleteThread(t) \/ CreateThread(t)
      PROVE  FALSE
  BY <1>3 DEF DeleteThread, CreateThread, Does, SteadyUse
<1>4. ASSUME NEW t \in Threads, ThreadSwitch(t)
      PROVE  Frame(x)
  BY <1>4 DEF ThreadSwitch, Frame
<1>5. ASSUME IdleSchedule
      PROVE  Frame(x)
  BY <1>5 DEF IdleSchedule, Frame
<1> QED BY <1>1, <1>2, <1>3, <1>4, <1>5, IpcFrame, ExregsFrame DEF Next

\* No step of the kernel makes or unmakes an interrupt thread.
LEMMA NextKeepsThreads ==
  ASSUME LineUse, IrqInv, Next, UNCHANGED handler
  PROVE  IrqThreads'
BY NextFrame DEF LineUse, IrqInv, IrqThreads, Frame, GoesOn, Irq

\* And none disturbs the protocol of a line.
LEMMA NextKeepsLines ==
  ASSUME LineUse, IrqInv, Next, UNCHANGED <<handler, masked, pending>>
  PROVE  LineInv'
<1> SUFFICES ASSUME NEW i \in Irqs
             PROVE  /\ handler[i] = i => state'[i] = "aborted"
                    /\ handler[i] # i =>
                         /\ arg'[i] = arg[i]
                         /\ state[i] = "halted" <=> state'[i] = "halted"
                         /\ state'[i] \in {"polling", "locked_running", "waiting_forever"} =>
                              partner'[i] = handler[i] /\ handler[i] \in Threads
                         /\ state'[i] = "aborted" => state[i] = "aborted"
  BY DEF LineInv, IrqInv
<1>1. /\ i \in Threads /\ Irq(i) /\ i \notin {AnyThread, AnyLocal, Nil} /\ Frame(i)
      /\ handler[i] \notin {AnyThread, AnyLocal, Nil}
  BY IrqAssumption, TcbAssumption, IdsDiffer, NextFrame DEF LineUse, IrqInv, IrqThreads, LineInv
<1>2. pc'[i] = pc[i] /\ arg'[i] = arg[i] /\ (partner'[i] = partner[i] \/ Learns(i))
  BY <1>1 DEF Frame, GoesOn
<1>3. Learns(i) => state[i] = "waiting_forever" /\ partner'[i] = arg[i].from
  <2> SUFFICES ASSUME NEW t \in Threads, pc[t] = "xfer", arg[t].to = i, partner'[i] = arg[t].sid
               PROVE  state[i] = "waiting_forever" /\ partner'[i] = arg[i].from
    BY DEF Learns
  <2>1. state[i] \notin {"locked_waiting", "waiting_timeout"}
    BY <1>1 DEF IrqInv, QueueInv, Phases, Irq
  <2>2. state[i] = "waiting_forever" /\ Asked(i, arg[t].sid, t)
    BY <2>1 DEF IrqInv, SteadyInv, Meeting, is_waiting
  <2>3. arg[i].from \notin {AnyThread, AnyLocal}
    BY <1>1, <2>2 DEF IrqInv, LineInv
  <2> QED BY <2>2, <2>3 DEF Asked
<1>4. state'[i] = state[i] \/ Accepted(i) \/ Acknowledged(i)
  BY <1>1 DEF Frame
<1> QED BY <1>2, <1>3, <1>4 DEF IrqInv, LineInv, Accepted, Acknowledged
-----------------------------------------------------------------------------
(***************************************************************************)
(* handle_interrupt.  It is entered from user level, from the idle thread,  *)
(* or from the loop of the interrupt thread itself.                         *)
(***************************************************************************)
Entered(i, next) ==
  /\ handler[i] # i /\ state[i] \in {"halted", "waiting_forever", "running"}
  /\ \A x \in Threads : x = current => x = i \/ pc[x] = "user"
  /\ next = IF current = i THEN Idle ELSE current
  /\ pc' = [pc EXCEPT ![i] = "irq"]
  /\ failed' = {}
  /\ UNCHANGED <<sstate, spartner, wakeup, arg, outer, xfer, tstate, alive>>

\* Then nobody is in the middle of a system call.
Settled(i, next) ==
  /\ i \in Threads /\ Irq(i) /\ i \notin wakeup /\ i # Idle /\ next # i
  /\ i \notin {Nil, AnyThread, AnyLocal, Bad}
  /\ alive = Threads /\ Idle \notin Threads /\ Nil \notin Threads /\ Bad \notin Threads
  /\ ~IsQueued(i)
  /\ handler[i] \in (Threads \ Irqs) \cup {Bad}
  /\ arg[i].to = handler[i] /\ arg[i].from = handler[i] /\ arg[i].sid = i
  /\ \A x \in Threads : pc[x] \notin {"send", "xfer", "snddone", "recv", "startup", "copy"}
  /\ \A x \in Threads : Irq(x) => state[x] # "locked_running"
  /\ \A x \in Threads : x = current /\ x # i => pc[x] = "user" /\ state[x] = "running"
  /\ \A x \in Threads : Told(x) => x = current
  /\ \A x \in Threads : pc'[x] = IF x = i THEN "irq" ELSE pc[x]

\* The place where handle_interrupt is entered.
LEMMA EnteredFacts ==
  ASSUME LineUse, IrqInv, NEW i \in Irqs, NEW next, Entered(i, next)
  PROVE  Settled(i, next)
<1>1. /\ i \in Threads /\ Irq(i) /\ i # Idle /\ next # i /\ i \notin {Nil, AnyThread, AnyLocal, Bad}
      /\ alive = Threads /\ Idle \notin Threads /\ Nil \notin Threads /\ Bad \notin Threads
  BY IrqAssumption, TcbAssumption DEF IrqInv, IrqThreads, SteadyInv, Entered
<1>2. /\ handler[i] \in (Threads \ Irqs) \cup {Bad}
      /\ arg[i].to = handler[i] /\ arg[i].from = handler[i] /\ arg[i].sid = i
  BY DEF IrqInv, LineInv, Entered
<1>3. i \notin wakeup /\ ~IsQueued(i)
  BY <1>1 DEF IrqInv, QueueInv, Pending, IsQueued, Irq, Entered
<1>4. \A x \in Threads : pc[x] \notin {"send", "xfer", "snddone", "recv", "startup", "copy"}
  BY <1>1 DEF IrqInv, QueueInv, Phases, SteadyInv, Places, Untyped, Irq, Entered
<1>5. \A x \in Threads : Irq(x) => state[x] # "locked_running"
  BY <1>1 DEF IrqInv, QueueInv, IrqPhases, Irq, Entered
<1>6. \A x \in Threads : x = current /\ x # i => pc[x] = "user" /\ state[x] = "running"
  BY DEF IrqInv, SteadyInv, Places, Entered
<1>7. \A x \in Threads : Told(x) => x = current
  BY <1>4 DEF Told
<1>8. \A x \in Threads : pc'[x] = IF x = i THEN "irq" ELSE pc[x]
  BY <1>1 DEF IrqInv, QueueInv, IInv, TypeOK, Entered
<1> QED BY <1>1, <1>2, <1>3, <1>4, <1>5, <1>6, <1>7, <1>8 DEF Settled

\* The queues and the partners of an IPC when the interrupt thread stops: halted
\* until the next interrupt, or for good when it has no handler.
LEMMA StopKeeps ==
  ASSUME LineUse, IrqInv, NEW i \in Irqs, NEW next, Entered(i, next),
         NEW st \in {"aborted", "halted"}, state' = [state EXCEPT ![i] = st], current' = next,
         UNCHANGED <<partner, ready, sendq>>
  PROVE  QueueInv' /\ SteadyInv'
<1>1. Settled(i, next)
  BY EnteredFacts
<1>2. /\ \A x \in Threads : state'[x] = IF x = i THEN st ELSE state[x]
      /\ current' = next /\ next = (IF current = i THEN Idle ELSE current)
      /\ UNCHANGED <<partner, ready, sendq, sstate, spartner, wakeup, arg, outer, xfer, tstate, alive>>
      /\ state' \in [Threads -> ThreadStates] /\ pc' \in [Threads -> PCs]
  BY <1>1, Values DEF Settled, Entered, IrqInv, QueueInv, IInv, TypeOK, PCs
<1>3. IInv'
  BY <1>1, <1>2 DEF Settled, IrqInv, QueueInv, IInv, TypeOK, ArgOK, NoLostThread, HasOuter, is_runnable, RunnableStates
<1>4. Untyped'
  BY <1>1, <1>2 DEF Settled, IrqInv, QueueInv, Untyped
<1>5. SavedStates'
  BY <1>1, <1>2 DEF Settled, IrqInv, QueueInv, SavedStates, IrqPhases, Irq
<1>6. Living'
  BY <1>1, <1>2 DEF Settled, IrqInv, QueueInv, Living
<1>7. Phases'
  BY <1>1, <1>2 DEF Settled, IrqInv, QueueInv, Phases, Irq
<1>8. Receivers'
  BY <1>1, <1>2 DEF Settled, IrqInv, QueueInv, Receivers, Committed, Phases, Irq, is_receiving
<1>9. Pending'
  BY <1>1, <1>2 DEF Settled, IrqInv, QueueInv, Pending
<1>10. TimeoutArmed'
  BY <1>1, <1>2 DEF Settled, IrqInv, QueueInv, TimeoutArmed
<1>11. SendQueueExact'
  BY <1>1, <1>2, SameQueues DEF Settled, IrqInv, QueueInv, IsQueued, Irq, Phases
<1>12. IrqPhases'
  BY <1>1, <1>2 DEF Settled, IrqInv, QueueInv, IrqPhases, Irq
<1>13. Places' /\ NoAssertionFails'
  BY <1>1, <1>2 DEF Settled, Entered, IrqInv, SteadyInv, Places, NoAssertionFails, Irq
<1>14. Purposes'
  BY <1>1, <1>2 DEF Settled, IrqInv, SteadyInv, Purposes, Irq
<1>15. Partners'
  BY <1>1, <1>2 DEF Settled, IrqInv, SteadyInv, Partners, Irq
<1>16. Registered'
  BY <1>1, <1>2 DEF Settled, IrqInv, SteadyInv, Registered, Told, is_waiting
<1>17. Meeting'
  BY <1>1, <1>2 DEF Settled, IrqInv, SteadyInv, Meeting, Irq, Asked
<1>18. Locked'
  BY <1>1, <1>2 DEF Settled, IrqInv, SteadyInv, Locked, QueueInv, Phases, Irq
<1>19. NoneMissed'
  BY <1>1, <1>2 DEF Settled, IrqInv, SteadyInv, NoneMissed, Asked, Told, is_waiting
<1> QED
  BY <1>1, <1>2, <1>3, <1>4, <1>5, <1>6, <1>7, <1>8, <1>9, <1>10, <1>11, <1>12, <1>13, <1>14, <1>15,
     <1>16, <1>17, <1>18, <1>19 DEF Settled, QueueInv, SteadyInv

\* A handler that waits is at the end of a receive phase, and runs next or later.
Awaits(i, h) ==
  /\ h \in Threads \ Irqs /\ ~Irq(h) /\ h # i /\ h # current /\ h = handler[i]
  /\ is_waiting(state[h]) /\ pc[h] \in {"rcvwait", "special", "lockwait"} /\ ~IsQueued(h)
  /\ "attach" \in Env

\* The queues and the partners of an IPC when the interrupt is delivered.
LEMMA DeliveredKeeps ==
  ASSUME LineUse, IrqInv, NEW i \in Irqs, NEW next, Entered(i, next), Delivered(i, current, next)
  PROVE  QueueInv' /\ SteadyInv'
<1> DEFINE h == handler[i]
<1>1. Settled(i, next)
  BY EnteredFacts
<1>2. Awaits(i, h)
  <2>1. h \in Threads \ Irqs /\ is_waiting(state[h]) /\ "attach" \in Env /\ ~Irq(h) /\ h # i
    BY <1>1 DEF Settled, Delivered, Exists, IsWaitingFor, IrqInv, LineInv, IrqThreads, Entered
  <2>2. state[h] \in {"waiting_forever", "waiting_timeout"}
    BY <2>1 DEF is_waiting
  <2>3. pc[h] \in PCs
    BY <2>1 DEF IrqInv, QueueInv, IInv, TypeOK
  <2>4. pc[h] \notin {"user", "send", "error", "timeout", "xfer", "snddone", "recv", "polled"}
    BY <1>1, <2>1, <2>2 DEF Settled, IrqInv, SteadyInv, Places, QueueInv, Phases
  <2>5. pc[h] \in {"rcvwait", "special", "lockwait"}
    BY <1>1, <2>1, <2>3, <2>4 DEF Settled, PCs, Irq
  <2> QED BY <1>1, <2>1, <2>2, <2>5 DEF Settled, Awaits, IsQueued
<1>3. /\ \A x \in Threads \ {i, h} : state'[x] = state[x] /\ partner'[x] = partner[x]
      /\ state'[i] = "waiting_forever" /\ partner'[i] = h /\ partner'[h] = i
      /\ \/ /\ state'[h] = state[h] /\ current' = h /\ current # i
            /\ ready' = ready \cup ({current} \ {Idle})
         \/ state'[h] = "running" /\ current' = next /\ ready' = ready \cup {h} /\ current # Idle
      /\ next = (IF current = i THEN Idle ELSE current)
      /\ UNCHANGED <<sendq, sstate, spartner, wakeup, arg, outer, xfer, tstate, alive>>
  <2>1. Prio \in [Threads -> Nat] /\ (Prio[h] <= Prio[i])
    BY <1>1, <1>2, TcbAssumption DEF Settled, Awaits, IrqInv, QueueInv, IrqPhases
  <2>2. ~check_dispatch_thread(i, h)
    BY <1>1, <1>2, <2>1 DEF check_dispatch_thread, Settled, Awaits
  <2> QED BY <1>1, <1>2, <2>2 DEF Settled, Awaits, Delivered, Entered, IrqInv, QueueInv, IInv, TypeOK
<1>4. /\ state' \in [Threads -> ThreadStates] /\ pc' \in [Threads -> PCs]
      /\ partner' \in [Threads -> ids] /\ ready' \subseteq Threads
      /\ current' \in Threads \cup {Idle}
  <2>1. {"waiting_forever", "running"} \subseteq ThreadStates /\ i \in ids /\ h \in ids
    BY <1>1, <1>2, Values DEF Settled, Awaits
  <2>2. state' \in [Threads -> ThreadStates] /\ partner' \in [Threads -> ids]
    BY <2>1 DEF Delivered, IrqInv, QueueInv, IInv, TypeOK
  <2>3. pc' \in [Threads -> PCs]
    BY DEF Entered, IrqInv, QueueInv, IInv, TypeOK, PCs
  <2> QED BY <1>1, <1>2, <1>3, <2>2, <2>3 DEF Settled, Awaits, IrqInv, QueueInv, IInv, TypeOK
<1> HIDE DEF h
<1>5. IInv'
  BY <1>1, <1>2, <1>3, <1>4
     DEF Settled, Awaits, IrqInv, QueueInv, IInv, TypeOK, ArgOK, NoLostThread, HasOuter, is_runnable, RunnableStates
<1>6. Untyped'
  BY <1>1, <1>2, <1>3 DEF Settled, IrqInv, QueueInv, Untyped
<1>7. SavedStates'
  BY <1>1, <1>2, <1>3 DEF Settled, IrqInv, QueueInv, SavedStates, IrqPhases, Irq
<1>8. Living'
  BY <1>1, <1>2, <1>3, <1>4 DEF Settled, Living
<1>9. Phases'
  BY <1>1, <1>2, <1>3 DEF Settled, Awaits, IrqInv, QueueInv, Phases, Irq, is_waiting
<1>10. Receivers'
  BY <1>1, <1>2, <1>3 DEF Settled, Awaits, IrqInv, QueueInv, Receivers, Committed, Phases, Irq, is_receiving, is_waiting
<1>11. Pending'
  BY <1>1, <1>2, <1>3 DEF Settled, Awaits, IrqInv, QueueInv, Pending, LeavesTimeouts, is_waiting
<1>12. TimeoutArmed'
  BY <1>1, <1>2, <1>3 DEF Settled, Awaits, IrqInv, QueueInv, TimeoutArmed
<1>13. SendQueueExact'
  BY <1>1, <1>2, <1>3, SameQueues DEF Settled, Awaits, IrqInv, QueueInv, IsQueued, Irq, Phases, is_waiting
<1>14. IrqPhases'
  BY <1>1, <1>2, <1>3 DEF Settled, Awaits, IrqInv, QueueInv, IrqPhases, Irq
<1>15. Places' /\ NoAssertionFails'
  BY <1>1, <1>2, <1>3 DEF Settled, Awaits, Entered, IrqInv, SteadyInv, Places, NoAssertionFails, Irq, is_waiting
<1>16. Purposes'
  BY <1>1, <1>2, <1>3 DEF Settled, IrqInv, SteadyInv, Purposes, Irq
<1>17. Partners'
  BY <1>1, <1>2, <1>3 DEF Settled, Awaits, IrqInv, SteadyInv, Partners, Irq
<1>18. Registered'
  BY <1>1, <1>2, <1>3 DEF Settled, Awaits, IrqInv, SteadyInv, Registered, Told, is_waiting
<1>19. Meeting'
  BY <1>1, <1>2, <1>3 DEF Settled, Awaits, IrqInv, SteadyInv, Meeting, Irq, is_waiting, Asked
<1>20. Locked'
  BY <1>1, <1>2, <1>3 DEF Settled, Awaits, IrqInv, SteadyInv, Locked, QueueInv, Phases, Irq, is_waiting
<1>21. NoneMissed'
  <2>1. h \notin {AnyThread, AnyLocal}
    BY <1>2, TcbAssumption DEF Awaits
  <2> QED BY <1>1, <1>2, <1>3, <2>1 DEF Settled, Awaits, IrqInv, SteadyInv, NoneMissed, Asked, Told, is_waiting
<1> QED
  BY <1>1, <1>3, <1>5, <1>6, <1>7, <1>8, <1>9, <1>10, <1>11, <1>12, <1>13, <1>14, <1>15,
     <1>16, <1>17, <1>18, <1>19, <1>20, <1>21 DEF Settled, QueueInv, SteadyInv

\* The queues and the partners of an IPC when the interrupt has to wait.
LEMMA DeferredKeeps ==
  ASSUME LineUse, IrqInv, NEW i \in Irqs, NEW next, Entered(i, next), Deferred(i, next)
  PROVE  QueueInv' /\ SteadyInv'
<1> DEFINE h == handler[i]
<1>1. Settled(i, next)
  BY EnteredFacts
<1>2. /\ h \in Threads \ Irqs /\ ~Irq(h) /\ h # i /\ h = handler[i] /\ Space[h] # Space[i]
      /\ ~(is_waiting(state[h]) /\ partner[h] \in {i, AnyThread})
  BY <1>1, IrqAssumption
     DEF Settled, Deferred, Exists, IsWaitingFor, IrqInv, LineInv, IrqThreads, Entered
<1>3. /\ \A x \in Threads : /\ state'[x] = IF x = i THEN "polling" ELSE state[x]
                            /\ partner'[x] = IF x = i THEN h ELSE partner[x]
                            /\ sendq'[x] = IF x = h THEN Append(sendq[x], i) ELSE sendq[x]
      /\ current' = next /\ next = (IF current = i THEN Idle ELSE current)
      /\ UNCHANGED <<ready, sstate, spartner, wakeup, arg, outer, xfer, tstate, alive>>
  BY <1>1, <1>2 DEF Settled, Deferred, Entered, IrqInv, QueueInv, IInv, TypeOK
<1>4. /\ state' \in [Threads -> ThreadStates] /\ pc' \in [Threads -> PCs]
      /\ partner' \in [Threads -> ids] /\ current' \in Threads \cup {Idle}
      /\ sendq' \in [Threads -> Seq(Threads)]
  <2>1. "polling" \in ThreadStates /\ h \in ids
    BY <1>1, <1>2, Values
  <2>2. state' \in [Threads -> ThreadStates] /\ partner' \in [Threads -> ids]
    BY <2>1 DEF Deferred, IrqInv, QueueInv, IInv, TypeOK
  <2>3. pc' \in [Threads -> PCs]
    BY DEF Entered, IrqInv, QueueInv, IInv, TypeOK, PCs
  <2>4. Append(sendq[h], i) \in Seq(Threads)
    BY <1>1, <1>2 DEF Settled, IrqInv, QueueInv, IInv, TypeOK
  <2>5. sendq' \in [Threads -> Seq(Threads)]
    BY <2>4 DEF Deferred, IrqInv, QueueInv, IInv, TypeOK
  <2> QED BY <1>3, <2>2, <2>3, <2>5 DEF IrqInv, QueueInv, IInv, TypeOK
<1> HIDE DEF h
<1>5. IInv'
  BY <1>1, <1>2, <1>3, <1>4
     DEF Settled, IrqInv, QueueInv, IInv, TypeOK, ArgOK, NoLostThread, HasOuter, is_runnable, RunnableStates
<1>6. Untyped'
  BY <1>1, <1>2, <1>3 DEF Settled, IrqInv, QueueInv, Untyped
<1>7. SavedStates'
  BY <1>1, <1>2, <1>3 DEF Settled, IrqInv, QueueInv, SavedStates, IrqPhases, Irq
<1>8. Living'
  BY <1>1, <1>2, <1>3, <1>4 DEF Settled, Living, IrqInv, QueueInv, IInv, TypeOK
<1>9. Phases'
  BY <1>1, <1>2, <1>3 DEF Settled, IrqInv, QueueInv, Phases, Irq
<1>10. Receivers'
  BY <1>1, <1>2, <1>3 DEF Settled, IrqInv, QueueInv, Receivers, Committed, Phases, Irq, is_receiving
<1>11. Pending'
  BY <1>1, <1>2, <1>3 DEF Settled, IrqInv, QueueInv, Pending, LeavesTimeouts
<1>12. TimeoutArmed'
  BY <1>1, <1>2, <1>3 DEF Settled, IrqInv, QueueInv, TimeoutArmed, IrqPhases
<1>13. SendQueueExact'
  <2>1. \A r \in Threads : i \notin Range(sendq[r])
    BY <1>1 DEF Settled, IrqInv, QueueInv, SendQueueExact
  <2>2. /\ sendq'[h] = Append(sendq[h], i) /\ sendq[h] \in Seq(Threads) /\ i \notin Range(sendq[h])
        /\ \A j, k \in DOMAIN sendq[h] : sendq[h][j] = sendq[h][k] => j = k
    BY <1>2, <1>3, <2>1 DEF IrqInv, QueueInv, SendQueueExact, IInv, TypeOK
  <2>3. /\ Range(sendq'[h]) = Range(sendq[h]) \cup {i}
        /\ \A j, k \in DOMAIN sendq'[h] : sendq'[h][j] = sendq'[h][k] => j = k
    BY <1>1, <2>2, AppendRange DEF Settled
  <2>4. \A x \in Threads : IsQueued(x)' <=> IsQueued(x) \/ x = i
    BY <1>1, <1>3 DEF Settled, IrqInv, QueueInv, Phases, Irq, IsQueued
  <2> QED BY <1>1, <1>2, <1>3, <2>1, <2>3, <2>4 DEF Settled, IrqInv, QueueInv, SendQueueExact
<1>14. IrqPhases'
  BY <1>1, <1>2, <1>3 DEF Settled, IrqInv, QueueInv, IrqPhases, Irq
<1>15. Places' /\ NoAssertionFails'
  BY <1>1, <1>2, <1>3 DEF Settled, Entered, IrqInv, SteadyInv, Places, NoAssertionFails, Irq
<1>16. Purposes'
  BY <1>1, <1>2, <1>3 DEF Settled, IrqInv, SteadyInv, Purposes, Irq
<1>17. Partners'
  BY <1>1, <1>2, <1>3 DEF Settled, IrqInv, SteadyInv, Partners, Irq
<1>18. Registered'
  BY <1>1, <1>2, <1>3 DEF Settled, IrqInv, SteadyInv, Registered, Told, is_waiting
<1>19. Meeting'
  BY <1>1, <1>2, <1>3 DEF Settled, IrqInv, SteadyInv, Meeting, Irq, Asked
<1>20. Locked'
  BY <1>1, <1>2, <1>3 DEF Settled, IrqInv, SteadyInv, Locked, QueueInv, Phases, Irq
<1>21. NoneMissed'
  <2>1. is_waiting(state[h]) => ~Asked(h, i, i) \/ Told(h)
    BY <1>1, <1>2 DEF Settled, IrqInv, SteadyInv, Registered, Asked
  <2> QED BY <1>1, <1>2, <1>3, <2>1 DEF Settled, IrqInv, SteadyInv, NoneMissed, Asked, Told, is_waiting
<1> QED
  BY <1>1, <1>3, <1>5, <1>6, <1>7, <1>8, <1>9, <1>10, <1>11, <1>12, <1>13, <1>14, <1>15,
     <1>16, <1>17, <1>18, <1>19, <1>20, <1>21 DEF Settled, QueueInv, SteadyInv

\* What a step of line i has to leave of the protocol of the lines.
LEMMA LineKept ==
  ASSUME IrqInv, NEW i \in Irqs, handler[i] # i, UNCHANGED <<handler, arg>>,
         NEW w \in {"irq", "acked"}, pc' = [pc EXCEPT ![i] = w],
         \A j \in Irqs \ {i} : /\ state'[j] = state[j] /\ partner'[j] = partner[j]
                               /\ j \in masked' <=> j \in masked,
         pending' \subseteq pending,
         i \notin masked' <=> state'[i] = "halted",
         state'[i] \in {"polling", "locked_running", "waiting_forever"} =>
           partner'[i] = handler[i] /\ handler[i] \in Threads,
         state'[i] = "aborted" => handler[i] = Bad
  PROVE  IrqThreads' /\ LineInv'
<1>1. IrqThreads'
  <2>1. \A x \in Threads : pc'[x] = IF x = i THEN w ELSE pc[x]
    BY DEF IrqInv, QueueInv, IInv, TypeOK
  <2> QED BY <2>1 DEF IrqInv, IrqThreads, Irq
<1>2. LineInv'
  BY DEF IrqInv, LineInv
<1> QED BY <1>1, <1>2

\* What handle_interrupt does to the lines: another one is left alone, this one is
\* given up without a handler, and else told or queued; it is owed unless told.
LEMMA HandleEffect ==
  ASSUME LineUse, IrqInv, NEW i \in Irqs, NEW next, Entered(i, next),
         handle_interrupt(i, current, next)
  PROVE  /\ \A j \in Irqs \ {i} : state'[j] = state[j] /\ partner'[j] = partner[j]
         /\ \/ state'[i] = "aborted" /\ handler[i] = Bad /\ due' = due \cup {i}
            \/ /\ state'[i] \in {"waiting_forever", "polling"}
               /\ partner'[i] = handler[i] /\ handler[i] \in Threads
               /\ due' = IF state'[i] = "polling" THEN due \cup {i} ELSE due \ {i}
<1>1. /\ Settled(i, next) /\ handler[i] # i
      /\ state \in [Threads -> ThreadStates] /\ partner \in [Threads -> ids]
  BY EnteredFacts DEF Entered, IrqInv, QueueInv, IInv, TypeOK
<1>2. CASE NotDelivered(i, next)
  BY <1>1, <1>2, IrqAssumption DEF Settled, NotDelivered, Exists
<1>3. CASE Delivered(i, current, next)
  BY <1>1, <1>3, IrqAssumption DEF Settled, Delivered, Exists
<1>4. CASE Deferred(i, next)
  BY <1>1, <1>4, IrqAssumption DEF Settled, Deferred, Exists
<1> QED BY <1>2, <1>3, <1>4 DEF handle_interrupt

\* handle_interrupt as a whole.
LEMMA HandleKeeps ==
  ASSUME LineUse, IrqInv, NEW i \in Irqs, NEW next, Entered(i, next),
         handle_interrupt(i, current, next), UNCHANGED handler,
         \A j \in Irqs \ {i} : j \in masked' <=> j \in masked, i \in masked', pending' \subseteq pending
  PROVE  IrqInv'
<1>1. QueueInv' /\ SteadyInv'
  BY StopKeeps, DeliveredKeeps, DeferredKeeps DEF handle_interrupt, NotDelivered
<1>2. handler[i] # i /\ UNCHANGED arg /\ pc' = [pc EXCEPT ![i] = "irq"]
  BY DEF Entered
<1>3. /\ \A j \in Irqs \ {i} : state'[j] = state[j] /\ partner'[j] = partner[j]
      /\ \/ state'[i] = "aborted" /\ handler[i] = Bad
         \/ state'[i] \in {"waiting_forever", "polling"} /\ partner'[i] = handler[i] /\ handler[i] \in Threads
  BY HandleEffect
<1>4. IrqThreads' /\ LineInv'
  BY <1>2, <1>3, LineKept
<1> QED BY <1>1, <1>4 DEF IrqInv

\* A thread outside every queue fails no assertion of handle_interrupt.
LEMMA HandleSucceeds ==
  ASSUME IrqInv, NEW i \in Irqs, ~IsQueued(i)
  PROVE  HandleFails(i, "halted") = {}
<1>1. ~Queued(i)
  BY IrqAssumption DEF IrqInv, QueueInv, SendQueueExact, Queued
<1> QED BY <1>1 DEF HandleFails

\* Where an interrupt of an enabled line finds the kernel.
LEMMA RaiseEntered ==
  ASSUME LineUse, IrqInv, NEW i \in Irqs, Raise(i)
  PROVE  Entered(i, current)
<1>1. i \in Threads /\ Irq(i) /\ Idle \notin Threads
  BY IrqAssumption, TcbAssumption DEF IrqInv, IrqThreads
<1>2. handler[i] # i /\ state[i] = "halted"
  BY DEF Raise, IrqInv, LineInv
<1>3. current # i /\ pc[i] = "irq" /\ ~IsQueued(i)
  BY <1>1, <1>2 DEF IrqInv, QueueInv, IrqPhases, Irq, IsQueued
<1>4. failed' = {}
  BY <1>2, <1>3, HandleSucceeds DEF Raise
<1>5. pc' = [pc EXCEPT ![i] = "irq"]
  BY <1>1, <1>3 DEF Raise, IrqInv, QueueInv, IInv, TypeOK
<1> QED BY <1>1, <1>2, <1>3, <1>4, <1>5 DEF Raise, InterruptsOn, Entered

\* An interrupt of an enabled line.
LEMMA RaiseKeeps ==
  ASSUME LineUse, IrqInv, NEW i \in Irqs, Raise(i)
  PROVE  IrqInv'
BY RaiseEntered, HandleKeeps DEF Raise, Masked

\* Where the acknowledgement finds the interrupt thread.
LEMMA AckedEntered ==
  ASSUME LineUse, IrqInv, NEW i \in Irqs, IrqAcked(i)
  PROVE  Entered(i, Idle) /\ current = i /\ i \in masked
<1>1. i \in Threads /\ Irq(i) /\ Idle \notin Threads /\ current = i
  BY IrqAssumption, TcbAssumption DEF IrqInv, IrqThreads, IrqAcked, InKernel
<1>2. state[i] \in {"waiting_forever", "running"}
  <2>1. state[i] \in {"locked_running", "waiting_forever", "running"}
    BY <1>1 DEF IrqInv, QueueInv, IrqPhases
  <2>2. pc[i] = "irq" /\ state[i] = "locked_running" => Queued(i)
    BY <1>1 DEF IrqInv, QueueInv, SendQueueExact, IsQueued, Queued, Receivers, Committed, Phases
  <2> QED BY <1>1, <2>1, <2>2 DEF IrqAcked, InKernel, IrqInv, QueueInv, IrqPhases
<1>3. handler[i] # i /\ ~IsQueued(i) /\ i \in masked
  BY <1>1, <1>2 DEF IrqInv, LineInv, IsQueued, Irq
<1>4. failed' = {}
  BY <1>3, HandleSucceeds DEF IrqAcked
<1> QED BY <1>1, <1>2, <1>3, <1>4 DEF IrqAcked, Entered

\* The acknowledgement.
LEMMA IrqAckedKeeps ==
  ASSUME LineUse, IrqInv, NEW i \in Irqs, IrqAcked(i)
  PROVE  IrqInv'
<1>1. Entered(i, Idle) /\ current = i /\ i \in masked /\ handler[i] # i
  BY AckedEntered DEF Entered
<1>2. CASE i \in pending
  BY <1>1, <1>2, HandleKeeps DEF IrqAcked, unmask
<1>3. CASE i \notin pending
  <2>1. /\ state' = [state EXCEPT ![i] = "halted"] /\ current' = Idle /\ masked' = masked \ {i}
        /\ UNCHANGED <<partner, ready, sendq, pending, handler, arg>>
        /\ pc' = [pc EXCEPT ![i] = "irq"]
    BY <1>1, <1>3 DEF IrqAcked, unmask
  <2>2. QueueInv' /\ SteadyInv'
    BY <1>1, <2>1, StopKeeps
  <2>3. /\ state'[i] = "halted" /\ \A j \in Irqs \ {i} : state'[j] = state[j]
    BY <2>1, IrqAssumption DEF IrqInv, QueueInv, IInv, TypeOK
  <2>4. IrqThreads' /\ LineInv'
    BY <1>1, <2>1, <2>3, LineKept
  <2> QED BY <2>2, <2>4 DEF IrqInv
<1> QED BY <1>2, <1>3

\* The accepted interrupt leaves the queue, and its handler runs.
LEMMA IrqSendKeeps ==
  ASSUME LineUse, IrqInv, NEW i \in Irqs, IrqSend(i)
  PROVE  IrqInv'
<1> DEFINE h == handler[i]
<1>1. /\ i \in Threads /\ Irq(i) /\ current = i /\ pc[i] = "irq" /\ i # Idle
      /\ alive = Threads /\ Idle \notin Threads
  BY IrqAssumption, TcbAssumption DEF IrqInv, IrqThreads, SteadyInv, IrqSend, InKernel
<1>2. state[i] = "locked_running" /\ IsQueued(i)
  <2>1. IsQueued(i)
    BY <1>1 DEF IrqSend, Queued, IrqInv, QueueInv, SendQueueExact
  <2> QED BY <1>1, <2>1 DEF IsQueued, IrqInv, QueueInv, Phases
<1>3. /\ h \in Threads \ Irqs /\ ~Irq(h) /\ h # i /\ partner[i] = h /\ arg[i].to = h /\ arg[i].from = h
      /\ h \notin {AnyThread, AnyLocal} /\ handler[i] # i
      /\ state[h] = "locked_waiting" /\ pc[h] = "lockwait" /\ i \in Range(sendq[h])
      /\ \A u \in Threads : Committed(u) /\ arg[u].to = h => u = i
  <2>1. handler[i] # i
    BY <1>2 DEF IrqInv, LineInv
  <2>2. partner[i] = h /\ arg[i].to = h /\ arg[i].from = h /\ h \in Threads \ Irqs
    BY <1>2, <2>1, TcbAssumption DEF IrqInv, LineInv
  <2>3. Committed(i)
    BY <1>1, <1>2 DEF Committed
  <2>4. state[h] = "locked_waiting" /\ \A u \in Threads : Committed(u) /\ arg[u].to = h => u = i
    BY <1>1, <2>2, <2>3 DEF IrqInv, QueueInv, Receivers
  <2> QED BY <1>1, <1>2, <2>1, <2>2, <2>4, TcbAssumption
          DEF IrqInv, QueueInv, Phases, SendQueueExact, IrqThreads, Irq
<1>4. /\ \A x \in Threads : /\ state'[x] = IF x = i THEN "waiting_forever" ELSE state[x]
                            /\ partner'[x] = IF x = i THEN h ELSE IF x = h THEN i ELSE partner[x]
                            /\ sendq'[x] = IF x = h THEN Without(sendq[x], i) ELSE sendq[x]
                            /\ pc'[x] = IF x = i THEN "acked" ELSE pc[x]
      /\ current' = h /\ failed' = {}
      /\ UNCHANGED <<ready, sstate, spartner, wakeup, arg, outer, xfer, tstate, alive, handler, masked, pending>>
  BY <1>1, <1>3 DEF IrqSend, IrqInv, QueueInv, IInv, TypeOK
<1>5. /\ state' \in [Threads -> ThreadStates] /\ pc' \in [Threads -> PCs]
      /\ partner' \in [Threads -> ids] /\ sendq' \in [Threads -> Seq(Threads)]
  <2>1. "waiting_forever" \in ThreadStates /\ h \in ids /\ i \in ids
    BY <1>1, <1>3, Values
  <2>2. state' \in [Threads -> ThreadStates] /\ partner' \in [Threads -> ids]
    BY <2>1 DEF IrqSend, IrqInv, QueueInv, IInv, TypeOK
  <2>3. pc' \in [Threads -> PCs]
    BY DEF IrqSend, IrqInv, QueueInv, IInv, TypeOK, PCs
  <2>4. Without(sendq[h], i) \in Seq(Threads)
    BY <1>1, <1>3, WithoutType DEF IrqInv, QueueInv, IInv, TypeOK
  <2>5. sendq' \in [Threads -> Seq(Threads)]
    BY <2>4 DEF IrqSend, IrqInv, QueueInv, IInv, TypeOK
  <2> QED BY <2>2, <2>3, <2>5
<1> HIDE DEF h
<1>6. /\ \A x \in Threads : pc[x] \notin {"send", "xfer", "snddone", "recv", "startup", "copy"}
      /\ \A x \in Threads : Told(x) => x = i
  BY <1>1 DEF IrqInv, QueueInv, Phases, SteadyInv, Places, Untyped, Told
<1>7. IInv'
  BY <1>1, <1>2, <1>3, <1>4, <1>5
     DEF IrqInv, QueueInv, IInv, TypeOK, ArgOK, NoLostThread, HasOuter, is_runnable, RunnableStates
<1>8. Untyped'
  BY <1>1, <1>4 DEF IrqInv, QueueInv, Untyped
<1>9. SavedStates'
  BY <1>1, <1>4 DEF IrqInv, QueueInv, SavedStates
<1>10. Living'
  BY <1>1, <1>3, <1>4 DEF Living, IrqInv, QueueInv, IInv, TypeOK
<1>11. Phases'
  BY <1>1, <1>3, <1>4, <1>6 DEF IrqInv, QueueInv, Phases
<1>12. Receivers'
  BY <1>1, <1>2, <1>3, <1>4, <1>6 DEF IrqInv, QueueInv, Receivers, Committed, is_receiving
<1>13. Pending'
  BY <1>1, <1>2, <1>3, <1>4 DEF IrqInv, QueueInv, Pending
<1>14. TimeoutArmed'
  BY <1>1, <1>2, <1>3, <1>4 DEF IrqInv, QueueInv, TimeoutArmed
<1>15. SendQueueExact'
  <2>1. \A x \in Threads : IsQueued(x)' <=> IsQueued(x) /\ x # i
    BY <1>1, <1>2, <1>4 DEF IsQueued
  <2>2. \A x \in Threads \ {i} : IsQueued(x) => partner'[x] = partner[x]
    BY <1>3, <1>4 DEF IsQueued
  <2>3. /\ Range(sendq'[h]) = Range(sendq[h]) \ {i}
        /\ \A j, k \in DOMAIN sendq'[h] : sendq'[h][j] = sendq'[h][k] => j = k
    <3>1. /\ sendq'[h] = Without(sendq[h], i) /\ sendq[h] \in Seq(Threads)
          /\ \A j, k \in DOMAIN sendq[h] : sendq[h][j] = sendq[h][k] => j = k
      BY <1>3, <1>4 DEF IrqInv, QueueInv, SendQueueExact, IInv, TypeOK
    <3> QED BY <1>1, <3>1, WithoutRange
  <2> QED BY <1>1, <1>2, <1>3, <1>4, <2>1, <2>2, <2>3 DEF IrqInv, QueueInv, SendQueueExact
<1>16. IrqPhases'
  BY <1>1, <1>2, <1>3, <1>4 DEF IrqInv, QueueInv, IrqPhases, Irq
<1>17. Places' /\ NoAssertionFails'
  BY <1>1, <1>2, <1>3, <1>4 DEF IrqInv, SteadyInv, Places, NoAssertionFails
<1>18. Purposes'
  BY <1>1, <1>4 DEF IrqInv, SteadyInv, Purposes, Irq
<1>19. Partners'
  BY <1>1, <1>3, <1>4 DEF IrqInv, SteadyInv, Partners
<1>20. Registered'
  BY <1>1, <1>2, <1>3, <1>4, <1>6 DEF IrqInv, SteadyInv, Registered, Told, is_waiting
<1>21. Meeting'
  BY <1>1, <1>2, <1>3, <1>4, <1>6 DEF IrqInv, SteadyInv, Meeting, Asked
<1>22. Locked'
  BY <1>1, <1>2, <1>3, <1>4 DEF IrqInv, SteadyInv, Locked
<1>23. NoneMissed'
  BY <1>1, <1>2, <1>3, <1>4, <1>6 DEF IrqInv, SteadyInv, NoneMissed, Asked, Told, is_waiting
<1>24. IrqThreads' /\ LineInv'
  <2>1. pc' = [pc EXCEPT ![i] = "acked"] /\ \A j \in Irqs \ {i} : state'[j] = state[j] /\ partner'[j] = partner[j]
    BY <1>3, <1>4, IrqAssumption DEF IrqSend
  <2>2. i \in masked /\ state'[i] = "waiting_forever" /\ partner'[i] = handler[i] /\ handler[i] \in Threads
    BY <1>1, <1>2, <1>3, <1>4 DEF IrqInv, LineInv, h
  <2> QED BY <1>3, <1>4, <2>1, <2>2, LineKept
<1> QED
  BY <1>1, <1>4, <1>7, <1>8, <1>9, <1>10, <1>11, <1>12, <1>13, <1>14, <1>15,
     <1>16, <1>17, <1>18, <1>19, <1>20, <1>21, <1>22, <1>23, <1>24 DEF IrqInv, QueueInv, SteadyInv

\* Another handler, or none: the interrupt that waited for the old one is forgotten.
LEMMA AttachKeeps ==
  ASSUME LineUse, IrqInv, NEW i \in Irqs, NEW t \in Threads \ Irqs,
         NEW h \in (Threads \ Irqs) \cup {i, Bad}, AttachInterrupt(t, i, h)
  PROVE  IrqInv'
<1> DEFINE st == IF h = i THEN "aborted" ELSE "halted"
           a == IrqCall(i, h)
<1>1. /\ i \in Threads /\ Irq(i) /\ t \in Threads /\ current = t /\ pc[t] = "user" /\ t # i
      /\ alive = Threads /\ Idle \notin Threads /\ Nil \notin Threads /\ "attach" \in Env
  BY IrqAssumption, TcbAssumption DEF IrqInv, IrqThreads, SteadyInv, AttachInterrupt, AtUser, Does
<1>2. pc[i] = "irq" /\ state[i] # "locked_running"
  BY <1>1 DEF LineUse, AttachInterrupt, UsualAttach, Does, Irq, IrqInv, QueueInv, IrqPhases
<1>3. /\ IsQueued(i) <=> state[i] = "polling"
      /\ state[i] = "polling" => partner[i] \in Threads /\ i \in Range(sendq[partner[i]])
  BY <1>1, <1>2 DEF IsQueued, IrqInv, LineInv, QueueInv, SendQueueExact
<1>4. /\ \A x \in Threads :
           /\ state'[x] = IF x = i THEN st ELSE state[x]
           /\ arg'[x] = IF x = i THEN a ELSE arg[x]
           /\ sendq'[x] = IF IsQueued(i) /\ x = partner[i] THEN Without(sendq[x], i) ELSE sendq[x]
      /\ failed' = {}
      /\ UNCHANGED <<current, partner, sstate, spartner, ready, wakeup, pc, outer, xfer, tstate, alive>>
  BY <1>1, <1>3 DEF AttachInterrupt, Unqueued, DequeueFails, IrqInv, QueueInv, IInv, TypeOK
<1>5. /\ a \in Args /\ GoodArg(i, a) /\ a.kind = "none" /\ a.snd = "never"
      /\ h # i => a.to = h /\ a.from = h /\ a.sid = i
  <2>1. CASE h = i
    BY <1>1, <2>1, Values, KernelArgs DEF IrqCall
  <2>2. CASE h # i
    <3>1. a = [kind |-> "none", to |-> h, from |-> h, sid |-> i, snd |-> "never", rcv |-> "never", typed |-> FALSE]
      BY <2>2 DEF IrqCall, NoArg
    <3>2. h \in ids /\ i \in ids
      BY <1>1, Values
    <3> QED BY <1>1, <2>2, <3>1, <3>2, TcbAssumption, IdsDiffer DEF Args, Timeouts, GoodArg, IsSpecial, HasSent
  <2> QED BY <2>1, <2>2
<1>6. st \in {"aborted", "halted"}
  OBVIOUS
<1>7. TypeOK'
  <2>1. \A r \in Threads : Without(sendq[r], i) \in Seq(Threads)
    BY <1>1, WithoutType DEF IrqInv, QueueInv, IInv, TypeOK
  <2>2. sendq' \in [Threads -> Seq(Threads)]
    BY <2>1 DEF AttachInterrupt, Unqueued, IrqInv, QueueInv, IInv, TypeOK
  <2>3. state' \in [Threads -> ThreadStates]
    BY <1>6, Values DEF AttachInterrupt, IrqInv, QueueInv, IInv, TypeOK
  <2>4. arg' \in [Threads -> Args]
    BY <1>5 DEF AttachInterrupt, IrqInv, QueueInv, IInv, TypeOK
  <2> QED BY <1>4, <2>2, <2>3, <2>4 DEF IrqInv, QueueInv, IInv, TypeOK
<1> HIDE DEF st, a
<1>8. IInv'
  BY <1>1, <1>2, <1>4, <1>6, <1>7
     DEF IrqInv, QueueInv, IInv, ArgOK, NoLostThread, HasOuter, is_runnable, RunnableStates
<1>9. Untyped'
  BY <1>1, <1>4, <1>5 DEF IrqInv, QueueInv, Untyped
<1>10. SavedStates'
  BY <1>1, <1>2, <1>4, <1>5 DEF IrqInv, QueueInv, SavedStates, IrqPhases
<1>11. Living'
  BY <1>1, <1>4 DEF Living, IrqInv, QueueInv
<1>12. Phases'
  BY <1>1, <1>2, <1>4, <1>6 DEF IrqInv, QueueInv, Phases
<1>13. Receivers'
  BY <1>1, <1>2, <1>4, <1>6 DEF IrqInv, QueueInv, Receivers, Committed, Phases, is_receiving
<1>14. Pending'
  BY <1>1, <1>2, <1>4 DEF IrqInv, QueueInv, Pending
<1>15. TimeoutArmed'
  BY <1>1, <1>2, <1>4, <1>6 DEF IrqInv, QueueInv, TimeoutArmed
<1>16. SendQueueExact'
  <2>1. \A x \in Threads : IsQueued(x)' <=> IsQueued(x) /\ x # i
    BY <1>1, <1>2, <1>4, <1>6 DEF IsQueued
  <2> QED BY <1>1, <1>4, <2>1, LeaveQueue DEF IrqInv, QueueInv, IInv
<1>17. IrqPhases'
  BY <1>1, <1>2, <1>4, <1>5, <1>6 DEF IrqInv, QueueInv, IrqPhases, Irq
<1>18. Places' /\ NoAssertionFails'
  BY <1>1, <1>2, <1>4, <1>6 DEF IrqInv, SteadyInv, Places, NoAssertionFails
<1>19. Purposes'
  BY <1>1, <1>4 DEF IrqInv, SteadyInv, Purposes, Irq
<1>20. Partners'
  BY <1>1, <1>2, <1>4, <1>5 DEF IrqInv, SteadyInv, Partners, QueueInv, Phases
<1>21. Registered'
  BY <1>1, <1>2, <1>4, <1>6 DEF IrqInv, SteadyInv, Registered, Told, is_waiting
<1>22. Meeting'
  BY <1>1, <1>2, <1>4, <1>6 DEF IrqInv, SteadyInv, Meeting, QueueInv, Phases, Receivers, Committed, Asked
<1>23. Locked'
  BY <1>1, <1>2, <1>4, <1>6 DEF IrqInv, SteadyInv, Locked
<1>24. NoneMissed'
  BY <1>1, <1>2, <1>4, <1>6 DEF IrqInv, SteadyInv, NoneMissed, Asked, Told, is_waiting
<1>25. IrqThreads'
  BY <1>1, <1>4 DEF AttachInterrupt, IrqInv, IrqThreads, Irq
<1>26. LineInv'
  <2>1. \A j \in Irqs : handler'[j] = IF j = i THEN h ELSE handler[j]
    BY DEF AttachInterrupt, IrqInv, IrqThreads
  <2>2. \A j \in Irqs \ {i} : /\ j \in masked' <=> j \in masked
                              /\ j \in pending' => j \in pending
    BY DEF AttachInterrupt
  <2>3. IF h = i THEN i \in masked' /\ i \notin pending' /\ state'[i] = "aborted"
                 ELSE i \notin masked' /\ state'[i] = "halted"
    BY <1>1, <1>4 DEF AttachInterrupt, st
  <2>4. Irqs \subseteq Threads
    BY IrqAssumption
  <2> QED BY <1>1, <1>4, <1>5, <2>1, <2>2, <2>3, <2>4 DEF IrqInv, LineInv
<1> QED
  BY <1>1, <1>4, <1>8, <1>9, <1>10, <1>11, <1>12, <1>13, <1>14, <1>15, <1>16, <1>17, <1>18, <1>19,
     <1>20, <1>21, <1>22, <1>23, <1>24, <1>25, <1>26 DEF IrqInv, QueueInv, SteadyInv

\* An interrupt of a masked line changes no thread.
LEMMA RaiseMaskedKeeps ==
  ASSUME LineUse, IrqInv, NEW i \in Irqs, RaiseMasked(i)
  PROVE  IrqInv'
<1>1. UNCHANGED <<vars, handler, masked>>
  BY DEF RaiseMasked
<1>2. QueueInv' /\ SteadyInv'
  BY <1>1, EveryStep DEF LineUse, IrqInv
<1>3. IrqThreads'
  BY <1>1 DEF IrqInv, IrqThreads, Irq, vars
<1>4. \A j \in Irqs : handler[j] = j => (j \in pending' => j \in pending)
  BY DEF RaiseMasked, MarkedPending
<1>5. LineInv'
  BY <1>1, <1>4 DEF IrqInv, LineInv, vars
<1> QED BY <1>2, <1>3, <1>5 DEF IrqInv
-----------------------------------------------------------------------------
(* Theorems *)

\* At first every line is detached.
LEMMA IrqStart ==
  ASSUME LineUse
  PROVE  IrqInit => IrqInv
<1> SUFFICES ASSUME IrqInit PROVE IrqInv
  OBVIOUS
<1>1. /\ Idle \notin Threads /\ Nil \notin Threads /\ Irqs \subseteq Threads
      /\ NoArg \in Args /\ Nil \in ids /\ {"running", "aborted"} \subseteq ThreadStates
      /\ {"irq", "user"} \subseteq PCs
  BY TcbAssumption, IrqAssumption, Values DEF PCs
<1>2. /\ NoArg.kind = "none" /\ NoArg.snd = "never" /\ NoArg.to = Nil
      /\ \A t \in Threads : GoodArg(t, NoArg)
  BY KernelArgs DEF NoArg
<1>3. IInv
  <2>1. sendq \in [Threads -> Seq(Threads)]
    BY DEF IrqInit
  <2>2. TypeOK
    BY <1>1, <2>1 DEF IrqInit, TypeOK
  <2> QED BY <1>2, <2>2 DEF IrqInit, IInv, ArgOK, NoLostThread, HasOuter, is_runnable, RunnableStates
<1>4. Untyped /\ SavedStates /\ Living /\ Phases
  BY <1>1, <1>2 DEF IrqInit, Untyped, SavedStates, Living, Phases
<1>5. Receivers /\ Pending /\ TimeoutArmed
  BY DEF IrqInit, Receivers, Committed, Pending, TimeoutArmed
<1>6. SendQueueExact
  BY DEF IrqInit, SendQueueExact, IsQueued, Range
<1>7. IrqPhases
  BY <1>1, <1>2, IrqAssumption DEF IrqInit, IrqPhases, Irq, LineUse, SteadyUse
<1>8. NoAssertionFails /\ Places /\ Purposes /\ Partners
  BY <1>1, <1>2 DEF IrqInit, NoAssertionFails, Places, Purposes, Irq, Partners
<1>9. Registered /\ Meeting /\ Locked /\ NoneMissed
  BY DEF IrqInit, Registered, Meeting, Locked, NoneMissed, is_waiting
<1>10. IrqThreads
  BY <1>1 DEF IrqInit, IrqThreads, Irq
<1>11. LineInv
  BY <1>1 DEF IrqInit, LineInv
<1> QED
  BY <1>3, <1>4, <1>5, <1>6, <1>7, <1>8, <1>9, <1>10, <1>11 DEF IrqInit, IrqInv, QueueInv, SteadyInv

\* Every step of the kernel and of the interrupts keeps the invariant.
LEMMA IrqStep ==
  ASSUME LineUse
  PROVE  IrqInv /\ [IrqNext]_irqvars => IrqInv'
<1> SUFFICES ASSUME IrqInv, [IrqNext]_irqvars PROVE IrqInv'
  OBVIOUS
<1>1. CASE Next /\ UNCHANGED <<handler, masked, pending, due>>
  <2>1. QueueInv' /\ SteadyInv'
    BY <1>1, EveryStep DEF LineUse, IrqInv
  <2> QED BY <1>1, <2>1, NextKeepsThreads, NextKeepsLines DEF IrqInv
<1>2. ASSUME NEW i \in Irqs, Raise(i) \/ RaiseMasked(i) \/ IrqSend(i) \/ IrqAcked(i)
      PROVE  IrqInv'
  BY <1>2, RaiseKeeps, RaiseMaskedKeeps, IrqSendKeeps, IrqAckedKeeps
<1>3. ASSUME NEW i \in Irqs, NEW t \in Threads \ Irqs, NEW h \in (Threads \ Irqs) \cup {i, Bad},
             AttachInterrupt(t, i, h)
      PROVE  IrqInv'
  BY <1>3, AttachKeeps
<1>4. CASE UNCHANGED irqvars
  <2>1. QueueInv' /\ SteadyInv'
    BY <1>4, EveryStep DEF LineUse, IrqInv, irqvars
  <2>2. IrqThreads' /\ LineInv'
    BY <1>4 DEF IrqInv, IrqThreads, LineInv, Irq, irqvars, vars
  <2> QED BY <2>1, <2>2 DEF IrqInv
<1> QED BY <1>1, <1>2, <1>3, <1>4 DEF IrqNext

\* The invariant holds in every state of the kernel with its interrupts.
LEMMA IrqInvariant ==
  ASSUME LineUse
  PROVE  IrqSpec => []IrqInv
BY IrqStart, IrqStep, PTL DEF IrqSpec

\* A line is enabled while its thread is halted, and else its interrupt is under way.
LEMMA ServedLine ==
  ASSUME IrqInv, NEW i \in Irqs, handler[i] # i
  PROVE  /\ i \notin masked <=> state[i] = "halted"
         /\ i \in masked => InService(i) \/ (state[i] = "aborted" /\ handler[i] = Bad)
         /\ state[i] \in {"polling", "locked_running"} => i \in Range(sendq[handler[i]])
<1>1. i \in Threads /\ Irq(i) /\ state[i] \in ThreadStates
  BY IrqAssumption DEF IrqInv, IrqThreads, QueueInv, IInv, TypeOK
<1>2. state[i] \notin {"locked_running_ipc_done", "locked_waiting", "waiting_timeout"}
  BY <1>1 DEF IrqInv, QueueInv, IrqPhases, Phases, Irq
<1>3. state[i] \in {"polling", "locked_running", "waiting_forever", "running", "halted", "aborted"}
  BY <1>1, <1>2 DEF ThreadStates, BlockedStates, RunnableStates
<1>4. state[i] = "locked_running" => pc[i] = "irq"
  BY <1>1 DEF IrqInv, QueueInv, IrqPhases, Irq
<1>5. state[i] \in {"polling", "locked_running"} => i \in Range(sendq[handler[i]])
  BY <1>1, <1>4 DEF IrqInv, LineInv, QueueInv, SendQueueExact, IsQueued
<1> QED BY <1>3, <1>5 DEF IrqInv, LineInv, InService

\* An attached line is enabled exactly while its thread is halted, and a disabled one
\* has an interrupt on its way to the handler or back, unless there is no handler:
\* whatever aborts, timeouts, pagefaults and reattachments come between
\* handle_interrupt, irq_thread and the acknowledgement.
THEOREM LinesAreServed ==
  ASSUME LineUse
  PROVE  IrqSpec => []IrqLine
<1>1. IrqInv => IrqLine
  BY ServedLine DEF IrqLine
<1> QED BY <1>1, IrqInvariant, PTL

\* The send queues stay exact next to handle_interrupt, irq_thread and
\* thread_control_interrupt, which enqueue and dequeue past SYS_IPC.
THEOREM InterruptsQueueExactly ==
  ASSUME LineUse
  PROVE  IrqSpec => []SendQueueExact
<1>1. IrqInv => SendQueueExact
  BY DEF IrqInv, QueueInv
<1> QED BY <1>1, IrqInvariant, PTL

\* No assertion fails, that of handle_interrupt ("we should only receive irqs if the
\* thread is halted") and those of the queues it uses included.
THEOREM InterruptAssertionsHold ==
  ASSUME LineUse
  PROVE  IrqSpec => []NoAssertionFails
<1>1. IrqInv => NoAssertionFails
  BY DEF IrqInv, SteadyInv
<1> QED BY <1>1, IrqInvariant, PTL

(***************************************************************************)
(* What keeps an edge from being lost: the line is attached, and either the *)
(* interrupt thread carries it to the handler (or has none to carry it to), *)
(* or it is marked while the line is masked.                                *)
(***************************************************************************)
EdgeInv == \A i \in due :
  /\ i \in Irqs /\ handler[i] # i
  /\ \/ state[i] \in {"polling", "locked_running", "aborted"}
     \/ i \in pending /\ i \in masked

\* handle_interrupt keeps it: what it does not deliver is queued.
LEMMA HandleRemembers ==
  ASSUME LineUse, IrqInv, EdgeInv, NEW i \in Irqs, NEW next, Entered(i, next),
         handle_interrupt(i, current, next), UNCHANGED handler,
         masked \subseteq masked', pending \ {i} \subseteq pending'
  PROVE  EdgeInv'
<1>1. /\ \A j \in Irqs \ {i} : state'[j] = state[j]
      /\ due' \subseteq due \cup {i}
      /\ i \in due' => state'[i] \in {"polling", "aborted"}
      /\ handler[i] # i
  BY HandleEffect DEF Entered
<1> QED BY <1>1 DEF EdgeInv

\* Every step does.  An acknowledgement finds the thread told, so what is owed is marked.
LEMMA EdgeStep ==
  ASSUME LineUse, "apic" \notin Env, IrqInv, EdgeInv, [IrqNext]_irqvars
  PROVE  EdgeInv'
<1>1. CASE Next /\ UNCHANGED <<handler, masked, pending, due>>
  <2>1. \A i \in Irqs : state'[i] = state[i] \/ Accepted(i) \/ Acknowledged(i)
    BY <1>1, NextFrame, IrqAssumption DEF LineUse, IrqInv, IrqThreads, Frame
  <2> QED BY <1>1, <2>1 DEF EdgeInv, Accepted, Acknowledged
<1>2. ASSUME NEW i \in Irqs, Raise(i)
      PROVE  EdgeInv'
  BY <1>2, RaiseEntered, HandleRemembers DEF Raise, Masked
<1>3. ASSUME NEW i \in Irqs, RaiseMasked(i)
      PROVE  EdgeInv'
  BY <1>3 DEF EdgeInv, RaiseMasked, MarkedPending, Does, vars
<1>4. ASSUME NEW i \in Irqs, IrqSend(i)
      PROVE  EdgeInv'
  <2>1. \A j \in Irqs \ {i} : state'[j] = state[j]
    BY <1>4, IrqAssumption DEF IrqSend, IrqInv, QueueInv, IInv, TypeOK
  <2> QED BY <1>4, <2>1 DEF EdgeInv, IrqSend
<1>5. ASSUME NEW i \in Irqs, IrqAcked(i)
      PROVE  EdgeInv'
  <2>1. Entered(i, Idle) /\ current = i
    BY <1>5, AckedEntered
  <2>2. CASE i \in pending
    BY <1>5, <2>1, <2>2, HandleRemembers DEF IrqAcked, unmask
  <2>3. CASE i \notin pending
    <3>1. i \notin due
      BY <2>1, <2>3 DEF EdgeInv, Entered
    <3>2. \A j \in Irqs \ {i} : state'[j] = state[j]
      BY <1>5, <2>3, IrqAssumption DEF IrqAcked, unmask, IrqInv, QueueInv, IInv, TypeOK
    <3> QED BY <1>5, <2>3, <3>1, <3>2 DEF EdgeInv, IrqAcked, unmask
  <2> QED BY <2>2, <2>3
<1>6. ASSUME NEW i \in Irqs, NEW t \in Threads \ Irqs, NEW h \in (Threads \ Irqs) \cup {i, Bad},
             AttachInterrupt(t, i, h)
      PROVE  EdgeInv'
  <2>1. \A j \in Irqs \ {i} : state'[j] = state[j] /\ handler'[j] = handler[j]
    BY <1>6, IrqAssumption DEF AttachInterrupt, IrqInv, IrqThreads, QueueInv, IInv, TypeOK
  <2> QED BY <1>6, <2>1 DEF EdgeInv, AttachInterrupt
<1>7. CASE UNCHANGED irqvars
  BY <1>7 DEF EdgeInv, irqvars, vars
<1> QED BY <1>1, <1>2, <1>3, <1>4, <1>5, <1>6, <1>7 DEF IrqNext

\* No edge is lost, with a controller that marks it as its comment says: until the
\* handler is told of it, it is queued with the handler, or marked while the thread of
\* the masked line is on its way to the acknowledgement that looks at the mark; in
\* every order of interrupts, acknowledgements and what else the kernel does.
THEOREM EdgesAreRemembered ==
  ASSUME LineUse, "apic" \notin Env
  PROVE  IrqSpec => []EdgeRemembered
<1>1. IrqInit => EdgeInv
  BY DEF IrqInit, EdgeInv
<1>2. IrqInv /\ EdgeInv /\ [IrqNext]_irqvars => EdgeInv'
  BY EdgeStep
<1>3. IrqInv /\ EdgeInv => EdgeRemembered
  BY ServedLine DEF EdgeInv, EdgeRemembered
<1> QED BY <1>1, <1>2, <1>3, IrqInvariant, PTL DEF IrqSpec

\* A receiver whose partner is an interrupt thread asked for it, or for anybody.
Chosen ==
  /\ \A t \in Threads : GoodIds(t, arg[t])
  /\ \A r \in Threads : pc[r] \in {"rcvwait", "special"} /\ partner[r] \in Irqs =>
       arg[r].from \in {partner[r], AnyThread}

\* A thread may send in the name of another, or wait for local threads, not both:
\* or else a local thread passes for an interrupt thread, which is not local.
OneName == ~({"propagate", "anylocal"} \subseteq Env)

\* A step of the kernel tells a receiver only of senders it asked for.
LEMMA NextChooses ==
  ASSUME LineUse, OneName, IrqInv, Chosen, Next
  PROVE  Chosen'
<1> SUFFICES ASSUME NEW x \in Threads
             PROVE  /\ GoodIds(x, arg'[x])
                    /\ pc'[x] \in {"rcvwait", "special"} /\ partner'[x] \in Irqs =>
                         arg'[x].from \in {partner'[x], AnyThread}
  BY DEF Chosen, GoodIds
<1>1. Frame(x) /\ GoodIds(x, arg[x])
  BY NextFrame DEF LineUse, IrqInv, Chosen
<1>2. CASE GoesOn(x)
  BY <1>1, <1>2 DEF GoesOn
<1>3. CASE pc'[x] = pc[x] /\ arg'[x] = arg[x] /\ partner'[x] = partner[x]
  BY <1>1, <1>3 DEF Chosen
<1>4. CASE pc'[x] = pc[x] /\ arg'[x] = arg[x] /\ Learns(x)
  <2> SUFFICES ASSUME pc[x] \in {"rcvwait", "special"}, partner'[x] \in Irqs
               PROVE  arg[x].from \in {partner'[x], AnyThread}
    BY <1>1, <1>4
  <2>1. PICK t \in Threads : pc[t] = "xfer" /\ arg[t].to = x /\ partner'[x] = arg[t].sid
    BY <1>4 DEF Learns
  <2>2. state[x] # "locked_waiting"
    BY DEF IrqInv, QueueInv, Phases
  <2>3. Asked(x, arg[t].sid, t)
    BY <2>1, <2>2 DEF IrqInv, SteadyInv, Meeting
  <2>4. t \notin Irqs
    BY <2>1, IrqAssumption DEF IrqInv, IrqThreads, Irq
  <2>5. "propagate" \in Env
    BY <2>1, <2>4, TcbAssumption DEF Chosen, GoodIds
  <2>6. arg[x].from # AnyLocal
    BY <1>1, <2>5 DEF OneName, GoodIds
  <2> QED BY <2>1, <2>3, <2>6 DEF Asked
<1> QED BY <1>1, <1>2, <1>3, <1>4 DEF Frame

\* And so does a step of the interrupts.
LEMMA IrqChooses ==
  ASSUME LineUse, IrqInv, IrqInv', Chosen, NEW i \in Irqs,
         Raise(i) \/ RaiseMasked(i) \/ IrqSend(i) \/ IrqAcked(i)
  PROVE  Chosen'
<1>1. UNCHANGED arg /\ i \in Threads
  BY IrqAssumption DEF Raise, RaiseMasked, IrqSend, IrqAcked, vars
<1>2. \A r \in Threads : pc'[r] \in {"rcvwait", "special"} => pc'[r] = pc[r] /\ r \notin Irqs
  BY <1>1 DEF IrqInv, IrqThreads, Irq, QueueInv, IInv, TypeOK,
              Raise, RaiseMasked, IrqSend, IrqAcked, vars
<1>3. ASSUME NEW c, NEW next, handle_interrupt(i, c, next),
             \A x \in Threads : x = current => Irq(x) \/ pc[x] = "user",
             NEW r \in Threads, pc[r] \in {"rcvwait", "special"}, r \notin Irqs
      PROVE  partner'[r] = partner[r] \/ (partner'[r] = i /\ arg[r].from \in {i, AnyThread})
  <2>1. r # current /\ ~Told(r)
    BY <1>3 DEF Told, Irq, IrqInv, QueueInv, Phases
  <2>2. CASE Delivered(i, c, next) /\ r = handler[i]
    <3>1. is_waiting(state[r]) /\ partner[r] \in {i, AnyThread} /\ partner'[r] = i
      BY <1>1, <1>3, <2>2 DEF Delivered, IsWaitingFor, IrqInv, QueueInv, IInv, TypeOK
    <3> QED BY <2>1, <3>1 DEF IrqInv, SteadyInv, Registered
  <2>3. CASE ~(Delivered(i, c, next) /\ r = handler[i])
    BY <1>1, <1>3, <2>3 DEF handle_interrupt, NotDelivered, Delivered, Deferred, IrqInv, QueueInv, IInv, TypeOK
  <2> QED BY <2>2, <2>3
<1>4. ASSUME NEW r \in Threads, pc'[r] \in {"rcvwait", "special"}
      PROVE  partner'[r] = partner[r] \/ (partner'[r] = i /\ arg[r].from \in {i, AnyThread})
  <2>1. pc[r] \in {"rcvwait", "special"} /\ r \notin Irqs /\ r # i
    BY <1>2, <1>4
  <2>2. CASE Raise(i)
    <3>1. handle_interrupt(i, current, current) /\ \A x \in Threads : x = current => pc[x] = "user"
      BY <2>2, TcbAssumption DEF Raise, InterruptsOn
    <3> QED BY <1>3, <2>1, <3>1
  <2>3. CASE IrqAcked(i)
    <3>1. current = i /\ Irq(i)
      BY <2>3 DEF IrqAcked, InKernel, Irq
    <3>2. handle_interrupt(i, i, Idle) \/ UNCHANGED partner
      BY <2>3 DEF IrqAcked
    <3> QED BY <1>3, <2>1, <3>1, <3>2
  <2>4. CASE IrqSend(i)
    <3>1. partner' = [partner EXCEPT ![handler[i]] = i, ![i] = handler[i]] /\ current = i /\ pc[i] = "irq"
          /\ Queued(i)
      BY <2>4 DEF IrqSend, InKernel
    <3>2. IsQueued(i)
      BY <1>1, <3>1 DEF Queued, IrqInv, QueueInv, SendQueueExact
    <3>3. state[i] = "locked_running"
      BY <1>1, <3>1, <3>2 DEF IsQueued, IrqInv, QueueInv, Phases
    <3>4. arg[i].to = handler[i] /\ Committed(i)
      BY <3>1, <3>3 DEF Committed, IrqInv, LineInv
    <3>5. state[handler[i]] = "locked_waiting" /\ handler[i] \in Threads
      BY <1>1, <3>1, <3>4 DEF IrqInv, QueueInv, Receivers
    <3>6. handler[i] # r
      BY <2>1, <3>5 DEF IrqInv, QueueInv, Phases
    <3> QED BY <2>1, <3>1, <3>6 DEF IrqInv, QueueInv, IInv, TypeOK
  <2>5. CASE RaiseMasked(i)
    BY <2>5 DEF RaiseMasked, vars
  <2> QED BY <2>2, <2>3, <2>4, <2>5
<1>5. ASSUME NEW r \in Threads, pc'[r] \in {"rcvwait", "special"}, partner'[r] \in Irqs
      PROVE  arg'[r].from \in {partner'[r], AnyThread}
  BY <1>1, <1>2, <1>4, <1>5 DEF Chosen
<1>6. \A t \in Threads : GoodIds(t, arg'[t])
  BY <1>1 DEF Chosen
<1> QED BY <1>5, <1>6 DEF Chosen, GoodIds

\* The call of an interrupt thread names its handler.
LEMMA AttachChooses ==
  ASSUME LineUse, IrqInv, Chosen, NEW i \in Irqs, NEW t \in Threads \ Irqs,
         NEW h \in (Threads \ Irqs) \cup {i, Bad}, AttachInterrupt(t, i, h)
  PROVE  Chosen'
<1>1. /\ i \in Threads /\ UNCHANGED <<pc, partner>> /\ pc[i] \notin {"rcvwait", "special"}
      /\ \A x \in Threads : arg'[x] = IF x = i THEN IrqCall(i, h) ELSE arg[x]
  BY IrqAssumption DEF AttachInterrupt, IrqInv, IrqThreads, Irq, QueueInv, IInv, TypeOK
<1>2. GoodIds(i, IrqCall(i, h))
  BY <1>1, KernelIds, IdsDiffer, TcbAssumption DEF GoodIds, IrqCall, NoArg
<1>3. \A x \in Threads : GoodIds(x, arg'[x])
  BY <1>1, <1>2 DEF Chosen
<1>4. ASSUME NEW r \in Threads, pc'[r] \in {"rcvwait", "special"}, partner'[r] \in Irqs
      PROVE  arg'[r].from \in {partner'[r], AnyThread}
  BY <1>1, <1>4 DEF Chosen
<1> QED BY <1>3, <1>4 DEF Chosen, GoodIds

\* No interrupt is queued for a handler that waits for it and has no message, and none
\* ends the wait of a thread that waits for something else: the shortcut of
\* handle_interrupt keeps the rules of SYS_IPC.
THEOREM InterruptsMeetHandlers ==
  ASSUME LineUse, OneName, "snd_timeout" \notin Env
  PROVE  IrqSpec => []InterruptMeetsHandler
<1>1. IrqInit => IrqInv /\ Chosen
  <2>1. IrqInit => Chosen
    <3>1. \A t \in Threads : GoodIds(t, NoArg)
      BY KernelIds
    <3> QED BY <3>1 DEF IrqInit, Chosen
  <2> QED BY <2>1, IrqStart
<1>2. ASSUME IrqInv, Chosen, [IrqNext]_irqvars
      PROVE  IrqInv' /\ Chosen'
  <2>1. IrqInv'
    BY <1>2, IrqStep
  <2>2. CASE UNCHANGED irqvars
    BY <1>2, <2>1, <2>2 DEF Chosen, GoodIds, irqvars, vars
  <2>3. CASE IrqNext
    BY <1>2, <2>1, <2>3, NextChooses, IrqChooses, AttachChooses DEF IrqNext
  <2> QED BY <1>2, <2>1, <2>2, <2>3
<1>3. ASSUME IrqInv, Chosen
      PROVE  InterruptMeetsHandler
  <2> SUFFICES ASSUME NEW i \in Irqs, NEW h \in Threads
               PROVE  /\ state[i] = "polling" /\ partner[i] = h /\ is_waiting(state[h]) /\ AskedFor(h, i, i)
                           => HasMessage(h)
                      /\ partner[h] = i /\ pc[h] \in {"rcvwait", "special"} => AskedFor(h, i, i)
    BY DEF InterruptMeetsHandler
  <2>1. i \in Threads /\ \A r, s, t \in Threads : AskedFor(r, s, t) <=> Asked(r, s, t)
    BY <1>3, SteadyWords, IrqAssumption DEF IrqInv
  <2>2. state[i] = "polling" => arg[i].sid = i
    BY <1>3 DEF IrqInv, LineInv
  <2>3. \A r \in Threads : Told(r) => HasMessage(r)
    BY <1>3, SteadyWords DEF IrqInv
  <2>4. state[i] = "polling" /\ partner[i] = h /\ is_waiting(state[h]) /\ Asked(h, i, i) => Told(h)
    BY <1>3, <2>1, <2>2 DEF IrqInv, SteadyInv, NoneMissed
  <2>5. partner[h] = i /\ pc[h] \in {"rcvwait", "special"} => Asked(h, i, i)
    BY <1>3 DEF Chosen, Asked
  <2> QED BY <2>1, <2>3, <2>4, <2>5
<1>4. IrqInv /\ Chosen /\ [IrqNext]_irqvars => IrqInv' /\ Chosen'
  BY <1>2
<1>5. IrqInv /\ Chosen => InterruptMeetsHandler
  BY <1>3
<1> QED BY <1>1, <1>4, <1>5, PTL DEF IrqSpec

\* Next to interrupts the kernel keeps what it promises without: no runnable thread is
\* lost, every finite timeout is pending, messages meet receivers that asked for them,
\* no receiver stays locked or registered with another partner than it named, and
\* at user level threads run.
THEOREM InterruptsKeepPromises ==
  ASSUME LineUse
  PROVE  IrqSpec => [](/\ NoLostThread /\ TimeoutArmed /\ Rendezvous /\ LockedPair
                       /\ DeliveryEndsWait /\ UserLevelRuns)
<1>1. IrqInv => /\ NoLostThread /\ TimeoutArmed /\ Rendezvous /\ LockedPair
                /\ DeliveryEndsWait /\ UserLevelRuns
  BY SteadyPromises DEF IrqInv, QueueInv, IInv
<1> QED BY <1>1, IrqInvariant, PTL
=============================================================================
