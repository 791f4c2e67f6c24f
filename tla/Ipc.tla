--------------------------------- MODULE Ipc ---------------------------------
(***************************************************************************)
(* sys_ipc of the uniprocessor kernel (api/backup/ipc.cc), the pagefault    *)
(* IPC the kernel sends for a thread, and the handlers that end an aborted  *)
(* or timed-out IPC (thread.cc).  A system call that does not block is a    *)
(* chain of the phases below; nothing else can run between two of them.     *)
(***************************************************************************)
EXTENDS Tcb

\* The timeouts a user program passes in one phase.
Phase(what) == {"never"} \cup {x \in {"zero"} : Does("poll")} \cup {x \in {"finite"} : Does(what)}

\* The send and the receive part of the ipc system calls thread t may make.
SendArgs(t) == [to : Threads \cup {x \in {Bad} : Does("bad_to")},
                sid : {t} \cup {v \in Threads : Does("propagate")},
                snd : Phase("snd_timeout"),
                typed : {FALSE} \cup {x \in {TRUE} : Does("typed")}]
RecvArgs == [from : Threads \cup {AnyThread} \cup {x \in {AnyLocal} : Does("anylocal")}
                            \cup {x \in {Bad} : Does("bad_from")},
             rcv : Phase("rcv_timeout")]
NoSend(t) == [to |-> Nil, sid |-> t, snd |-> "never", typed |-> FALSE]
NoRecv == [from |-> Nil, rcv |-> "never"]

Call(s, r) == [kind |-> "user", to |-> s.to, from |-> r.from, sid |-> s.sid,
               snd |-> s.snd, rcv |-> r.rcv, typed |-> s.typed]

UserArgs(t) == {Call(s, NoRecv) : s \in SendArgs(t)}
               \cup {Call(NoSend(t), r) : r \in RecvArgs}
               \cup {Call(s, r) : s \in {x \in SendArgs(t) : Does("call")}, r \in RecvArgs}

\* The propagation check: who the receiver is told the message comes from.
SenderId(t, a) ==
  IF a.sid # t /\ a.to \in Threads /\ Exists(a.sid)
     /\ (Space[t] = Space[a.sid] \/ Space[t] = Space[a.to])
  THEN a.sid ELSE t

\* mutant: any waiting thread will do
MutAnyWaiter(r, t, sid) == is_waiting(state[r])

\* to_tcb is waiting, and for the sender, anybody or anybody of its space.
Accepts(r, t, sid) ==
  /\ is_waiting(state[r])
  /\ \/ partner[r] \in {sid, AnyThread}
     \/ partner[r] = AnyLocal /\ Space[r] = Space[t]

\* A wait for any local thread takes the head of the send queue, whatever space that
\* is in ("#warning wait_local incorrect"): here the head is local, or there is none.
HeadIsLocal(t, a) == a.to = Nil /\ (sendq[t] # <<>> => Space[Head(sendq[t])] = Space[t])

(***************************************************************************)
(* The calls whose treatment by the kernel is questionable (README) are     *)
(* left out of a run unless its Env names them.                             *)
(***************************************************************************)
Usual(t, a) ==
  /\ a.to = t \/ a.from = t => Does("self")
  /\ a.to # Nil /\ a.from = Bad => Does("bad_call")
  /\ a.to \in Threads /\ a.from # Nil => pc[a.to] # "startup" \/ Does("startup_call")
  /\ a.from = AnyLocal /\ ~HeadIsLocal(t, a) => Does("wait_local")

SysIpc(t) ==
  /\ AtUser(t)
  /\ \E a \in UserArgs(t) :
       /\ Usual(t, a)
       /\ arg' = [arg EXCEPT ![t] = [a EXCEPT !.sid = SenderId(t, a)]]
       /\ pc' = [pc EXCEPT ![t] = IF a.to = Nil THEN "recv" ELSE "send"]
  /\ UNCHANGED <<current, state, partner, sstate, spartner, ready, wakeup, sendq,
                 outer, xfer, tstate, alive, failed>>

\* The arguments of send_pagefault_ipc.
PagefaultArg(t) == [NoArg EXCEPT !.kind = "pf", !.to = Pager[t], !.from = Pager[t], !.sid = t]

\* The assertions of save_state.
SaveFails(t) == IF spartner[t] = Nil /\ sstate[t] = "aborted" THEN {} ELSE {"save_state"}

\* handle_pagefault at user level forgets the partner, saves the state and sends
\* an IPC to and from the pager.
PageFault(t) ==
  /\ AtUser(t) /\ Does("fault") /\ Pager[t] # t
  /\ partner' = [partner EXCEPT ![t] = Nil]
  /\ spartner' = [spartner EXCEPT ![t] = Nil]
  /\ sstate' = [sstate EXCEPT ![t] = state[t]]
  /\ failed' = SaveFails(t)
  /\ arg' = [arg EXCEPT ![t] = PagefaultArg(t)]
  /\ pc' = [pc EXCEPT ![t] = "send"]
  /\ UNCHANGED <<current, state, ready, wakeup, sendq, outer, xfer, tstate, alive>>

HasOuter(t) == outer[t].kind # "none"

\* The state restore_state gives back; mutant: running, whatever was interrupted.
MutRunsOn(t) == "running"
RestoredState(t) == sstate[t]

(***************************************************************************)
(* The end of sys_ipc: t returns to user level in state st.  When the IPC   *)
(* was a pagefault's, restore_state follows, and the interrupted copy, if   *)
(* any, goes on.                                                            *)
(***************************************************************************)
Return(t, st, par) ==
  IF arg[t].kind = "pf"
  THEN /\ state' = [st EXCEPT ![t] = RestoredState(t)]
       /\ partner' = [par EXCEPT ![t] = spartner[t]]
       /\ spartner' = [spartner EXCEPT ![t] = Nil]
       /\ sstate' = [sstate EXCEPT ![t] = "aborted"]
       /\ pc' = [pc EXCEPT ![t] = IF HasOuter(t) THEN "copy" ELSE "user"]
       /\ arg' = [arg EXCEPT ![t] = outer[t]]
       /\ outer' = [outer EXCEPT ![t] = NoArg]
  ELSE /\ state' = st /\ partner' = par
       /\ pc' = [pc EXCEPT ![t] = "user"]
       /\ arg' = [arg EXCEPT ![t] = NoArg]
       /\ UNCHANGED <<sstate, spartner, outer>>

\* t continues as a running thread; mutant: its state is left as it is.
MutSameState(t) == state
Running(t) == [state EXCEPT ![t] = "running"]

\* An ipc error; for a pagefault IPC the kernel stops in enter_kdebug.
Stopped(t) == IF arg[t].kind = "pf" THEN {"pagefault IPC error"} ELSE {}
-----------------------------------------------------------------------------
(* Send phase *)

SendNonExisting(t) ==
  /\ InKernel(t, "send") /\ ~Exists(arg[t].to)
  /\ Return(t, state, partner)
  /\ failed' = Stopped(t)
  /\ UNCHANGED <<current, ready, wakeup, sendq, xfer, tstate, alive>>

SendReady(t) ==
  /\ InKernel(t, "send") /\ Exists(arg[t].to)
  /\ Accepts(arg[t].to, t, arg[t].sid)
  /\ pc' = [pc EXCEPT ![t] = "xfer"]
  /\ UNCHANGED <<current, state, partner, sstate, spartner, ready, wakeup, sendq,
                 arg, outer, xfer, tstate, alive, failed>>

SendZeroTimeout(t) ==
  /\ InKernel(t, "send") /\ Exists(arg[t].to) /\ arg[t].snd = "zero"
  /\ ~Accepts(arg[t].to, t, arg[t].sid)
  /\ Return(t, Running(t), partner)
  /\ UNCHANGED <<current, ready, wakeup, sendq, xfer, tstate, alive, failed>>

\* The receiver is not ready: queue up with it and switch to the idle thread.
SendBlock(t) ==
  LET r == arg[t].to IN
  /\ InKernel(t, "send") /\ Exists(r) /\ arg[t].snd # "zero"
  /\ ~Accepts(r, t, arg[t].sid)
  /\ wakeup' = Armed(t, arg[t].snd)
  /\ sendq' = [sendq EXCEPT ![r] = Append(@, t)]
  /\ failed' = {m \in {"set_timeout", "enqueue_send"} :
                  \/ m = "set_timeout" /\ arg[t].snd = "finite" /\ t \in wakeup
                  \/ m = "enqueue_send" /\ \E q \in Threads : t \in Range(sendq[q])}
  /\ partner' = [partner EXCEPT ![t] = r]
  /\ state' = [state EXCEPT ![t] = "polling"]
  /\ pc' = [pc EXCEPT ![t] = "polled"]
  /\ current' = Idle
  /\ UNCHANGED <<sstate, spartner, ready, arg, outer, xfer, tstate, alive>>

\* Re-activated by the receiver: leave the wakeup list and the send queue.
SendResume(t) ==
  LET r == arg[t].to IN
  /\ InKernel(t, "polled")
  /\ wakeup' = Cancelled(t)
  /\ sendq' = [sendq EXCEPT ![r] = Without(@, t)]
  /\ failed' = IF t \in Range(sendq[r]) THEN {} ELSE {"dequeue_send"}
  /\ pc' = [pc EXCEPT ![t] = "xfer"]
  /\ UNCHANGED <<current, state, partner, sstate, spartner, ready, arg, outer, xfer, tstate, alive>>

\* After the message t goes on with the rest of sys_ipc.
AfterSend(t) == pc' = [pc EXCEPT ![t] = IF arg[t].from = Nil THEN "snddone" ELSE "recv"]

\* set_partner, and transfer_message of untyped words only.
Transfer(t) ==
  /\ InKernel(t, "xfer") /\ ~arg[t].typed
  /\ partner' = [partner EXCEPT ![arg[t].to] = arg[t].sid]
  /\ AfterSend(t)
  /\ UNCHANGED <<current, state, sstate, spartner, ready, wakeup, sendq,
                 arg, outer, xfer, tstate, alive, failed>>

\* set_partner and the start of extended_transfer: both threads are locked.
ExtendedTransfer(t) ==
  LET r == arg[t].to IN
  /\ InKernel(t, "xfer") /\ arg[t].typed
  /\ state' = [state EXCEPT ![t] = "locked_running", ![r] = "locked_waiting"]
  /\ partner' = [partner EXCEPT ![r] = arg[t].sid, ![t] = r]
  /\ pc' = [pc EXCEPT ![t] = "copy"]
  /\ UNCHANGED <<current, sstate, spartner, ready, wakeup, sendq,
                 arg, outer, xfer, tstate, alive, failed>>

\* extended_transfer succeeds.
CopyDone(t) ==
  /\ InKernel(t, "copy")
  /\ wakeup' = Cancelled(t)
  /\ xfer' = xfer \ {t}
  /\ AfterSend(t)
  /\ UNCHANGED <<current, state, partner, sstate, spartner, ready, sendq,
                 arg, outer, tstate, alive, failed>>

\* extended_transfer overflows: activate the partner and return.  If that is a
\* faulting thread the kernel stops in enter_kdebug.  (So it does for a message of
\* more than IPC_NUM_MR words, before anybody is locked; no model sends one.)
CopyOverflow(t) ==
  LET r == arg[t].to IN
  /\ InKernel(t, "copy") /\ Does("overflow")
  /\ arg[r].kind = "pf" => Does("reply_overflow")
  /\ wakeup' = Cancelled(t)
  /\ Return(t, [state EXCEPT ![r] = "running"], partner)
  /\ ready' = Enqueued(r)
  /\ failed' = Stopped(r)
  /\ UNCHANGED <<current, sendq, xfer, tstate, alive>>

\* The users may ask for a transfer timeout, but no pager does when it replies to a
\* pagefault raised in a copy, unless Env says so.
FiniteXfer(t) ==
  /\ Does("xfer_timeout") /\ t \notin xfer
  /\ HasOuter(arg[t].to) => Does("reply_timeout")

(***************************************************************************)
(* The copy touches an unmapped page of the sender.  handle_xfer_timeouts   *)
(* sets the transfer timeout of the two threads unless one is pending; then *)
(* the pagefault IPC runs inside this one.                                  *)
(***************************************************************************)
CopyFault(t) ==
  /\ InKernel(t, "copy") /\ Does("copyfault") /\ Pager[t] # t
  /\ \E timeout \in {"never"} \cup {x \in {"finite"} : FiniteXfer(t)} :
       /\ wakeup' = Armed(t, timeout)
       /\ xfer' = IF timeout = "finite" THEN xfer \cup {t} ELSE xfer
       /\ failed' = SaveFails(t) \cup
                    IF timeout = "finite" /\ t \in wakeup THEN {"set_timeout"} ELSE {}
  /\ spartner' = [spartner EXCEPT ![t] = partner[t]]
  /\ sstate' = [sstate EXCEPT ![t] = state[t]]
  /\ outer' = [outer EXCEPT ![t] = arg[t]]
  /\ arg' = [arg EXCEPT ![t] = PagefaultArg(t)]
  /\ pc' = [pc EXCEPT ![t] = "send"]
  /\ UNCHANGED <<current, state, partner, ready, sendq, tstate, alive>>

\* The copy faults with a zero transfer timeout: handle_ipc_timeout(locked_running),
\* at once.
CopyZeroTimeout(t) ==
  /\ InKernel(t, "copy") /\ Does("xfer_zero") /\ t \notin xfer
  /\ HasOuter(arg[t].to) => Does("reply_timeout")
  /\ pc' = [pc EXCEPT ![t] = "timeout"]
  /\ tstate' = [tstate EXCEPT ![t] = "locked_running"]
  /\ UNCHANGED <<current, state, partner, sstate, spartner, ready, wakeup, sendq,
                 arg, outer, xfer, alive, failed>>

\* The state of a receiver with its message; a nested IPC is a pagefault's.
\* mutant: only a nested receiver is marked
MutStillWaiting(r) == IF spartner[r] = Nil THEN state[r] ELSE "locked_running_ipc_done"
DoneState(r) == IF spartner[r] = Nil THEN "running" ELSE "locked_running_ipc_done"

\* "send finished" of a send-only IPC: run the receiver if it may preempt t.
SendDone(t) ==
  LET r == arg[t].to
  IN /\ InKernel(t, "snddone")
     /\ Return(t, [state EXCEPT ![r] = DoneState(r), ![t] = "running"], partner)
     /\ IF check_dispatch_thread(t, r)
        THEN current' = r /\ ready' = Enqueued(t) /\ UNCHANGED wakeup
        ELSE ready' = Enqueued(r) /\ wakeup' = Cancelled(r) /\ UNCHANGED current
     /\ UNCHANGED <<sendq, xfer, tstate, alive, failed>>
-----------------------------------------------------------------------------
(* Receive phase *)

\* mutant: to_tcb taken for set even in a pure receive
MutNoNullCheck(a) == TRUE
HasSent(a) == a.to # Nil
IsSpecial(a) == HasSent(a) /\ a.from = a.to /\ a.snd = "never" /\ a.rcv = "never"

\* The candidate sender: the head of the send queue, or the thread waited for.
FromTcb(t, a) ==
  IF a.from \in {AnyThread, AnyLocal}
  THEN IF sendq[t] = <<>> THEN Nil ELSE Head(sendq[t])
  ELSE a.from

\* mutant: a closed wait does not look for a queued sender
MutOpenOnly(t, a) ==
  LET f == FromTcb(t, a)
  IN a.from = AnyThread /\ f \in Threads /\ state[f] = "polling" /\ partner[f] = t

PartnerReady(t, a) ==
  LET f == FromTcb(t, a)
  IN f \in Threads /\ state[f] = "polling" /\ partner[f] = t

RecvExists(a) == a.from \in {AnyThread, AnyLocal} \/ Exists(a.from)

\* Once t waits, only the partner it named and the kind of the IPC still matter.
Waiting(t) == arg' = [arg EXCEPT ![t] = [NoArg EXCEPT !.kind = arg[t].kind, !.from = arg[t].from]]

\* Call to a single thread with infinite timeouts: switch to it directly.
RecvSpecial(t) ==
  /\ InKernel(t, "recv") /\ IsSpecial(arg[t])
  /\ partner' = [partner EXCEPT ![t] = arg[t].from]
  /\ state' = [state EXCEPT ![t] = "waiting_forever"]
  /\ pc' = [pc EXCEPT ![t] = "special"]
  /\ current' = arg[t].to
  /\ Waiting(t)
  /\ UNCHANGED <<sstate, spartner, ready, wakeup, sendq, outer, xfer, tstate, alive, failed>>

RecvNonExisting(t) ==
  /\ InKernel(t, "recv") /\ ~IsSpecial(arg[t]) /\ ~RecvExists(arg[t])
  /\ Return(t, state, partner)
  /\ UNCHANGED <<current, ready, wakeup, sendq, xfer, tstate, alive, failed>>

\* Nobody is sending and the timeout is zero: donate the time slice, if any.
RecvZeroTimeout(t) ==
  LET a == arg[t] IN
  /\ InKernel(t, "recv") /\ ~IsSpecial(a) /\ RecvExists(a) /\ ~PartnerReady(t, a)
  /\ a.rcv = "zero"
  /\ Return(t, Running(t), partner)
  /\ IF HasSent(a) THEN current' = a.to /\ ready' = Enqueued(t)
                   ELSE UNCHANGED <<current, ready>>
  /\ UNCHANGED <<wakeup, sendq, xfer, tstate, alive, failed>>

RecvBlock(t) ==
  LET a == arg[t] IN
  /\ InKernel(t, "recv") /\ ~IsSpecial(a) /\ RecvExists(a) /\ ~PartnerReady(t, a)
  /\ a.rcv # "zero"
  /\ wakeup' = Armed(t, a.rcv)
  /\ failed' = IF a.rcv = "finite" /\ t \in wakeup THEN {"set_timeout"} ELSE {}
  /\ state' = [state EXCEPT ![t] = IF a.rcv = "finite" THEN "waiting_timeout"
                                                        ELSE "waiting_forever"]
  /\ partner' = [partner EXCEPT ![t] = a.from]
  /\ pc' = [pc EXCEPT ![t] = "rcvwait"]
  /\ current' = IF HasSent(a) THEN a.to ELSE Idle
  /\ Waiting(t)
  /\ UNCHANGED <<sstate, spartner, ready, sendq, outer, xfer, tstate, alive>>

\* A sender is queued: lock both sides and run the sender, or the thread just
\* sent to when it has the higher priority.
RecvPartner(t) ==
  LET a == arg[t]
      f == FromTcb(t, a)
      locked == [state EXCEPT ![f] = "locked_running", ![t] = "locked_waiting"]
  IN /\ InKernel(t, "recv") /\ ~IsSpecial(a) /\ RecvExists(a) /\ PartnerReady(t, a)
     /\ pc' = [pc EXCEPT ![t] = "lockwait"]
     /\ IF HasSent(a) /\ check_dispatch_thread(f, a.to)
        THEN /\ state' = locked
             /\ wakeup' = Cancelled(f)
             /\ ready' = Enqueued(f)
             /\ current' = a.to
        ELSE /\ state' = IF HasSent(a) THEN [locked EXCEPT ![a.to] = "running"] ELSE locked
             /\ ready' = IF HasSent(a) THEN Enqueued(a.to) ELSE ready
             /\ current' = f
             /\ UNCHANGED wakeup
     /\ Waiting(t)
     /\ UNCHANGED <<partner, sstate, spartner, sendq, outer, xfer, tstate, alive, failed>>

\* Re-activated with a message.
RecvResume(t) ==
  /\ \E where \in {"rcvwait", "special", "lockwait"} :
       /\ InKernel(t, where)
       /\ wakeup' = IF where = "rcvwait" THEN Cancelled(t) ELSE wakeup
  /\ Return(t, Running(t), partner)
  /\ UNCHANGED <<current, ready, sendq, xfer, tstate, alive, failed>>
-----------------------------------------------------------------------------
(* Handlers on the stack of a thread whose IPC ended without a message *)

\* thread_startup, after the startup message from the pager.
ThreadStartup(t) ==
  /\ InKernel(t, "startup")
  /\ sstate' = [sstate EXCEPT ![t] = "aborted"]
  /\ pc' = [pc EXCEPT ![t] = "user"]
  /\ UNCHANGED <<current, state, partner, spartner, ready, wakeup, sendq,
                 arg, outer, xfer, tstate, alive, failed>>

(***************************************************************************)
(* handle_ipc_error, entered with partners par, saved states sv and saved   *)
(* partners sp.  It leaves the kernel through return_from_user_interruption *)
(* when the saved state says that the IPC was a pagefault, and through      *)
(* return_from_ipc otherwise.                                               *)
(***************************************************************************)
IpcError(t, par, sv, sp) ==
  /\ arg' = [arg EXCEPT ![t] = NoArg]
  /\ outer' = [outer EXCEPT ![t] = NoArg]
  /\ xfer' = xfer \ {t}
  /\ sstate' = [sv EXCEPT ![t] = "aborted"]
  /\ IF sv[t] = "running"
     THEN partner' = [par EXCEPT ![t] = sp[t]] /\ spartner' = [sp EXCEPT ![t] = Nil]
     ELSE partner' = par /\ spartner' = sp

\* The exit must fit the entry: a system call, or a pagefault at user level.
WrongExit(t, sv) ==
  IF (sv[t] = "running") # ((arg[t].kind = "pf" /\ ~HasOuter(t)) \/ arg[t].kind = "none")
  THEN {"exit from IPC"} ELSE {}

HandleIpcError(t) ==
  /\ InKernel(t, "error")
  /\ IpcError(t, partner, sstate, spartner)
  /\ pc' = [pc EXCEPT ![t] = "user"]
  /\ failed' = WrongExit(t, sstate)
  /\ UNCHANGED <<current, state, ready, wakeup, sendq, tstate, alive>>

\* handle_ipc_timeout: unwind from the state of the timeout, then handle_ipc_error.
HandleIpcTimeout(t) ==
  LET s == tstate[t]
      aborted == Aborted(t, s)
  IN /\ InKernel(t, "timeout")
     /\ wakeup' = UnwoundWakeup(t, s)
     /\ sendq' = UnwoundSendq(t, s)
     /\ IpcError(t, UnwoundPartner(t), UnwoundSstate(t), UnwoundSpartner(t))
     /\ failed' = WrongExit(t, UnwoundSstate(t)) \cup DequeueFails(t, s)
     /\ state' = [x \in Threads |-> IF x = t \/ x \in aborted THEN "running" ELSE state[x]]
     /\ ready' = ready \cup aborted
     /\ pc' = [x \in Threads |-> IF x = t THEN "user"
                                 ELSE IF x \in aborted THEN "error" ELSE pc[x]]
     /\ tstate' = [tstate EXCEPT ![t] = "running"]
     /\ UNCHANGED <<current, alive>>

IpcNext(t) ==
  \/ SysIpc(t) \/ PageFault(t)
  \/ SendNonExisting(t) \/ SendReady(t) \/ SendZeroTimeout(t) \/ SendBlock(t)
  \/ SendResume(t) \/ Transfer(t) \/ ExtendedTransfer(t) \/ CopyDone(t) \/ CopyOverflow(t)
  \/ CopyFault(t) \/ CopyZeroTimeout(t) \/ SendDone(t)
  \/ RecvSpecial(t) \/ RecvNonExisting(t) \/ RecvZeroTimeout(t) \/ RecvBlock(t)
  \/ RecvPartner(t) \/ RecvResume(t)
  \/ ThreadStartup(t) \/ HandleIpcError(t) \/ HandleIpcTimeout(t)
=============================================================================
