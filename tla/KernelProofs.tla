---------------------------- MODULE KernelProofs ----------------------------
(***************************************************************************)
(* Proofs about the uniprocessor kernel for any set of threads, priorities, *)
(* spaces and pagers: no thread is lost, whatever the user programs do (any *)
(* Env); and the queues and the rendezvous of the IPC in plain and steady   *)
(* uses.                                                                    *)
(***************************************************************************)
EXTENDS Kernel, FiniteSetTheorems, TLAPS

\* Past the check for a non-existing destination the destination is a thread, also
\* that of an interrupted copy.
ArgOK ==
  \A t \in Threads :
     /\ pc[t] \in {"polled", "xfer", "copy", "snddone"} => arg[t].to \in Threads
     /\ pc[t] = "recv" => arg[t].to \in Threads \cup {Nil}
     /\ HasOuter(t) => outer[t].to \in Threads

\* NoLostThread needs the types of the queues and a thread behind every switch.
IInv == TypeOK /\ ArgOK /\ NoLostThread

\* Every sys_ipc a user program makes has well-formed arguments.
LEMMA UserArgsType ==
  ASSUME NEW t \in Threads, NEW a \in UserArgs(t)
  PROVE  a \in Args /\ a.to \in Threads \cup {Nil, Bad} /\ a.sid \in Threads
<1>1. \A s \in SendArgs(t) : /\ s.to \in Threads \cup {Bad} /\ s.sid \in Threads
                            /\ s.snd \in Timeouts /\ s.typed \in BOOLEAN
  BY DEF SendArgs, Phase, Timeouts
<1>2. \A r \in RecvArgs : r.from \in ids /\ r.rcv \in Timeouts
  BY DEF RecvArgs, Phase, Timeouts, ids
<1>3. PICK s \in SendArgs(t) \cup {NoSend(t)}, r \in RecvArgs \cup {NoRecv} : a = Call(s, r)
  BY DEF UserArgs
<1>4. /\ s.to \in Threads \cup {Nil, Bad} /\ s.sid \in Threads
      /\ s.snd \in Timeouts /\ s.typed \in BOOLEAN
  <2>1. CASE s \in SendArgs(t) BY <2>1, <1>1
  <2>2. CASE s = NoSend(t) BY <2>2 DEF NoSend, Timeouts
  <2> QED BY <2>1, <2>2
<1>5. r.from \in ids /\ r.rcv \in Timeouts
  <2>1. CASE r \in RecvArgs BY <2>1, <1>2
  <2>2. CASE r = NoRecv BY <2>2 DEF NoRecv, Timeouts, ids
  <2> QED BY <2>1, <2>2
<1> QED BY <1>3, <1>4, <1>5 DEF Call, Args, ids

\* Leaving a send queue leaves a queue of threads.
LEMMA WithoutType ==
  ASSUME NEW s \in Seq(Threads), NEW t \in Threads
  PROVE  Without(s, t) \in Seq(Threads)
<1>1. CASE t \notin Range(s)
  BY <1>1 DEF Without
<1>2. CASE t \in Range(s)
  <2>1. PICK i \in DOMAIN s : i = CHOOSE k \in DOMAIN s : s[k] = t
    BY <1>2 DEF Range
  <2>2. Len(s) - 1 \in Nat /\ i \in 1 .. Len(s)
    OBVIOUS
  <2>3. [j \in 1 .. Len(s) - 1 |-> IF j < i THEN s[j] ELSE s[j + 1]] \in [1 .. Len(s) - 1 -> Threads]
    BY <2>2
  <2> QED BY <1>2, <2>1, <2>2, <2>3 DEF Without
<1> QED BY <1>1, <1>2

\* find_next_thread takes no runnable thread out of the queue.
LEMMA FindNextKeepsRunnable ==
  ASSUME NEW rs \in SUBSET Threads, NEW st \in [Threads -> ThreadStates],
         NEW x \in Threads \cup {Idle}, NEW rest \in SUBSET rs,
         find_next_thread(rs, st, x, rest)
  PROVE  \A y \in rs : is_runnable(st[y]) => y \in rest
BY DEF find_next_thread

\* schedule() switches to a thread or to idle and loses no runnable thread.
LEMMA ScheduleKeepsRunnable ==
  ASSUME NEW rs \in SUBSET Threads, NEW st \in [Threads -> ThreadStates],
         NEW t \in Threads \cup {Idle}, schedule(t, rs, st)
  PROVE  /\ current' \in Threads \cup {Idle}
         /\ ready' \in SUBSET Threads
         /\ \A y \in rs : is_runnable(st[y]) => y \in ready'
<1>1. PICK x \in Threads \cup {Idle}, rest \in SUBSET rs :
         /\ find_next_thread(rs, st, x, rest)
         /\ current' = x
         /\ ready' = IF x # t /\ t # Idle THEN rest \cup {t} ELSE rest
  BY DEF schedule
<1> QED BY <1>1, FindNextKeepsRunnable

\* Initially every thread is runnable and in the ready queue.
LEMMA InitIInv == Init => IInv
BY DEF Init, IInv, TypeOK, ArgOK, NoLostThread, Args, NoArg, ids, ThreadStates,
       RunnableStates, BlockedStates, PCs, Timeouts, HasOuter

\* Unwinding a thread from its IPC keeps the types of everything it touches.
LEMMA UnwoundTypes ==
  ASSUME TypeOK, NEW t \in Threads, NEW s \in ThreadStates
  PROVE  /\ UnwoundWakeup(t, s) \in SUBSET Threads
         /\ UnwoundSendq(t, s) \in [Threads -> Seq(Threads)]
         /\ UnwoundPartner(t) \in [Threads -> ids]
         /\ UnwoundSstate(t) \in [Threads -> ThreadStates]
         /\ UnwoundSpartner(t) \in [Threads -> ids]
         /\ Aborted(t, s) \in SUBSET Threads
<1>1. UnwoundWakeup(t, s) \in SUBSET Threads
  BY DEF UnwoundWakeup, Cancelled, TypeOK
<1>2. UnwoundSendq(t, s) \in [Threads -> Seq(Threads)]
  <2>1. \A r \in Threads : Without(sendq[r], t) \in Seq(Threads)
    BY WithoutType DEF TypeOK
  <2> QED BY <2>1 DEF UnwoundSendq, TypeOK
<1>3. /\ UnwoundPartner(t) \in [Threads -> ids]
      /\ UnwoundSstate(t) \in [Threads -> ThreadStates]
      /\ UnwoundSpartner(t) \in [Threads -> ids]
  BY DEF UnwoundPartner, UnwoundSstate, UnwoundSpartner, TypeOK, ids, ThreadStates, BlockedStates
<1>4. Aborted(t, s) \in SUBSET Threads
  BY DEF Aborted, AbortedBy
<1> QED BY <1>1, <1>2, <1>3, <1>4

\* The values an IPC writes into a thread control block.
LEMMA Values ==
  /\ NoArg \in Args
  /\ {Nil, AnyThread, AnyLocal, Bad} \cup Threads = ids
  /\ {"running", "aborted", "polling", "waiting_forever", "waiting_timeout", "halted",
      "locked_waiting", "locked_running", "locked_running_ipc_done"} \subseteq ThreadStates
BY DEF NoArg, Args, ids, Timeouts, ThreadStates, RunnableStates, BlockedStates

\* The end of sys_ipc changes only t, in typed ways; a copy it goes back to has a
\* thread as its destination.
LEMMA ReturnTypes ==
  ASSUME TypeOK, ArgOK, NEW t \in Threads, NEW st \in [Threads -> ThreadStates],
         NEW par \in [Threads -> ids], Return(t, st, par)
  PROVE  /\ pc' \in [Threads -> PCs]
         /\ arg' \in [Threads -> Args] /\ outer' \in [Threads -> Args]
         /\ state' \in [Threads -> ThreadStates] /\ partner' \in [Threads -> ids]
         /\ sstate' \in [Threads -> ThreadStates] /\ spartner' \in [Threads -> ids]
         /\ \A x \in Threads \ {t} : state'[x] = st[x]
         /\ ArgOK'
<1>1. CASE arg[t].kind = "pf"
  <2>1. /\ "aborted" \in ThreadStates /\ Nil \in ids /\ NoArg \in Args
        /\ sstate[t] \in ThreadStates /\ spartner[t] \in ids /\ outer[t] \in Args
    BY Values DEF TypeOK
  <2>2. /\ state' = [st EXCEPT ![t] = sstate[t]]
        /\ partner' = [par EXCEPT ![t] = spartner[t]]
        /\ spartner' = [spartner EXCEPT ![t] = Nil]
        /\ sstate' = [sstate EXCEPT ![t] = "aborted"]
        /\ pc' = [pc EXCEPT ![t] = IF HasOuter(t) THEN "copy" ELSE "user"]
        /\ arg' = [arg EXCEPT ![t] = outer[t]]
        /\ outer' = [outer EXCEPT ![t] = NoArg]
    BY <1>1 DEF Return, RestoredState
  <2>3. state' \in [Threads -> ThreadStates] /\ partner' \in [Threads -> ids]
    BY <2>1, <2>2
  <2>4. sstate' \in [Threads -> ThreadStates] /\ spartner' \in [Threads -> ids]
    BY <2>1, <2>2 DEF TypeOK
  <2>5. /\ pc' \in [Threads -> PCs] /\ arg' \in [Threads -> Args]
        /\ outer' \in [Threads -> Args]
    BY <2>1, <2>2 DEF TypeOK, PCs
  <2>6. ArgOK'
    BY <2>2 DEF ArgOK, TypeOK, HasOuter, NoArg
  <2> QED BY <2>2, <2>3, <2>4, <2>5, <2>6
<1>2. CASE arg[t].kind # "pf"
  <2>1. /\ state' = st /\ partner' = par
        /\ pc' = [pc EXCEPT ![t] = "user"] /\ arg' = [arg EXCEPT ![t] = NoArg]
        /\ UNCHANGED <<sstate, spartner, outer>>
    BY <1>2 DEF Return
  <2>2. ArgOK'
    BY <2>1 DEF ArgOK, TypeOK, HasOuter
  <2> QED BY <2>1, <2>2, Values DEF TypeOK, PCs
<1> QED BY <1>1, <1>2

\* SysIpc starts a system call of the current thread.
LEMMA SysIpcStep ==
  ASSUME IInv, NEW t \in Threads, SysIpc(t)
  PROVE  IInv'
<1> USE DEF IInv
<1>1. TypeOK'
  <2>1. PICK a \in UserArgs(t) : arg' = [arg EXCEPT ![t] = [a EXCEPT !.sid = SenderId(t, a)]]
    BY DEF SysIpc
  <2>2. [a EXCEPT !.sid = SenderId(t, a)] \in Args
    BY UserArgsType DEF Args, SenderId, ids
  <2> QED BY <2>1, <2>2 DEF SysIpc, TypeOK, PCs
<1>2. ArgOK'
  <2>1. PICK a \in UserArgs(t) :
           /\ arg' = [arg EXCEPT ![t] = [a EXCEPT !.sid = SenderId(t, a)]]
           /\ pc' = [pc EXCEPT ![t] = IF a.to = Nil THEN "recv" ELSE "send"]
    BY DEF SysIpc
  <2>2. [a EXCEPT !.sid = SenderId(t, a)].to = a.to
    BY UserArgsType DEF Args
  <2> QED BY <2>1, <2>2 DEF TypeOK, ArgOK, SysIpc, HasOuter
<1>3. NoLostThread'
  BY DEF SysIpc, NoLostThread
<1> QED BY <1>1, <1>2, <1>3

\* A pagefault IPC goes to the pager, which is a thread.
LEMMA PageFaultStep ==
  ASSUME IInv, NEW t \in Threads, PageFault(t)
  PROVE  IInv'
<1> USE DEF IInv
<1>1. TypeOK'
  <2>1. PagefaultArg(t) \in Args /\ Nil \in ids
    BY TcbAssumption DEF PagefaultArg, NoArg, Args, ids, Timeouts
  <2> QED BY <2>1 DEF PageFault, TypeOK, PCs
<1>2. ArgOK'
  BY DEF PageFault, ArgOK, TypeOK, HasOuter
<1>3. NoLostThread'
  BY DEF PageFault, NoLostThread
<1> QED BY <1>1, <1>2, <1>3

\* Sending to a non-existing thread returns at once.
LEMMA SendNonExistingStep ==
  ASSUME IInv, NEW t \in Threads, SendNonExisting(t)
  PROVE  IInv'
<1> USE DEF IInv
<1>1. current = t /\ arg[t].sid \in ids
  BY DEF SendNonExisting, InKernel, TypeOK, Args
<1>2. HasSent(arg[t]) /\ pc[t] = "recv" => arg[t].to \in Threads
  BY DEF HasSent, ArgOK
<1>3. PICK st \in [Threads -> ThreadStates] : st = state
  BY <1>2, Values DEF TypeOK
<1>4. PICK par \in [Threads -> ids] : par = partner
  BY <1>1, <1>2 DEF TypeOK
<1>5. Return(t, st, par)
  BY <1>3, <1>4 DEF SendNonExisting
<1>6. /\ pc' \in [Threads -> PCs]
      /\ arg' \in [Threads -> Args] /\ outer' \in [Threads -> Args]
      /\ state' \in [Threads -> ThreadStates] /\ partner' \in [Threads -> ids]
      /\ sstate' \in [Threads -> ThreadStates] /\ spartner' \in [Threads -> ids]
      /\ \A x \in Threads \ {t} : state'[x] = st[x]
      /\ ArgOK'
  BY <1>5, ReturnTypes
<1>7. /\ current' \in Threads \cup {Idle} /\ ready' \in SUBSET Threads
      /\ wakeup' \in SUBSET Threads
  BY <1>1, <1>2 DEF SendNonExisting, TypeOK, InKernel
<1>8. TypeOK'
  BY <1>6, <1>7 DEF TypeOK, SendNonExisting
<1>9. ArgOK'
  BY <1>6
<1>10. NoLostThread'
  BY <1>1, <1>2, <1>3, <1>6 DEF NoLostThread, TypeOK, SendNonExisting, InKernel
<1> QED BY <1>8, <1>9, <1>10

\* The receiver accepts: the destination is a thread.
LEMMA SendReadyStep ==
  ASSUME IInv, NEW t \in Threads, SendReady(t)
  PROVE  IInv'
<1> USE DEF IInv
<1>1. TypeOK'
  BY DEF SendReady, TypeOK, PCs
<1>2. ArgOK'
  BY DEF SendReady, ArgOK, TypeOK, Exists, HasOuter
<1>3. NoLostThread'
  BY DEF SendReady, NoLostThread
<1> QED BY <1>1, <1>2, <1>3

\* A zero send timeout returns at once.
LEMMA SendZeroTimeoutStep ==
  ASSUME IInv, NEW t \in Threads, SendZeroTimeout(t)
  PROVE  IInv'
<1> USE DEF IInv
<1>1. current = t /\ arg[t].sid \in ids
  BY DEF SendZeroTimeout, InKernel, TypeOK, Args
<1>2. HasSent(arg[t]) /\ pc[t] = "recv" => arg[t].to \in Threads
  BY DEF HasSent, ArgOK
<1>3. PICK st \in [Threads -> ThreadStates] : st = Running(t)
  BY <1>2, Values DEF TypeOK, Running
<1>4. PICK par \in [Threads -> ids] : par = partner
  BY <1>1, <1>2 DEF TypeOK
<1>5. Return(t, st, par)
  BY <1>3, <1>4 DEF SendZeroTimeout
<1>6. /\ pc' \in [Threads -> PCs]
      /\ arg' \in [Threads -> Args] /\ outer' \in [Threads -> Args]
      /\ state' \in [Threads -> ThreadStates] /\ partner' \in [Threads -> ids]
      /\ sstate' \in [Threads -> ThreadStates] /\ spartner' \in [Threads -> ids]
      /\ \A x \in Threads \ {t} : state'[x] = st[x]
      /\ ArgOK'
  BY <1>5, ReturnTypes
<1>7. /\ current' \in Threads \cup {Idle} /\ ready' \in SUBSET Threads
      /\ wakeup' \in SUBSET Threads
  BY <1>1, <1>2 DEF SendZeroTimeout, TypeOK, InKernel
<1>8. TypeOK'
  BY <1>6, <1>7 DEF TypeOK, SendZeroTimeout
<1>9. ArgOK'
  BY <1>6
<1>10. NoLostThread'
  BY <1>1, <1>2, <1>3, <1>6 DEF NoLostThread, TypeOK, SendZeroTimeout, InKernel, Running
<1> QED BY <1>8, <1>9, <1>10

\* A sender that queues up gives the processor to the idle thread.
LEMMA SendBlockStep ==
  ASSUME IInv, NEW t \in Threads, SendBlock(t)
  PROVE  IInv'
<1> USE DEF IInv
<1>1. TypeOK'
  <2>1. arg[t].to \in Threads
    BY DEF SendBlock, Exists, TypeOK
  <2>2. Append(sendq[arg[t].to], t) \in Seq(Threads)
    BY <2>1 DEF TypeOK
  <2> QED BY <2>1, <2>2, Values DEF SendBlock, TypeOK, PCs, Armed
<1>2. ArgOK'
  BY DEF SendBlock, ArgOK, TypeOK, Exists, HasOuter
<1>3. NoLostThread'
  BY DEF SendBlock, NoLostThread, TypeOK, InKernel, is_runnable, RunnableStates
<1> QED BY <1>1, <1>2, <1>3

\* A queued sender resumes with its receiver locked.
LEMMA SendResumeStep ==
  ASSUME IInv, NEW t \in Threads, SendResume(t)
  PROVE  IInv'
<1> USE DEF IInv
<1>1. TypeOK'
  <2>1. \A r \in Threads : Without(sendq[r], t) \in Seq(Threads)
    BY WithoutType DEF TypeOK
  <2> QED BY <2>1 DEF SendResume, TypeOK, PCs, Cancelled
<1>2. ArgOK'
  BY DEF SendResume, ArgOK, TypeOK, InKernel, HasOuter
<1>3. NoLostThread'
  BY DEF SendResume, NoLostThread
<1> QED BY <1>1, <1>2, <1>3

\* A transfer names the sender to the receiver.
LEMMA TransferStep ==
  ASSUME IInv, NEW t \in Threads, Transfer(t)
  PROVE  IInv'
<1> USE DEF IInv
<1>1. TypeOK'
  <2>1. arg[t].sid \in ids
    BY DEF TypeOK, Args
  <2> QED BY <2>1 DEF Transfer, AfterSend, TypeOK, PCs
<1>2. ArgOK'
  BY DEF Transfer, AfterSend, ArgOK, TypeOK, InKernel, HasOuter
<1>3. NoLostThread'
  BY DEF Transfer, NoLostThread
<1> QED BY <1>1, <1>2, <1>3

\* A failed copy leaves the receiver running and ready.
LEMMA CopyOverflowStep ==
  ASSUME IInv, NEW t \in Threads, CopyOverflow(t)
  PROVE  IInv'
<1> USE DEF IInv
<1>1. current = t /\ arg[t].sid \in ids
  BY DEF CopyOverflow, InKernel, TypeOK, Args
<1>2. arg[t].to \in Threads
  BY DEF CopyOverflow, InKernel, ArgOK
<1>3. PICK st \in [Threads -> ThreadStates] : st = [state EXCEPT ![arg[t].to] = "running"]
  BY <1>2, Values DEF TypeOK
<1>4. PICK par \in [Threads -> ids] : par = partner
  BY <1>1, <1>2 DEF TypeOK
<1>5. Return(t, st, par)
  BY <1>3, <1>4 DEF CopyOverflow
<1>6. /\ pc' \in [Threads -> PCs]
      /\ arg' \in [Threads -> Args] /\ outer' \in [Threads -> Args]
      /\ state' \in [Threads -> ThreadStates] /\ partner' \in [Threads -> ids]
      /\ sstate' \in [Threads -> ThreadStates] /\ spartner' \in [Threads -> ids]
      /\ \A x \in Threads \ {t} : state'[x] = st[x]
      /\ ArgOK'
  BY <1>5, ReturnTypes
<1>7. /\ current' \in Threads \cup {Idle} /\ ready' \in SUBSET Threads
      /\ wakeup' \in SUBSET Threads
  BY <1>1, <1>2 DEF CopyOverflow, TypeOK, InKernel, Enqueued, Cancelled
<1>8. TypeOK'
  BY <1>6, <1>7 DEF TypeOK, CopyOverflow
<1>9. ArgOK'
  BY <1>6
<1>10. NoLostThread'
  BY <1>1, <1>2, <1>3, <1>6 DEF NoLostThread, TypeOK, CopyOverflow, InKernel, Enqueued, Cancelled
<1> QED BY <1>8, <1>9, <1>10

\* A typed message locks both threads.
LEMMA ExtendedTransferStep ==
  ASSUME IInv, NEW t \in Threads, ExtendedTransfer(t)
  PROVE  IInv'
<1> USE DEF IInv
<1>1. /\ arg[t].sid \in ids /\ arg[t].to \in Threads /\ Threads \subseteq ids /\ current = t
      /\ {"locked_running", "locked_waiting"} \subseteq ThreadStates
  BY Values DEF TypeOK, Args, ArgOK, ExtendedTransfer, InKernel, ids
<1>2. TypeOK'
  BY <1>1 DEF ExtendedTransfer, TypeOK, PCs
<1>3. ArgOK'
  BY <1>1 DEF ExtendedTransfer, ArgOK, TypeOK, HasOuter
<1>4. NoLostThread'
  BY <1>1 DEF ExtendedTransfer, NoLostThread, TypeOK, is_runnable, RunnableStates
<1> QED BY <1>2, <1>3, <1>4

\* A finished copy goes on with the rest of sys_ipc.
LEMMA CopyDoneStep ==
  ASSUME IInv, NEW t \in Threads, CopyDone(t)
  PROVE  IInv'
<1> USE DEF IInv
<1>1. TypeOK'
  BY DEF CopyDone, AfterSend, Cancelled, TypeOK, PCs
<1>2. ArgOK'
  BY DEF CopyDone, AfterSend, ArgOK, TypeOK, InKernel, HasOuter
<1>3. NoLostThread'
  BY DEF CopyDone, NoLostThread
<1> QED BY <1>1, <1>2, <1>3

\* A fault in the copy keeps its destination aside and sends to the pager.
LEMMA CopyFaultStep ==
  ASSUME IInv, NEW t \in Threads, CopyFault(t)
  PROVE  IInv'
<1> USE DEF IInv
<1>1. arg[t].to \in Threads /\ PagefaultArg(t) \in Args
  BY TcbAssumption DEF CopyFault, InKernel, ArgOK, PagefaultArg, NoArg, Args, ids, Timeouts
<1>2. wakeup' \in SUBSET Threads /\ xfer' \in SUBSET Threads
  BY DEF CopyFault, TypeOK, Armed
<1>3. TypeOK'
  BY <1>1, <1>2 DEF CopyFault, TypeOK, PCs
<1>4. ArgOK'
  BY <1>1 DEF CopyFault, ArgOK, TypeOK, HasOuter
<1>5. NoLostThread'
  BY DEF CopyFault, NoLostThread
<1> QED BY <1>3, <1>4, <1>5

\* A zero transfer timeout puts the timeout handler on the stack.
LEMMA CopyZeroTimeoutStep ==
  ASSUME IInv, NEW t \in Threads, CopyZeroTimeout(t)
  PROVE  IInv'
<1> USE DEF IInv
<1>1. TypeOK'
  BY Values DEF CopyZeroTimeout, TypeOK, PCs
<1>2. ArgOK'
  BY DEF CopyZeroTimeout, ArgOK, TypeOK, HasOuter
<1>3. NoLostThread'
  BY DEF CopyZeroTimeout, NoLostThread
<1> QED BY <1>1, <1>2, <1>3

\* A finished send leaves both threads runnable: one current, one ready.
LEMMA SendDoneStep ==
  ASSUME IInv, NEW t \in Threads, SendDone(t)
  PROVE  IInv'
<1> USE DEF IInv
<1>1. current = t /\ arg[t].sid \in ids
  BY DEF SendDone, InKernel, TypeOK, Args
<1>2. arg[t].to \in Threads
  BY DEF SendDone, InKernel, ArgOK
<1>3. PICK st \in [Threads -> ThreadStates] : st = [state EXCEPT ![arg[t].to] = DoneState(arg[t].to), ![t] = "running"]
  BY <1>2, Values DEF TypeOK, DoneState
<1>4. PICK par \in [Threads -> ids] : par = partner
  BY <1>1, <1>2 DEF TypeOK
<1>5. Return(t, st, par)
  BY <1>3, <1>4 DEF SendDone
<1>6. /\ pc' \in [Threads -> PCs]
      /\ arg' \in [Threads -> Args] /\ outer' \in [Threads -> Args]
      /\ state' \in [Threads -> ThreadStates] /\ partner' \in [Threads -> ids]
      /\ sstate' \in [Threads -> ThreadStates] /\ spartner' \in [Threads -> ids]
      /\ \A x \in Threads \ {t} : state'[x] = st[x]
      /\ ArgOK'
  BY <1>5, ReturnTypes
<1>7. /\ current' \in Threads \cup {Idle} /\ ready' \in SUBSET Threads
      /\ wakeup' \in SUBSET Threads
  BY <1>1, <1>2 DEF SendDone, TypeOK, InKernel, Enqueued, Cancelled
<1>8. TypeOK'
  BY <1>6, <1>7 DEF TypeOK, SendDone
<1>9. ArgOK'
  BY <1>6
<1>10. NoLostThread'
  BY <1>1, <1>2, <1>3, <1>6 DEF NoLostThread, TypeOK, SendDone, InKernel, DoneState, Enqueued, Cancelled
<1> QED BY <1>8, <1>9, <1>10

\* The special case switches directly to the thread just sent to.
LEMMA RecvSpecialStep ==
  ASSUME IInv, NEW t \in Threads, RecvSpecial(t)
  PROVE  IInv'
<1> USE DEF IInv
<1>1. TypeOK'
  <2>1. [NoArg EXCEPT !.kind = arg[t].kind, !.from = arg[t].from] \in Args
    BY DEF NoArg, Args, Timeouts, ids, TypeOK
  <2>2. arg[t].to \in Threads /\ arg[t].from \in ids
    BY DEF RecvSpecial, InKernel, IsSpecial, HasSent, ArgOK, TypeOK, Args
  <2> QED BY <2>1, <2>2, Values DEF RecvSpecial, Waiting, TypeOK, PCs
<1>2. ArgOK'
  BY DEF RecvSpecial, Waiting, ArgOK, TypeOK, HasOuter
<1>3. NoLostThread'
  BY DEF RecvSpecial, NoLostThread, TypeOK, InKernel, is_runnable, RunnableStates
<1> QED BY <1>1, <1>2, <1>3

\* Receiving from a non-existing thread returns at once.
LEMMA RecvNonExistingStep ==
  ASSUME IInv, NEW t \in Threads, RecvNonExisting(t)
  PROVE  IInv'
<1> USE DEF IInv
<1>1. current = t /\ arg[t].sid \in ids
  BY DEF RecvNonExisting, InKernel, TypeOK, Args
<1>2. HasSent(arg[t]) /\ pc[t] = "recv" => arg[t].to \in Threads
  BY DEF HasSent, ArgOK
<1>3. PICK st \in [Threads -> ThreadStates] : st = state
  BY <1>2, Values DEF TypeOK
<1>4. PICK par \in [Threads -> ids] : par = partner
  BY <1>1, <1>2 DEF TypeOK
<1>5. Return(t, st, par)
  BY <1>3, <1>4 DEF RecvNonExisting
<1>6. /\ pc' \in [Threads -> PCs]
      /\ arg' \in [Threads -> Args] /\ outer' \in [Threads -> Args]
      /\ state' \in [Threads -> ThreadStates] /\ partner' \in [Threads -> ids]
      /\ sstate' \in [Threads -> ThreadStates] /\ spartner' \in [Threads -> ids]
      /\ \A x \in Threads \ {t} : state'[x] = st[x]
      /\ ArgOK'
  BY <1>5, ReturnTypes
<1>7. /\ current' \in Threads \cup {Idle} /\ ready' \in SUBSET Threads
      /\ wakeup' \in SUBSET Threads
  BY <1>1, <1>2 DEF RecvNonExisting, TypeOK, InKernel
<1>8. TypeOK'
  BY <1>6, <1>7 DEF TypeOK, RecvNonExisting
<1>9. ArgOK'
  BY <1>6
<1>10. NoLostThread'
  BY <1>1, <1>2, <1>3, <1>6 DEF NoLostThread, TypeOK, RecvNonExisting, InKernel
<1> QED BY <1>8, <1>9, <1>10

\* A zero receive timeout donates the time slice to the thread sent to.
LEMMA RecvZeroTimeoutStep ==
  ASSUME IInv, NEW t \in Threads, RecvZeroTimeout(t)
  PROVE  IInv'
<1> USE DEF IInv
<1>1. current = t /\ arg[t].sid \in ids
  BY DEF RecvZeroTimeout, InKernel, TypeOK, Args
<1>2. HasSent(arg[t]) /\ pc[t] = "recv" => arg[t].to \in Threads
  BY DEF HasSent, ArgOK
<1>3. PICK st \in [Threads -> ThreadStates] : st = Running(t)
  BY <1>2, Values DEF TypeOK, Running
<1>4. PICK par \in [Threads -> ids] : par = partner
  BY <1>1, <1>2 DEF TypeOK
<1>5. Return(t, st, par)
  BY <1>3, <1>4 DEF RecvZeroTimeout
<1>6. /\ pc' \in [Threads -> PCs]
      /\ arg' \in [Threads -> Args] /\ outer' \in [Threads -> Args]
      /\ state' \in [Threads -> ThreadStates] /\ partner' \in [Threads -> ids]
      /\ sstate' \in [Threads -> ThreadStates] /\ spartner' \in [Threads -> ids]
      /\ \A x \in Threads \ {t} : state'[x] = st[x]
      /\ ArgOK'
  BY <1>5, ReturnTypes
<1>7. /\ current' \in Threads \cup {Idle} /\ ready' \in SUBSET Threads
      /\ wakeup' \in SUBSET Threads
  BY <1>1, <1>2 DEF RecvZeroTimeout, TypeOK, InKernel, Enqueued, HasSent
<1>8. TypeOK'
  BY <1>6, <1>7 DEF TypeOK, RecvZeroTimeout
<1>9. ArgOK'
  BY <1>6
<1>10. NoLostThread'
  BY <1>1, <1>2, <1>3, <1>6 DEF NoLostThread, TypeOK, RecvZeroTimeout, InKernel, Running, Enqueued, HasSent
<1> QED BY <1>8, <1>9, <1>10

\* A receiver that blocks runs the thread just sent to, or the idle thread.
LEMMA RecvBlockStep ==
  ASSUME IInv, NEW t \in Threads, RecvBlock(t)
  PROVE  IInv'
<1> USE DEF IInv
<1>1. TypeOK'
  <2>1. [NoArg EXCEPT !.kind = arg[t].kind, !.from = arg[t].from] \in Args
    BY DEF NoArg, Args, Timeouts, ids, TypeOK
  <2>2. HasSent(arg[t]) => arg[t].to \in Threads
    BY DEF RecvBlock, InKernel, HasSent, ArgOK
  <2>3. arg[t].from \in ids
    BY DEF TypeOK, Args
  <2> QED BY <2>1, <2>2, <2>3, Values DEF RecvBlock, Waiting, TypeOK, PCs, Armed
<1>2. ArgOK'
  BY DEF RecvBlock, Waiting, ArgOK, TypeOK, HasOuter
<1>3. NoLostThread'
  BY DEF RecvBlock, NoLostThread, TypeOK, InKernel, is_runnable, RunnableStates
<1> QED BY <1>1, <1>2, <1>3

\* A queued sender is locked; it or the thread just sent to runs, the other is ready.
LEMMA RecvPartnerStep ==
  ASSUME IInv, NEW t \in Threads, RecvPartner(t)
  PROVE  IInv'
<1> USE DEF IInv
<1>1. TypeOK'
  <2>1. [NoArg EXCEPT !.kind = arg[t].kind, !.from = arg[t].from] \in Args
    BY DEF NoArg, Args, Timeouts, ids, TypeOK
  <2>2. HasSent(arg[t]) => arg[t].to \in Threads
    BY DEF RecvPartner, InKernel, HasSent, ArgOK
  <2>3. FromTcb(t, arg[t]) \in Threads
    BY DEF RecvPartner, PartnerReady
  <2>4. {"locked_running", "locked_waiting", "running"} \subseteq ThreadStates
    BY Values
  <2>5. state' \in [Threads -> ThreadStates]
    BY <2>2, <2>3, <2>4 DEF RecvPartner, TypeOK
  <2>6. /\ wakeup' \in SUBSET Threads /\ ready' \in SUBSET Threads
        /\ current' \in Threads \cup {Idle} /\ pc' \in [Threads -> PCs]
    BY <2>2, <2>3 DEF RecvPartner, TypeOK, PCs, Enqueued, Cancelled
  <2> QED BY <2>1, <2>5, <2>6 DEF RecvPartner, Waiting, TypeOK
<1>2. ArgOK'
  BY DEF RecvPartner, Waiting, ArgOK, TypeOK, HasOuter
<1>3. NoLostThread'
  <2>1. HasSent(arg[t]) => arg[t].to \in Threads
    BY DEF RecvPartner, InKernel, HasSent, ArgOK
  <2>2. FromTcb(t, arg[t]) \in Threads /\ current = t
    BY DEF RecvPartner, PartnerReady, InKernel
  <2> QED BY <2>1, <2>2 DEF RecvPartner, NoLostThread, TypeOK, Enqueued, is_runnable, RunnableStates
<1> QED BY <1>1, <1>2, <1>3

\* A receiver resumes with its message.
LEMMA RecvResumeStep ==
  ASSUME IInv, NEW t \in Threads, RecvResume(t)
  PROVE  IInv'
<1> USE DEF IInv
<1>1. current = t /\ arg[t].sid \in ids
  BY DEF RecvResume, InKernel, TypeOK, Args
<1>2. HasSent(arg[t]) /\ pc[t] = "recv" => arg[t].to \in Threads
  BY DEF HasSent, ArgOK
<1>3. PICK st \in [Threads -> ThreadStates] : st = Running(t)
  BY <1>2, Values DEF TypeOK, Running
<1>4. PICK par \in [Threads -> ids] : par = partner
  BY <1>1, <1>2 DEF TypeOK
<1>5. Return(t, st, par)
  BY <1>3, <1>4 DEF RecvResume
<1>6. /\ pc' \in [Threads -> PCs]
      /\ arg' \in [Threads -> Args] /\ outer' \in [Threads -> Args]
      /\ state' \in [Threads -> ThreadStates] /\ partner' \in [Threads -> ids]
      /\ sstate' \in [Threads -> ThreadStates] /\ spartner' \in [Threads -> ids]
      /\ \A x \in Threads \ {t} : state'[x] = st[x]
      /\ ArgOK'
  BY <1>5, ReturnTypes
<1>7. /\ current' \in Threads \cup {Idle} /\ ready' \in SUBSET Threads
      /\ wakeup' \in SUBSET Threads
  BY <1>1, <1>2 DEF RecvResume, TypeOK, InKernel, Cancelled
<1>8. TypeOK'
  BY <1>6, <1>7 DEF TypeOK, RecvResume
<1>9. ArgOK'
  BY <1>6
<1>10. NoLostThread'
  BY <1>1, <1>2, <1>3, <1>6 DEF NoLostThread, TypeOK, RecvResume, InKernel, Running, Cancelled
<1> QED BY <1>8, <1>9, <1>10

\* A started thread goes to user level.
LEMMA ThreadStartupStep ==
  ASSUME IInv, NEW t \in Threads, ThreadStartup(t)
  PROVE  IInv'
<1> USE DEF IInv
<1>1. TypeOK'
  BY Values DEF ThreadStartup, TypeOK, PCs
<1>2. ArgOK'
  BY DEF ThreadStartup, ArgOK, TypeOK, HasOuter
<1>3. NoLostThread'
  BY DEF ThreadStartup, NoLostThread
<1> QED BY <1>1, <1>2, <1>3

\* The error handler returns to user level.
LEMMA HandleIpcErrorStep ==
  ASSUME IInv, NEW t \in Threads, HandleIpcError(t)
  PROVE  IInv'
<1> USE DEF IInv
<1>1. TypeOK'
  BY Values DEF HandleIpcError, IpcError, TypeOK, PCs
<1>2. ArgOK'
  BY DEF HandleIpcError, IpcError, ArgOK, TypeOK, HasOuter, NoArg
<1>3. NoLostThread'
  BY DEF HandleIpcError, NoLostThread
<1> QED BY <1>1, <1>2, <1>3

\* The timeout handler makes an aborted partner ready.
LEMMA HandleIpcTimeoutStep ==
  ASSUME IInv, NEW t \in Threads, HandleIpcTimeout(t)
  PROVE  IInv'
<1> USE DEF IInv
<1>1. TypeOK'
  <2> DEFINE s == tstate[t]
  <2>1. s \in ThreadStates
    BY DEF TypeOK
  <2>2. /\ UnwoundWakeup(t, s) \in SUBSET Threads /\ UnwoundSendq(t, s) \in [Threads -> Seq(Threads)]
        /\ UnwoundPartner(t) \in [Threads -> ids] /\ UnwoundSpartner(t) \in [Threads -> ids]
        /\ UnwoundSstate(t) \in [Threads -> ThreadStates] /\ Aborted(t, s) \in SUBSET Threads
    BY <2>1, UnwoundTypes
  <2>3. /\ partner' \in [Threads -> ids] /\ spartner' \in [Threads -> ids]
        /\ sstate' \in [Threads -> ThreadStates] /\ arg' \in [Threads -> Args]
        /\ outer' \in [Threads -> Args] /\ xfer' \in SUBSET Threads
    BY <2>2, Values DEF HandleIpcTimeout, IpcError, TypeOK
  <2> QED BY <2>2, <2>3, Values DEF HandleIpcTimeout, TypeOK, PCs
<1>2. ArgOK'
  BY DEF HandleIpcTimeout, IpcError, ArgOK, TypeOK, HasOuter, NoArg
<1>3. NoLostThread'
  BY DEF HandleIpcTimeout, NoLostThread, TypeOK, InKernel
<1> QED BY <1>1, <1>2, <1>3

\* Aborted and resumed threads become ready; a thread that halts itself stops running.
LEMMA ExchangeRegistersStep ==
  ASSUME IInv, NEW t \in Threads, ExchangeRegisters(t)
  PROVE  IInv'
<1> USE DEF IInv
<1>1. TypeOK'
  <2>1. PICK d \in Threads, c \in Controls : perform_exregs(d, c)
    BY DEF ExchangeRegisters, TypeOK
  <2> DEFINE s == state[d]
  <2>2. s \in ThreadStates
    BY DEF TypeOK
  <2>3. /\ UnwoundWakeup(d, s) \in SUBSET Threads /\ UnwoundSendq(d, s) \in [Threads -> Seq(Threads)]
        /\ UnwoundPartner(d) \in [Threads -> ids] /\ UnwoundSpartner(d) \in [Threads -> ids]
        /\ UnwoundSstate(d) \in [Threads -> ThreadStates] /\ Aborted(d, s) \in SUBSET Threads
    BY <2>2, UnwoundTypes
  <2>4. /\ wakeup' \in SUBSET Threads /\ sendq' \in [Threads -> Seq(Threads)]
        /\ partner' \in [Threads -> ids] /\ spartner' \in [Threads -> ids]
        /\ sstate' \in [Threads -> ThreadStates]
    BY <2>1, <2>3 DEF perform_exregs, TypeOK
  <2>5. /\ state' \in [Threads -> ThreadStates] /\ pc' \in [Threads -> PCs]
        /\ ready' \in SUBSET Threads /\ current' \in Threads \cup {Idle}
    BY <2>1, <2>2, <2>3, Values DEF perform_exregs, TypeOK, PCs
  <2> QED BY <2>1, <2>4, <2>5 DEF perform_exregs, TypeOK
<1>2. ArgOK'
  <2>1. PICK d \in Threads, c \in Controls : perform_exregs(d, c)
    BY DEF ExchangeRegisters, TypeOK
  <2> QED BY <2>1 DEF perform_exregs, ArgOK, TypeOK, HasOuter
<1>3. NoLostThread'
  <2>1. PICK d \in Threads, c \in Controls : perform_exregs(d, c)
    BY DEF ExchangeRegisters, TypeOK
  <2> QED BY <2>1 DEF perform_exregs, NoLostThread, TypeOK, Resumes, Halts, is_runnable, RunnableStates
<1> QED BY <1>1, <1>2, <1>3

\* A deleted thread is not runnable; an aborted partner becomes ready.
LEMMA DeleteThreadStep ==
  ASSUME IInv, NEW t \in Threads, DeleteThread(t)
  PROVE  IInv'
<1> USE DEF IInv
<1>1. TypeOK'
  <2>1. PICK d \in Threads : delete_tcb(d)
    BY DEF DeleteThread, TypeOK
  <2> DEFINE s == state[d]
  <2>2. s \in ThreadStates
    BY DEF TypeOK
  <2>3. /\ UnwoundWakeup(d, s) \in SUBSET Threads /\ UnwoundSendq(d, s) \in [Threads -> Seq(Threads)]
        /\ UnwoundPartner(d) \in [Threads -> ids] /\ UnwoundSpartner(d) \in [Threads -> ids]
        /\ UnwoundSstate(d) \in [Threads -> ThreadStates] /\ Aborted(d, s) \in SUBSET Threads
    BY <2>2, UnwoundTypes
  <2>4. /\ wakeup' \in SUBSET Threads /\ sendq' \in [Threads -> Seq(Threads)]
        /\ partner' \in [Threads -> ids] /\ spartner' \in [Threads -> ids]
        /\ sstate' \in [Threads -> ThreadStates]
    BY <2>1, <2>3 DEF delete_tcb, TypeOK
  <2>5. /\ state' \in [Threads -> ThreadStates] /\ pc' \in [Threads -> PCs]
        /\ ready' \in SUBSET Threads /\ alive' \in SUBSET Threads
    BY <2>1, <2>2, <2>3, Values DEF delete_tcb, TypeOK, PCs
  <2> QED BY <2>1, <2>4, <2>5 DEF delete_tcb, TypeOK
<1>2. ArgOK'
  <2>1. PICK d \in Threads : delete_tcb(d)
    BY DEF DeleteThread, TypeOK
  <2> QED BY <2>1 DEF delete_tcb, ArgOK, TypeOK, HasOuter
<1>3. NoLostThread'
  <2>1. PICK d \in Threads : delete_tcb(d)
    BY DEF DeleteThread, TypeOK
  <2> QED BY <2>1 DEF delete_tcb, NoLostThread, TypeOK, is_runnable, RunnableStates
<1> QED BY <1>1, <1>2, <1>3

\* A created thread waits for its pager.
LEMMA CreateThreadStep ==
  ASSUME IInv, NEW t \in Threads, CreateThread(t)
  PROVE  IInv'
<1> USE DEF IInv
<1>1. TypeOK'
  <2>1. PICK d \in Threads :
           /\ state' = [state EXCEPT ![d] = "waiting_forever"]
           /\ partner' = [partner EXCEPT ![d] = Pager[d]]
           /\ sstate' = [sstate EXCEPT ![d] = "running"]
           /\ spartner' = [spartner EXCEPT ![d] = Nil]
           /\ ready' = ready \ {d}
           /\ wakeup' = wakeup \ {d}
           /\ sendq' = [sendq EXCEPT ![d] = <<>>]
           /\ pc' = [pc EXCEPT ![d] = "startup"]
           /\ arg' = [arg EXCEPT ![d] = NoArg]
           /\ outer' = [outer EXCEPT ![d] = NoArg]
           /\ tstate' = [tstate EXCEPT ![d] = "running"]
           /\ alive' = alive \cup {d}
           /\ UNCHANGED <<current, xfer>>
    BY DEF CreateThread
  <2>2. /\ {"waiting_forever", "running"} \subseteq ThreadStates /\ Pager[d] \in ids
        /\ Nil \in ids /\ NoArg \in Args
    BY TcbAssumption, Values
  <2> QED BY <2>1, <2>2 DEF TypeOK, PCs
<1>2. ArgOK'
  <2>1. PICK d \in Threads :
           /\ state' = [state EXCEPT ![d] = "waiting_forever"]
           /\ partner' = [partner EXCEPT ![d] = Pager[d]]
           /\ sstate' = [sstate EXCEPT ![d] = "running"]
           /\ spartner' = [spartner EXCEPT ![d] = Nil]
           /\ ready' = ready \ {d}
           /\ wakeup' = wakeup \ {d}
           /\ sendq' = [sendq EXCEPT ![d] = <<>>]
           /\ pc' = [pc EXCEPT ![d] = "startup"]
           /\ arg' = [arg EXCEPT ![d] = NoArg]
           /\ outer' = [outer EXCEPT ![d] = NoArg]
           /\ tstate' = [tstate EXCEPT ![d] = "running"]
           /\ alive' = alive \cup {d}
           /\ UNCHANGED <<current, xfer>>
    BY DEF CreateThread
  <2> QED BY <2>1 DEF ArgOK, TypeOK, HasOuter, NoArg
<1>3. NoLostThread'
  BY DEF CreateThread, NoLostThread, TypeOK, is_runnable, RunnableStates
<1> QED BY <1>1, <1>2, <1>3

\* The timer makes woken threads ready and keeps every runnable one queued.
LEMMA TimerStep ==
  ASSUME IInv, NEW t \in Threads, Timer(t)
  PROVE  IInv'
<1> USE DEF IInv
<1>1. TypeOK'
  <2>1. PICK exp \in SUBSET wakeup :
           /\ AtUser(t) /\ parse_wakeup_queues(exp)
           /\ \/ /\ Preempting(t, exp) = {}
                 /\ ready' = ready \cup Woken(exp)
                 /\ UNCHANGED current
              \/ /\ current' \in Preempting(t, exp)
                 /\ ready' = ready \cup Woken(exp) \cup {t}
              \/ schedule(t, ready \cup Woken(exp) \cup {t}, WokenState(exp))
           /\ UNCHANGED <<partner, sstate, spartner, sendq, arg, outer, alive, failed>>
    BY DEF Timer
  <2> DEFINE rs == ready \cup Woken(exp) \cup {t}
  <2>2. rs \in SUBSET Threads /\ WokenState(exp) \in [Threads -> ThreadStates]
    BY Values DEF TypeOK, Woken, WokenState
  <2>3. current' \in Threads \cup {Idle} /\ ready' \in SUBSET Threads
    BY <2>1, <2>2, ScheduleKeepsRunnable DEF TypeOK, Woken, Preempting
  <2> QED BY <2>1, <2>2, <2>3 DEF parse_wakeup_queues, TypeOK, PCs
<1>2. ArgOK'
  BY DEF Timer, parse_wakeup_queues, ArgOK, TypeOK, HasOuter
<1>3. NoLostThread'
  <2>1. PICK exp \in SUBSET wakeup :
           /\ AtUser(t) /\ parse_wakeup_queues(exp)
           /\ \/ /\ Preempting(t, exp) = {}
                 /\ ready' = ready \cup Woken(exp)
                 /\ UNCHANGED current
              \/ /\ current' \in Preempting(t, exp)
                 /\ ready' = ready \cup Woken(exp) \cup {t}
              \/ schedule(t, ready \cup Woken(exp) \cup {t}, WokenState(exp))
           /\ UNCHANGED <<partner, sstate, spartner, sendq, arg, outer, alive, failed>>
    BY DEF Timer
  <2> DEFINE rs == ready \cup Woken(exp) \cup {t}
  <2>2. rs \in SUBSET Threads /\ WokenState(exp) \in [Threads -> ThreadStates]
    BY Values DEF TypeOK, Woken, WokenState
  <2>3. \A y \in Threads : is_runnable(WokenState(exp)[y]) => y \in rs
    BY <2>1 DEF WokenState, NoLostThread, AtUser, TypeOK
  <2>4. state' = WokenState(exp)
    BY <2>1 DEF parse_wakeup_queues
  <2>5. CASE ready' = ready \cup Woken(exp) /\ UNCHANGED current
    BY <2>1, <2>3, <2>4, <2>5 DEF NoLostThread, AtUser
  <2>6. CASE ready' = rs
    BY <2>3, <2>4, <2>6 DEF NoLostThread
  <2>7. CASE schedule(t, rs, WokenState(exp))
    <3>1. \A y \in rs : is_runnable(WokenState(exp)[y]) => y \in ready'
      BY <2>2, <2>7, ScheduleKeepsRunnable
    <3> QED BY <2>3, <2>4, <3>1 DEF NoLostThread
  <2> QED BY <2>1, <2>5, <2>6, <2>7
<1> QED BY <1>1, <1>2, <1>3

\* SYS_THREAD_SWITCH leaves the caller in the ready queue.
LEMMA ThreadSwitchStep ==
  ASSUME IInv, NEW t \in Threads, ThreadSwitch(t)
  PROVE  IInv'
<1> USE DEF IInv
<1>1. TypeOK'
  <2>1. ready \cup {t} \in SUBSET Threads /\ Donees(t) \in SUBSET Threads
    BY DEF TypeOK, Donees
  <2>2. current' \in Threads \cup {Idle} /\ ready' \in SUBSET Threads
    BY <2>1, ScheduleKeepsRunnable DEF ThreadSwitch, TypeOK, Enqueued
  <2> QED BY <2>2 DEF ThreadSwitch, TypeOK
<1>2. ArgOK'
  BY DEF ThreadSwitch, ArgOK, HasOuter
<1>3. NoLostThread'
  <2>1. ready \cup {t} \in SUBSET Threads
    BY DEF TypeOK
  <2>2. \A y \in Threads : is_runnable(state[y]) => y \in ready \cup {t}
    BY DEF NoLostThread, ThreadSwitch, AtUser
  <2>3. \A y \in ready \cup {t} : is_runnable(state[y]) => y \in ready'
    BY <2>1, ScheduleKeepsRunnable DEF ThreadSwitch, TypeOK, Enqueued
  <2> QED BY <2>2, <2>3 DEF ThreadSwitch, NoLostThread
<1> QED BY <1>1, <1>2, <1>3

\* A tick in the idle thread makes woken threads ready.
LEMMA TimerIdleStep ==
  ASSUME IInv, TimerIdle
  PROVE  IInv'
<1> USE DEF IInv
<1>1. TypeOK'
  BY Values DEF TimerIdle, parse_wakeup_queues, WokenState, Woken, Notified, TypeOK, PCs
<1>2. ArgOK'
  BY DEF TimerIdle, parse_wakeup_queues, ArgOK, TypeOK, HasOuter
<1>3. NoLostThread'
  BY DEF TimerIdle, parse_wakeup_queues, WokenState, NoLostThread, TypeOK
<1> QED BY <1>1, <1>2, <1>3

\* The idle thread loses no runnable thread when it picks one.
LEMMA IdleScheduleStep ==
  ASSUME IInv, IdleSchedule
  PROVE  IInv'
<1> USE DEF IInv
<1>1. TypeOK'
  <2>1. current' \in Threads \cup {Idle} /\ ready' \in SUBSET Threads
    BY ScheduleKeepsRunnable DEF IdleSchedule, TypeOK
  <2> QED BY <2>1 DEF IdleSchedule, TypeOK
<1>2. ArgOK'
  BY DEF IdleSchedule, ArgOK, HasOuter
<1>3. NoLostThread'
  <2>1. \A y \in ready : is_runnable(state[y]) => y \in ready'
    BY ScheduleKeepsRunnable DEF IdleSchedule, TypeOK
  <2>2. \A y \in Threads : is_runnable(state[y]) => y \in ready
    BY TcbAssumption DEF IdleSchedule, NoLostThread
  <2> QED BY <2>1, <2>2 DEF IdleSchedule, NoLostThread
<1> QED BY <1>1, <1>2, <1>3

\* Every step of the kernel preserves the invariant.
LEMMA NextIInv == IInv /\ [Next]_vars => IInv'
<1> SUFFICES ASSUME IInv, [Next]_vars PROVE IInv'
  OBVIOUS
<1>1. ASSUME NEW t \in Threads, IpcNext(t) PROVE IInv'
  BY <1>1, SysIpcStep, PageFaultStep, SendNonExistingStep, SendReadyStep,
     SendZeroTimeoutStep, SendBlockStep, SendResumeStep, TransferStep,
     ExtendedTransferStep, CopyDoneStep, CopyOverflowStep, CopyFaultStep,
     CopyZeroTimeoutStep, SendDoneStep, RecvSpecialStep, RecvNonExistingStep,
     RecvZeroTimeoutStep, RecvBlockStep, RecvPartnerStep, RecvResumeStep,
     ThreadStartupStep, HandleIpcErrorStep, HandleIpcTimeoutStep
     DEF IpcNext
<1>2. CASE UNCHANGED vars
  BY <1>2 DEF vars, IInv, TypeOK, ArgOK, NoLostThread, HasOuter
<1> QED
  BY <1>1, <1>2, ExchangeRegistersStep, DeleteThreadStep, CreateThreadStep,
     TimerStep, ThreadSwitchStep, TimerIdleStep, IdleScheduleStep DEF Next

\* The type invariant and NoLostThread hold in every reachable state: whatever the
\* user programs do, a runnable thread is in the ready queue or on the processor.
THEOREM KernelInvariant == Spec => [](TypeOK /\ NoLostThread)
<1>1. IInv => TypeOK /\ NoLostThread
  BY DEF IInv
<1> QED BY <1>1, InitIInv, NextIInv, PTL DEF Spec

\* The type invariant on its own: no handler leaves a thread in a state, or with a
\* partner or an argument, that the code has no case for.
THEOREM KernelTypes == Spec => []TypeOK
BY KernelInvariant, PTL
-----------------------------------------------------------------------------
(***************************************************************************)
(* The queues and the rendezvous.  Under a plain use the send queues hold   *)
(* exactly the threads that are queued, a timeout is pending where one is   *)
(* needed, and a deleted thread is in no queue.  Under a steady use, in     *)
(* which threads are neither created nor deleted, messages meet only        *)
(* receivers that asked for them and no assertion fails.  Left out are      *)
(* typed messages and the uses for which the README shows that the          *)
(* properties do break.  The invariants allow for interrupt threads, which  *)
(* InterruptsProofs adds.                                                   *)
(***************************************************************************)

\* A thread that a call (RecvPartner, ipc.cc:625) or an interrupt (Delivered,
\* interrupt.cc:228) makes ready keeps its receive timeout until it runs.
LeavesTimeouts == "rcv_timeout" \in Env /\ Env \cap {"call", "attach"} # {}

(***************************************************************************)
(* No strings, no IPC with oneself, no wait for a local thread while the    *)
(* first sender in the queue is a foreign one (ipc.cc:521), no abort or     *)
(* deletion of a thread that is locked in an IPC, no deletion of one that   *)
(* has senders queued or a timeout to handle; and none at all where         *)
(* timeouts stay pending.                                                   *)
(***************************************************************************)
PlainUse ==
  /\ Env \cap {"typed", "self", "wait_local", "abort_locked", "delete_queued",
               "delete_timedout"} = {}
  /\ LeavesTimeouts => "delete" \notin Env

\* The arguments of the IPC t is in are those of such a use.
GoodArg(t, a) ==
  /\ a.typed = FALSE /\ a.to # t
  /\ a.to # Nil /\ a.from # Nil => IsSpecial(a) \/ "call" \in Env
  /\ a.to # Nil => a.from # AnyLocal
  /\ a.rcv = "finite" => "rcv_timeout" \in Env

\* Without strings no IPC is nested in another one.
Untyped ==
  /\ xfer = {}
  /\ \A t \in Threads : /\ GoodArg(t, arg[t]) /\ outer[t] = NoArg
                        /\ spartner[t] = Nil /\ pc[t] # "copy"

\* What a saved state is for: a pagefault, a startup, or the handler of either.
SavedStates == \A t \in alive :
  /\ pc[t] \in {"user", "startup"} => arg[t].kind = "none"
  /\ pc[t] \notin {"startup", "error", "timeout"} /\ arg[t].kind # "pf" => sstate[t] = "aborted"

\* Deleted threads are at rest.
Living ==
  /\ current \in alive \cup {Idle} /\ ready \subseteq alive
  /\ \A d \in Threads \ alive :
       state[d] = "aborted" /\ pc[d] # "timeout" /\ sendq[d] = <<>>

\* Where a thread is in sys_ipc and the state it is in fit together.
Phases == \A t \in Threads :
  /\ pc[t] \in {"send", "xfer", "snddone", "recv"} => t = current
  /\ state[t] = "polling" => pc[t] \in {"polled", "irq"} /\ t # current
  /\ state[t] = "locked_waiting" => pc[t] = "lockwait"
  /\ state[t] = "waiting_timeout" => pc[t] = "rcvwait"
  /\ pc[t] \in {"polled", "irq"} /\ state[t] \in {"polling", "locked_running"} =>
       partner[t] = arg[t].to
  /\ pc[t] = "polled" /\ t \in alive => state[t] \in {"polling", "locked_running"}
  /\ pc[t] \in {"timeout", "error"} => state[t] \in {"running", "halted", "aborted"}
  /\ pc[t] = "timeout" => tstate[t] \notin {"locked_running", "locked_waiting"}
  /\ sstate[t] \notin {"polling", "locked_waiting", "waiting_timeout"}

\* The interrupt threads: privileged, and out of the reach of the users except for
\* the interrupts they accept and the acknowledgements they send.
Irq(t) == pc[t] \in {"irq", "acked"}
IrqPhases == \A t \in Threads : Irq(t) =>
  /\ Env \cap {"create", "delete"} = {}
  /\ \A u \in Threads : Prio[u] <= Prio[t] /\ (~Irq(u) => Space[u] # Space[t])
  /\ arg[t].kind = "none" /\ arg[t].snd = "never" /\ sstate[t] = "aborted"
  /\ pc[t] = "acked" => state[t] \in {"waiting_forever", "running"}
  /\ state[t] # "locked_running_ipc_done" /\ (state[t] = "locked_running" => t = current)
  /\ t = current => state[t] \in {"locked_running", "waiting_forever", "running"}

\* t has its receiver: accepted while queued, or past the test for readiness.
Committed(t) ==
  \/ pc[t] \in {"polled", "irq"} /\ state[t] = "locked_running"
  \/ pc[t] \in {"xfer", "snddone"}
  \/ pc[t] = "recv" /\ arg[t].to # Nil

\* The receiver of a committed sender waits for it, and for no other one.
Receivers == \A t \in Threads : Committed(t) =>
  /\ arg[t].to \in Threads \ {current} /\ is_receiving(state[arg[t].to])
  /\ pc[t] \in {"polled", "irq"} => state[arg[t].to] = "locked_waiting"
  /\ \A u \in Threads : Committed(u) /\ arg[u].to = arg[t].to => u = t

\* A pending timeout is that of a blocked thread, or of the one that runs and
\* cancels it next.
Pending == \A t \in Threads : t \in wakeup =>
  \/ /\ pc[t] = "polled"
     /\ state[t] = "polling" \/ (state[t] = "locked_running" /\ t = current)
  \/ /\ pc[t] = "rcvwait" /\ "rcv_timeout" \in Env
     /\ \/ state[t] = "waiting_timeout" \/ (state[t] = "running" /\ t = current)
        \/ LeavesTimeouts /\ state[t] \in {"running", "halted"}

\* The inductive invariant of the queues.
QueueInv == /\ IInv /\ Untyped /\ SavedStates /\ Living /\ Phases /\ Receivers
            /\ Pending /\ TimeoutArmed /\ SendQueueExact /\ IrqPhases
-----------------------------------------------------------------------------
(***************************************************************************)
(* A steady use: no thread is created or deleted, and nobody sends a message*)
(* and waits for a thread that does not exist in the same call.             *)
(***************************************************************************)
SteadyUse == Env \cap {"create", "delete", "bad_call"} = {}

\* The state a thread has at the places where its kernel stack resumes.
Places == \A t \in Threads :
  /\ pc[t] \in {"user", "send", "error", "timeout"} => state[t] \in {"running", "halted"}
  /\ pc[t] \in {"xfer", "snddone", "recv"} => state[t] \in {"running", "locked_running"}
  /\ pc[t] \in {"rcvwait", "special", "lockwait"} =>
       state[t] \in {"running", "halted", "waiting_forever", "waiting_timeout", "locked_waiting"}
  /\ pc[t] = "recv" /\ arg[t].to = Nil => state[t] = "running"
  /\ pc[t] # "startup"
  /\ t = current => state[t] # "halted"

\* What a thread in the kernel is there for, and what is saved for it.
Purposes == \A t \in Threads :
  \/ Irq(t)
  \/ pc[t] = "user" /\ arg[t].kind = "none" /\ sstate[t] = "aborted"
  \/ pc[t] # "user" /\ arg[t].kind = "user" /\ sstate[t] = "aborted"
  \/ pc[t] # "user" /\ arg[t].kind = "pf" /\ sstate[t] = "running"

\* The partners of an IPC in progress, and of a sender whose timeout expired.
Partners == \A t \in Threads :
  /\ pc[t] = "recv" => arg[t].from # Nil
  /\ pc[t] = "recv" /\ arg[t].to = Nil /\ arg[t].from = AnyLocal /\ sendq[t] # <<>> =>
       Space[Head(sendq[t])] = Space[t]
  /\ pc[t] \in {"send", "polled", "xfer", "recv"} /\ arg[t].to # Nil => arg[t].from # Bad
  /\ pc[t] = "send" /\ arg[t].kind = "pf" => arg[t].to \in Threads
  /\ arg[t].snd = "finite" => "snd_timeout" \in Env
  /\ pc[t] = "polled" /\ t \in wakeup => "snd_timeout" \in Env
  /\ pc[t] = "timeout" /\ tstate[t] = "polling" => partner[t] \in Threads /\ "snd_timeout" \in Env

\* r has its message, or asked for one of s that comes from t.
Told(r) == r = current \/ \E s \in Threads : pc[s] \in {"snddone", "recv"} /\ arg[s].to = r
Asked(r, s, t) == \/ arg[r].from \in {s, AnyThread}
                  \/ arg[r].from = AnyLocal /\ Space[r] = Space[t]

\* A waiting thread is registered with the partner it asked for.
Registered == \A r \in Threads : is_waiting(state[r]) => partner[r] = arg[r].from \/ Told(r)

\* A message goes to a thread that waits for it, or is locked with its sender.
Meeting == \A t \in Threads :
  /\ pc[t] \in {"polled", "irq"} /\ state[t] = "locked_running" =>
       Asked(arg[t].to, t, t)
  /\ pc[t] = "xfer" =>
       \/ is_waiting(state[arg[t].to]) /\ Asked(arg[t].to, arg[t].sid, t)
       \/ /\ state[arg[t].to] = "locked_waiting" /\ state[t] = "locked_running"
          /\ Asked(arg[t].to, t, t)

\* The sender a locked receiver is locked with.
Locked == \A r \in Threads : state[r] = "locked_waiting" /\ r # current =>
  \E s \in Threads : /\ state[s] = "locked_running" /\ arg[s].to = r
                     /\ pc[s] \in {"polled", "irq", "xfer", "snddone", "recv"}

\* While no sender times out, none is passed over by a receiver that would take it.
NoneMissed == "snd_timeout" \notin Env => \A s, r \in Threads :
  state[s] = "polling" /\ partner[s] = r /\ arg[s].sid = s
    /\ is_waiting(state[r]) /\ Asked(r, s, s) => Told(r)

\* The inductive invariant of a steady use, beside that of the queues.
SteadyInv == /\ alive = Threads /\ NoAssertionFails /\ Places /\ Purposes /\ Partners
             /\ Registered /\ Meeting /\ Locked /\ NoneMissed
-----------------------------------------------------------------------------
(* Lemmas *)

\* A thread that leaves a queue leaves the others in it, once each.
LEMMA WithoutRange ==
  ASSUME NEW s \in Seq(Threads), NEW t \in Threads,
         \A i, j \in DOMAIN s : s[i] = s[j] => i = j
  PROVE  /\ Range(Without(s, t)) = Range(s) \ {t}
         /\ \A i, j \in DOMAIN Without(s, t) : Without(s, t)[i] = Without(s, t)[j] => i = j
<1>1. CASE t \notin Range(s)
  BY <1>1 DEF Without
<1>2. CASE t \in Range(s)
  <2> DEFINE k == CHOOSE i \in DOMAIN s : s[i] = t
             w == [j \in 1 .. Len(s) - 1 |-> IF j < k THEN s[j] ELSE s[j + 1]]
  <2>1. k \in DOMAIN s /\ s[k] = t
    BY <1>2 DEF Range
  <2>2. Without(s, t) = w
    BY <1>2 DEF Without
  <2>3. DOMAIN s = 1 .. Len(s) /\ Len(s) \in Nat /\ DOMAIN w = 1 .. Len(s) - 1
    OBVIOUS
  <2> HIDE DEF k
  <2>4. \A i, j \in DOMAIN w : w[i] = w[j] => i = j
    BY <2>1, <2>3
  <2>5. ASSUME NEW i \in DOMAIN w
        PROVE  w[i] \in Range(s) \ {t}
    BY <2>1, <2>3, <2>5 DEF Range
  <2>6. ASSUME NEW i \in DOMAIN s, s[i] # t
        PROVE  \E j \in DOMAIN w : w[j] = s[i]
    <3>1. CASE i < k
      BY <2>1, <2>3, <3>1
    <3>2. CASE i > k
      <4>1. i - 1 \in DOMAIN w /\ w[i - 1] = s[i]
        BY <2>1, <2>3, <3>2
      <4> QED BY <4>1
    <3> QED BY <2>1, <2>3, <2>6, <3>1, <3>2
  <2>7. Range(w) = Range(s) \ {t}
    BY <2>5, <2>6 DEF Range
  <2> QED BY <2>2, <2>4, <2>7
<1> QED BY <1>1, <1>2

\* A thread that queues up is added to the others.
LEMMA AppendRange ==
  ASSUME NEW s \in Seq(Threads), NEW t \in Threads, t \notin Range(s),
         \A i, j \in DOMAIN s : s[i] = s[j] => i = j
  PROVE  /\ Range(Append(s, t)) = Range(s) \cup {t}
         /\ \A i, j \in DOMAIN Append(s, t) : Append(s, t)[i] = Append(s, t)[j] => i = j
<1> DEFINE w == Append(s, t)
<1>1. /\ DOMAIN s = 1 .. Len(s) /\ Len(s) \in Nat /\ DOMAIN w = 1 .. Len(s) + 1
      /\ w[Len(s) + 1] = t /\ \A i \in 1 .. Len(s) : w[i] = s[i]
  OBVIOUS
<1>2. \A i \in 1 .. Len(s) : s[i] # t
  BY <1>1 DEF Range
<1> HIDE DEF w
<1>3. \A i, j \in DOMAIN w : w[i] = w[j] => i = j
  BY <1>1, <1>2
<1>4. Range(w) = Range(s) \cup {t}
  <2>1. \A i \in DOMAIN w : w[i] \in Range(s) \cup {t}
    BY <1>1 DEF Range
  <2>2. \A i \in DOMAIN s : i \in DOMAIN w /\ w[i] = s[i]
    BY <1>1
  <2>3. Len(s) + 1 \in DOMAIN w
    BY <1>1
  <2> QED BY <1>1, <2>1, <2>2, <2>3 DEF Range
<1> QED BY <1>3, <1>4 DEF w

\* Three things are at most three.
LEMMA AtMostThree ==
  ASSUME NEW u, NEW v, NEW w
  PROVE  Cardinality({u, v, w}) <= 3
<1>1. Cardinality({}) = 0 /\ IsFiniteSet({})
  BY FS_EmptySet
<1>2. IsFiniteSet({u}) /\ Cardinality({u}) <= 1 /\ Cardinality({u}) \in Nat
  <2>1. {} \cup {u} = {u}
    OBVIOUS
  <2> QED BY <1>1, <2>1, FS_AddElement
<1>3. IsFiniteSet({u, v}) /\ Cardinality({u, v}) <= 2 /\ Cardinality({u, v}) \in Nat
  <2>1. {u} \cup {v} = {u, v}
    OBVIOUS
  <2> QED BY <1>2, <2>1, FS_AddElement
<1>4. {u, v} \cup {w} = {u, v, w}
  OBVIOUS
<1> QED BY <1>3, <1>4, FS_AddElement

\* The special ids differ from each other.
LEMMA IdsDiffer ==
  /\ Nil \notin {AnyThread, AnyLocal, Bad}
  /\ AnyLocal \notin {AnyThread, Bad}
  /\ AnyThread # Bad
<1> DEFINE four == {Nil, AnyThread, AnyLocal, Bad}
<1>1. Cardinality(four) = 4
  BY TcbAssumption
<1>2. /\ Cardinality({AnyThread, AnyLocal, Bad}) <= 3 /\ Cardinality({Nil, AnyThread, Bad}) <= 3
      /\ Cardinality({Nil, AnyThread, AnyLocal}) <= 3
  BY AtMostThree
<1>3. /\ four # {AnyThread, AnyLocal, Bad} /\ four # {Nil, AnyThread, Bad}
      /\ four # {Nil, AnyThread, AnyLocal}
  BY <1>1, <1>2
<1>4. /\ Nil \in {AnyThread, AnyLocal, Bad} => four = {AnyThread, AnyLocal, Bad}
      /\ AnyLocal \in {AnyThread, Bad} => four = {Nil, AnyThread, Bad}
      /\ AnyThread = Bad => four = {Nil, AnyThread, AnyLocal}
  OBVIOUS
<1> QED BY <1>3, <1>4

\* The nil id is none of the other special ids.
LEMMA NilDiffers == Nil \notin {AnyThread, AnyLocal, Bad}
BY IdsDiffer

\* What the users may pass to sys_ipc.
LEMMA PlainArgs ==
  ASSUME PlainUse, NEW t \in Threads, NEW a \in UserArgs(t), Usual(t, a)
  PROVE  /\ a.kind = "user" /\ GoodArg(t, [a EXCEPT !.sid = SenderId(t, a)])
         /\ [a EXCEPT !.sid = SenderId(t, a)].kind = "user"
         /\ [a EXCEPT !.sid = SenderId(t, a)].to = a.to
         /\ a.to = Nil => [a EXCEPT !.sid = SenderId(t, a)].from # Nil
         /\ a.to # Nil /\ [a EXCEPT !.sid = SenderId(t, a)].from = Bad => "bad_call" \in Env
         /\ [a EXCEPT !.sid = SenderId(t, a)].from = AnyLocal => HeadIsLocal(t, a)
         /\ [a EXCEPT !.sid = SenderId(t, a)].snd = "finite" => "snd_timeout" \in Env
<1>1. /\ a.kind = "user" /\ a.typed = FALSE /\ (a.to # Nil /\ a.from # Nil => "call" \in Env)
      /\ (a.rcv = "finite" => "rcv_timeout" \in Env) /\ (a.snd = "finite" => "snd_timeout" \in Env)
      /\ (a.to = Nil => a.from # Nil)
  <2>1. \A x \in SendArgs(t) : /\ x.typed = FALSE /\ x.to # Nil
                               /\ x.snd = "finite" => "snd_timeout" \in Env
    BY NilDiffers, TcbAssumption DEF PlainUse, SendArgs, Phase, Does
  <2>2. \A r \in RecvArgs : r.from # Nil /\ (r.rcv = "finite" => "rcv_timeout" \in Env)
    BY NilDiffers, TcbAssumption DEF RecvArgs, Phase, Does
  <2>3. CASE \E x \in SendArgs(t) : a = Call(x, NoRecv)
    BY <2>1, <2>3 DEF Call, NoRecv
  <2>4. CASE \E r \in RecvArgs : a = Call(NoSend(t), r)
    BY <2>2, <2>4 DEF Call, NoSend
  <2>5. CASE \E x \in SendArgs(t), r \in RecvArgs : Does("call") /\ a = Call(x, r)
    BY <2>1, <2>2, <2>5 DEF Call, Does
  <2>6. \/ \E x \in SendArgs(t) : a = Call(x, NoRecv)
        \/ \E r \in RecvArgs : a = Call(NoSend(t), r)
        \/ \E x \in SendArgs(t), r \in RecvArgs : Does("call") /\ a = Call(x, r)
    BY DEF UserArgs
  <2> QED BY <2>3, <2>4, <2>5, <2>6
<1>2. /\ a.to # t /\ (a.to # Nil /\ a.from = Bad => "bad_call" \in Env)
      /\ a.from = AnyLocal => HeadIsLocal(t, a)
  BY DEF Usual, PlainUse, Does
<1>3. a \in Args
  BY UserArgsType
<1> DEFINE b == [a EXCEPT !.sid = SenderId(t, a)]
<1>4. /\ b.kind = a.kind /\ b.to = a.to /\ b.from = a.from /\ b.snd = a.snd
      /\ b.rcv = a.rcv /\ b.typed = a.typed
  BY <1>3 DEF Args
<1> QED BY <1>1, <1>2, <1>4 DEF GoodArg, HeadIsLocal

\* The other arguments the kernel uses.
LEMMA KernelArgs ==
  ASSUME NEW t \in Threads
  PROVE  /\ GoodArg(t, NoArg) /\ NoArg.kind = "none" /\ NoArg.to = Nil
         /\ Pager[t] # t => GoodArg(t, PagefaultArg(t))
         /\ PagefaultArg(t).kind = "pf" /\ PagefaultArg(t).to = Pager[t]
         /\ NoArg.snd = "never" /\ PagefaultArg(t).snd = "never"
         /\ PagefaultArg(t).from = Pager[t] /\ Pager[t] \in Threads
<1>1. {Nil, AnyLocal} \cap Threads = {} /\ Pager[t] \in Threads
  BY TcbAssumption
<1> QED BY <1>1 DEF GoodArg, NoArg, PagefaultArg, IsSpecial, HasSent

\* The end of sys_ipc, when no copy was interrupted.
LEMMA ReturnEffect ==
  ASSUME TypeOK, Untyped, NEW t \in Threads, NEW st \in [Threads -> ThreadStates],
         NEW par \in [Threads -> ids], Return(t, st, par)
  PROVE  /\ pc' = [pc EXCEPT ![t] = "user"] /\ arg' = [arg EXCEPT ![t] = NoArg]
         /\ \A x \in Threads : outer'[x] = outer[x] /\ spartner'[x] = spartner[x]
         /\ \A x \in Threads : state'[x] = IF x = t /\ arg[t].kind = "pf" THEN sstate[t] ELSE st[x]
         /\ \A x \in Threads \ {t} : partner'[x] = par[x]
         /\ sstate' = IF arg[t].kind = "pf" THEN [sstate EXCEPT ![t] = "aborted"] ELSE sstate
<1>1. outer[t] = NoArg /\ spartner[t] = Nil /\ ~HasOuter(t)
  <2>1. outer[t] = NoArg /\ spartner[t] = Nil
    BY DEF Untyped
  <2> QED BY <2>1, KernelArgs DEF HasOuter
<1>2. CASE arg[t].kind = "pf"
  <2>1. /\ state' = [st EXCEPT ![t] = sstate[t]] /\ partner' = [par EXCEPT ![t] = spartner[t]]
        /\ spartner' = [spartner EXCEPT ![t] = Nil] /\ sstate' = [sstate EXCEPT ![t] = "aborted"]
        /\ pc' = [pc EXCEPT ![t] = "user"] /\ arg' = [arg EXCEPT ![t] = outer[t]]
        /\ outer' = [outer EXCEPT ![t] = NoArg]
    BY <1>1, <1>2 DEF Return, RestoredState
  <2>2. \A x \in Threads : outer'[x] = outer[x]
    BY <1>1, <2>1 DEF TypeOK
  <2>3. \A x \in Threads : spartner'[x] = spartner[x]
    BY <1>1, <2>1 DEF TypeOK
  <2> QED BY <1>1, <1>2, <2>1, <2>2, <2>3
<1>3. CASE arg[t].kind # "pf"
  BY <1>3 DEF Return
<1> QED BY <1>2, <1>3

\* The threads in the send queues when neither the queues nor the places and
\* partners of queued threads change.
LEMMA SameQueues ==
  ASSUME SendQueueExact, UNCHANGED sendq,
         \A x \in Threads : IsQueued(x)' <=> IsQueued(x),
         \A x \in Threads : IsQueued(x) => partner'[x] = partner[x]
  PROVE  SendQueueExact'
BY DEF SendQueueExact

\* The queues when one thread leaves the queue it is in, if any.
LEMMA LeaveQueue ==
  ASSUME TypeOK, SendQueueExact, NEW d \in Threads,
         \A x \in Threads : sendq'[x] = IF IsQueued(d) /\ x = partner[d] THEN Without(sendq[x], d)
                                                                      ELSE sendq[x],
         \A x \in Threads : IsQueued(x)' <=> IsQueued(x) /\ x # d,
         \A x \in Threads \ {d} : partner'[x] = partner[x]
  PROVE  SendQueueExact'
<1>1. CASE IsQueued(d) /\ partner[d] \in Threads
  <2>1. /\ sendq'[partner[d]] = Without(sendq[partner[d]], d) /\ sendq[partner[d]] \in Seq(Threads)
        /\ \A i, j \in DOMAIN sendq[partner[d]] : sendq[partner[d]][i] = sendq[partner[d]][j] => i = j
    BY <1>1 DEF SendQueueExact, TypeOK
  <2>2. /\ Range(sendq'[partner[d]]) = Range(sendq[partner[d]]) \ {d}
        /\ \A i, j \in DOMAIN sendq'[partner[d]] :
             sendq'[partner[d]][i] = sendq'[partner[d]][j] => i = j
    BY <2>1, WithoutRange
  <2> QED BY <1>1, <2>2 DEF SendQueueExact
<1>2. CASE ~(IsQueued(d) /\ partner[d] \in Threads)
  BY <1>2 DEF SendQueueExact
<1> QED BY <1>1, <1>2

\* Unwinding a thread that is not locked in an IPC concerns that thread only.
LEMMA UnwindEffect ==
  ASSUME TypeOK, Untyped, NEW d \in Threads, NEW s \in ThreadStates,
         s \notin {"locked_running", "locked_waiting"}
  PROVE  /\ Aborted(d, s) = {} /\ UnwoundPartner(d) = partner /\ UnwoundSstate(d) = sstate
         /\ \A x \in Threads : UnwoundSpartner(d)[x] = Nil
         /\ \A x \in Threads : UnwoundSendq(d, s)[x] =
              IF s = "polling" /\ x = partner[d] THEN Without(sendq[x], d) ELSE sendq[x]
         /\ UnwoundWakeup(d, s) = IF NotStarted(s) THEN wakeup \ {d} ELSE wakeup
<1>1. ~Nested(d) /\ \A x \in Threads : spartner[x] = Nil
  BY DEF Untyped, Nested
<1>2. Aborted(d, s) = {} /\ UnwoundPartner(d) = partner /\ UnwoundSstate(d) = sstate
  BY <1>1 DEF Aborted, AbortedBy, UnwoundPartner, UnwoundSstate
<1>3. \A x \in Threads : UnwoundSpartner(d)[x] = Nil
  BY <1>1 DEF UnwoundSpartner, TypeOK
<1>4. \A x \in Threads : UnwoundSendq(d, s)[x] =
        IF s = "polling" /\ x = partner[d] THEN Without(sendq[x], d) ELSE sendq[x]
  BY DEF UnwoundSendq, TypeOK
<1> QED BY <1>2, <1>3, <1>4 DEF UnwoundWakeup, Cancelled

\* Where schedule() may switch to, and what it leaves in the ready queue.
LEMMA ScheduleEffect ==
  ASSUME NEW rs \in SUBSET Threads, NEW st \in [Threads -> ThreadStates],
         NEW t \in Threads \cup {Idle}, t # Idle => t \in rs, schedule(t, rs, st)
  PROVE  /\ ready' \subseteq rs
         /\ current' = Idle \/ (current' \in rs /\ is_runnable(st[current']))
<1>1. PICK x \in Threads \cup {Idle}, rest \in SUBSET rs :
         /\ find_next_thread(rs, st, x, rest)
         /\ current' = x
         /\ ready' = IF x # t /\ t # Idle THEN rest \cup {t} ELSE rest
  BY DEF schedule
<1>2. x = Idle \/ (x \in rs /\ is_runnable(st[x]))
  BY <1>1 DEF find_next_thread, TopRunnable
<1> QED BY <1>1, <1>2

\* The thread that runs is a living one.
LEMMA CurrentAlive ==
  ASSUME QueueInv, NEW t \in Threads, current = t
  PROVE  t \in alive
BY TcbAssumption DEF QueueInv, Living

\* A system call starts with arguments of a plain use.
LEMMA SysIpcKeeps ==
  ASSUME PlainUse, QueueInv, NEW t \in Threads, SysIpc(t)
  PROVE  QueueInv' /\ (SteadyUse /\ SteadyInv => SteadyInv')
<1>1. IInv'
  BY NextIInv DEF QueueInv, Next, IpcNext
<1>2. PICK a \in UserArgs(t) :
        /\ Usual(t, a) /\ arg' = [arg EXCEPT ![t] = [a EXCEPT !.sid = SenderId(t, a)]]
        /\ pc' = [pc EXCEPT ![t] = IF a.to = Nil THEN "recv" ELSE "send"]
  BY DEF SysIpc
<1> DEFINE b == [a EXCEPT !.sid = SenderId(t, a)]
<1>3. /\ GoodArg(t, b) /\ b.kind = "user" /\ b.to = a.to /\ (a.to = Nil => b.from # Nil)
      /\ (a.to # Nil /\ b.from = Bad => "bad_call" \in Env)
      /\ (b.snd = "finite" => "snd_timeout" \in Env)
      /\ (b.from = AnyLocal /\ sendq[t] # <<>> => Space[Head(sendq[t])] = Space[t])
  BY <1>2, PlainArgs DEF HeadIsLocal
<1>4. /\ current = t /\ pc[t] = "user"
      /\ UNCHANGED <<current, state, partner, sstate, spartner, ready, wakeup, sendq,
                     outer, xfer, tstate, alive, failed>>
  BY DEF SysIpc, AtUser
<1>5. /\ \A x \in Threads : pc'[x] = IF x = t THEN (IF a.to = Nil THEN "recv" ELSE "send") ELSE pc[x]
      /\ \A x \in Threads : arg'[x] = IF x = t THEN b ELSE arg[x]
  BY <1>2 DEF QueueInv, IInv, TypeOK
<1> HIDE DEF b
<1>6. Untyped'
  BY <1>3, <1>4, <1>5 DEF QueueInv, Untyped
<1>7. SavedStates'
  BY <1>3, <1>4, <1>5 DEF QueueInv, SavedStates, IInv, TypeOK
<1>8. Living'
  BY <1>4, <1>5 DEF QueueInv, Living
<1>9. Phases'
  BY <1>4, <1>5 DEF QueueInv, Phases
<1>10. Receivers'
  BY <1>3, <1>4, <1>5 DEF QueueInv, Receivers, Phases, Committed
<1>11. Pending'
  BY <1>4, <1>5 DEF QueueInv, Pending
<1>12. TimeoutArmed'
  BY <1>4, <1>5 DEF QueueInv, TimeoutArmed, Phases
<1>13. SendQueueExact'
  BY <1>4, <1>5, SameQueues DEF QueueInv, Phases, IsQueued
<1>14. IrqPhases'
  BY <1>4, <1>5 DEF QueueInv, IrqPhases, Irq, Phases
<1>15. ASSUME SteadyUse, SteadyInv
       PROVE  SteadyInv'
  <2>1. state[t] = "running" /\ Nil \notin Threads
    BY <1>3, <1>4, <1>5, <1>15, TcbAssumption DEF SteadyInv, Places
  <2>2. alive' = Threads
    BY <1>3, <1>4, <1>5, <1>15, <2>1 DEF SteadyInv
  <2>3. NoAssertionFails'
    BY <1>3, <1>4, <1>5, <1>15, <2>1 DEF SysIpc, SteadyInv, NoAssertionFails
  <2>4. Places'
    BY <1>3, <1>4, <1>5, <1>15, <2>1 DEF SteadyInv, Places, Purposes, Irq, QueueInv, Phases
  <2>5. Purposes'
    BY <1>3, <1>4, <1>5, <1>15, <2>1 DEF SteadyInv, Purposes, Irq
  <2>6. Partners'
    BY <1>3, <1>4, <1>5, <1>15, <2>1 DEF SteadyInv, Partners, SteadyUse, QueueInv, Phases
  <2>7. Registered'
    BY <1>3, <1>4, <1>5, <1>15, <2>1 DEF SteadyInv, Registered, Told, is_waiting, Places, QueueInv, Phases
  <2>8. Meeting'
    BY <1>3, <1>4, <1>5, <1>15, <2>1 DEF SteadyInv, Meeting, Asked, is_waiting, QueueInv, Phases, Receivers, Committed
  <2>9. Locked'
    BY <1>3, <1>4, <1>5, <1>15, <2>1 DEF SteadyInv, Locked, Places, QueueInv, Phases
  <2>10. NoneMissed'
    BY <1>3, <1>4, <1>5, <1>15, <2>1 DEF SteadyInv, NoneMissed, Asked, Told, is_waiting, Places, QueueInv, Phases
  <2> QED BY <2>2, <2>3, <2>4, <2>5, <2>6, <2>7, <2>8, <2>9, <2>10 DEF SteadyInv
<1> QED BY <1>1, <1>6, <1>7, <1>8, <1>9, <1>10, <1>11, <1>12, <1>13, <1>14, <1>15 DEF QueueInv

\* A pagefault saves the state of a thread at user level.
LEMMA PageFaultKeeps ==
  ASSUME PlainUse, QueueInv, NEW t \in Threads, PageFault(t)
  PROVE  QueueInv' /\ (SteadyUse /\ SteadyInv => SteadyInv')
<1>1. IInv'
  BY NextIInv DEF QueueInv, Next, IpcNext
<1>2. /\ current = t /\ pc[t] = "user" /\ Pager[t] # t
      /\ UNCHANGED <<current, state, ready, wakeup, sendq, outer, xfer, tstate, alive>>
  BY DEF PageFault, AtUser
<1>3. t \in alive
  BY <1>2, CurrentAlive
<1>4. GoodArg(t, PagefaultArg(t)) /\ PagefaultArg(t).kind = "pf"
  BY <1>2, KernelArgs
<1>5. \A x \in Threads : /\ pc'[x] = IF x = t THEN "send" ELSE pc[x]
                         /\ arg'[x] = IF x = t THEN PagefaultArg(t) ELSE arg[x]
                         /\ partner'[x] = IF x = t THEN Nil ELSE partner[x]
                         /\ spartner'[x] = IF x = t THEN Nil ELSE spartner[x]
                         /\ sstate'[x] = IF x = t THEN state[t] ELSE sstate[x]
  BY DEF PageFault, QueueInv, IInv, TypeOK
<1>6. Untyped'
  BY <1>2, <1>3, <1>4, <1>5 DEF QueueInv, Untyped
<1>7. SavedStates'
  BY <1>2, <1>3, <1>4, <1>5 DEF QueueInv, SavedStates, IInv, TypeOK
<1>8. Living'
  BY <1>2, <1>3, <1>4, <1>5 DEF QueueInv, Living, Phases
<1>9. Phases'
  BY <1>2, <1>3, <1>4, <1>5 DEF QueueInv, Phases
<1>10. Receivers'
  BY <1>2, <1>3, <1>4, <1>5 DEF QueueInv, Receivers, Phases, Committed
<1>11. Pending'
  BY <1>2, <1>3, <1>4, <1>5 DEF QueueInv, Pending, Phases
<1>12. TimeoutArmed'
  BY <1>2, <1>3, <1>4, <1>5 DEF QueueInv, TimeoutArmed, Phases
<1>13. SendQueueExact'
  BY <1>2, <1>3, <1>4, <1>5, SameQueues DEF QueueInv, Phases, IsQueued
<1>14. IrqPhases'
  BY <1>2, <1>3, <1>4, <1>5 DEF QueueInv, IrqPhases, Irq, Phases
<1>15. ASSUME SteadyUse, SteadyInv
       PROVE  SteadyInv'
  <2>1. state[t] = "running" /\ spartner[t] = Nil /\ sstate[t] = "aborted"
    BY <1>2, <1>3, <1>4, <1>5, <1>15 DEF SteadyInv, Places, Purposes, Irq, QueueInv, Untyped
  <2>2. /\ PagefaultArg(t).to \in Threads /\ PagefaultArg(t).from \in Threads /\ Bad \notin Threads
        /\ PagefaultArg(t).snd = "never"
    BY KernelArgs, TcbAssumption
  <2>3. alive' = Threads
    BY <1>2, <1>3, <1>4, <1>5, <1>15, <2>1, <2>2 DEF SteadyInv
  <2>4. NoAssertionFails'
    BY <1>2, <1>3, <1>4, <1>5, <1>15, <2>1, <2>2 DEF PageFault, SteadyInv, NoAssertionFails, SaveFails
  <2>5. Places'
    BY <1>2, <1>3, <1>4, <1>5, <1>15, <2>1, <2>2 DEF SteadyInv, Places, Purposes, Irq, QueueInv, Phases
  <2>6. Purposes'
    BY <1>2, <1>3, <1>4, <1>5, <1>15, <2>1, <2>2 DEF SteadyInv, Purposes, Irq
  <2>7. Partners'
    BY <1>2, <1>3, <1>4, <1>5, <1>15, <2>1, <2>2 DEF SteadyInv, Partners, QueueInv, Phases
  <2>8. Registered'
    BY <1>2, <1>3, <1>4, <1>5, <1>15, <2>1, <2>2 DEF SteadyInv, Registered, Told, is_waiting, Places, QueueInv, Phases
  <2>9. Meeting'
    BY <1>2, <1>3, <1>4, <1>5, <1>15, <2>1, <2>2 DEF SteadyInv, Meeting, Asked, is_waiting, QueueInv, Phases, Receivers, Committed
  <2>10. Locked'
    BY <1>2, <1>3, <1>4, <1>5, <1>15, <2>1, <2>2 DEF SteadyInv, Locked, Places, QueueInv, Phases
  <2>11. NoneMissed'
    BY <1>2, <1>3, <1>4, <1>5, <1>15, <2>1, <2>2 DEF SteadyInv, NoneMissed, Asked, Told, is_waiting, Places, QueueInv, Phases
  <2> QED BY <2>3, <2>4, <2>5, <2>6, <2>7, <2>8, <2>9, <2>10, <2>11 DEF SteadyInv
<1> QED BY <1>1, <1>6, <1>7, <1>8, <1>9, <1>10, <1>11, <1>12, <1>13, <1>14, <1>15 DEF QueueInv

\* Sending to a thread that does not exist returns.
LEMMA SendNonExistingKeeps ==
  ASSUME PlainUse, QueueInv, NEW t \in Threads, SendNonExisting(t)
  PROVE  QueueInv' /\ (SteadyUse /\ SteadyInv => SteadyInv')
<1>1. IInv'
  BY NextIInv DEF QueueInv, Next, IpcNext
<1>2. /\ current = t /\ pc[t] = "send" /\ Return(t, state, partner)
      /\ UNCHANGED <<current, ready, wakeup, sendq, xfer, tstate, alive>>
  BY DEF SendNonExisting, InKernel
<1>3. t \in alive
  BY <1>2, CurrentAlive
<1>4. /\ pc' = [pc EXCEPT ![t] = "user"] /\ arg' = [arg EXCEPT ![t] = NoArg]
      /\ \A x \in Threads : outer'[x] = outer[x] /\ spartner'[x] = spartner[x]
      /\ \A x \in Threads : state'[x] = IF x = t /\ arg[t].kind = "pf" THEN sstate[t] ELSE state[x]
      /\ \A x \in Threads \ {t} : partner'[x] = partner[x]
      /\ sstate' = IF arg[t].kind = "pf" THEN [sstate EXCEPT ![t] = "aborted"] ELSE sstate
  BY <1>2, ReturnEffect DEF QueueInv, IInv, TypeOK
<1>5. \A x \in Threads : /\ pc'[x] = IF x = t THEN "user" ELSE pc[x]
                         /\ arg'[x] = IF x = t THEN NoArg ELSE arg[x]
                         /\ sstate'[x] = IF x = t /\ arg[t].kind = "pf" THEN "aborted" ELSE sstate[x]
  BY <1>4 DEF QueueInv, IInv, TypeOK
<1>6. GoodArg(t, NoArg) /\ NoArg.kind = "none" /\ NoArg.to = Nil /\ NoArg.snd = "never"
  BY KernelArgs
<1>7. Untyped'
  BY <1>2, <1>3, <1>4, <1>5, <1>6 DEF QueueInv, Untyped
<1>8. SavedStates'
  BY <1>2, <1>3, <1>4, <1>5, <1>6 DEF QueueInv, SavedStates, IInv, TypeOK
<1>9. Living'
  BY <1>2, <1>3, <1>4, <1>5, <1>6 DEF QueueInv, Living, Phases
<1>10. Phases'
  BY <1>2, <1>3, <1>4, <1>5, <1>6 DEF QueueInv, Phases
<1>11. Receivers'
  BY <1>2, <1>3, <1>4, <1>5, <1>6 DEF QueueInv, Receivers, Phases, Committed
<1>12. Pending'
  BY <1>2, <1>3, <1>4, <1>5, <1>6 DEF QueueInv, Pending, Phases
<1>13. TimeoutArmed'
  BY <1>2, <1>3, <1>4, <1>5, <1>6 DEF QueueInv, TimeoutArmed, Phases
<1>14. SendQueueExact'
  BY <1>2, <1>3, <1>4, <1>5, <1>6, SameQueues DEF QueueInv, Phases, IsQueued
<1>15. IrqPhases'
  BY <1>2, <1>3, <1>4, <1>5, <1>6 DEF QueueInv, IrqPhases, Irq, Phases
<1>16. ASSUME SteadyUse, SteadyInv
       PROVE  SteadyInv'
  <2>1. alive' = Threads
    BY <1>2, <1>3, <1>4, <1>5, <1>6, <1>16 DEF SteadyInv
  <2>2. NoAssertionFails'
    BY <1>2, <1>3, <1>4, <1>5, <1>6, <1>16 DEF SendNonExisting, SteadyInv, NoAssertionFails, Stopped, Exists, Partners
  <2>3. Places'
    BY <1>2, <1>3, <1>4, <1>5, <1>6, <1>16 DEF SteadyInv, Places, Purposes, Irq, QueueInv, Phases
  <2>4. Purposes'
    BY <1>2, <1>3, <1>4, <1>5, <1>6, <1>16 DEF SteadyInv, Purposes, Irq
  <2>5. Partners'
    BY <1>2, <1>3, <1>4, <1>5, <1>6, <1>16 DEF SteadyInv, Partners, QueueInv, Phases
  <2>6. Registered'
    BY <1>2, <1>3, <1>4, <1>5, <1>6, <1>16 DEF SteadyInv, Registered, Told, is_waiting, Places, QueueInv, Phases
  <2>7. Meeting'
    BY <1>2, <1>3, <1>4, <1>5, <1>6, <1>16 DEF SteadyInv, Meeting, Asked, is_waiting, QueueInv, Phases, Receivers, Committed
  <2>8. Locked'
    BY <1>2, <1>3, <1>4, <1>5, <1>6, <1>16 DEF SteadyInv, Locked, Places, QueueInv, Phases
  <2>9. NoneMissed'
    BY <1>2, <1>3, <1>4, <1>5, <1>6, <1>16 DEF SteadyInv, NoneMissed, Asked, Told, is_waiting, Places, QueueInv, Phases
  <2> QED BY <2>1, <2>2, <2>3, <2>4, <2>5, <2>6, <2>7, <2>8, <2>9 DEF SteadyInv
<1> QED BY <1>1, <1>7, <1>8, <1>9, <1>10, <1>11, <1>12, <1>13, <1>14, <1>15, <1>16 DEF QueueInv

\* The receiver accepts: it waits, and no other sender has it.
LEMMA SendReadyKeeps ==
  ASSUME PlainUse, QueueInv, NEW t \in Threads, SendReady(t)
  PROVE  QueueInv' /\ (SteadyUse /\ SteadyInv => SteadyInv')
<1>1. IInv'
  BY NextIInv DEF QueueInv, Next, IpcNext
<1>2. /\ current = t /\ pc[t] = "send" /\ is_waiting(state[arg[t].to])
      /\ UNCHANGED <<current, state, partner, sstate, spartner, ready, wakeup, sendq,
                     arg, outer, xfer, tstate, alive>>
  BY DEF SendReady, InKernel, Accepts
<1>3. t \in alive
  BY <1>2, CurrentAlive
<1>4. \A x \in Threads : pc'[x] = IF x = t THEN "xfer" ELSE pc[x]
  BY DEF SendReady, QueueInv, IInv, TypeOK
<1>5. arg[t].to \in Threads \ {t}
  BY DEF SendReady, Exists, QueueInv, IInv, TypeOK, Untyped, GoodArg
<1>6. Untyped'
  BY <1>2, <1>3, <1>4, <1>5 DEF QueueInv, Untyped
<1>7. SavedStates'
  BY <1>2, <1>3, <1>4, <1>5 DEF QueueInv, SavedStates, IInv, TypeOK
<1>8. Living'
  BY <1>2, <1>3, <1>4, <1>5 DEF QueueInv, Living, Phases
<1>9. Phases'
  BY <1>2, <1>3, <1>4, <1>5 DEF QueueInv, Phases
<1>10. Receivers'
  BY <1>2, <1>3, <1>4, <1>5 DEF QueueInv, Receivers, Phases, Committed, is_waiting, is_receiving
<1>11. Pending'
  BY <1>2, <1>3, <1>4, <1>5 DEF QueueInv, Pending, Phases
<1>12. TimeoutArmed'
  BY <1>2, <1>3, <1>4, <1>5 DEF QueueInv, TimeoutArmed, Phases
<1>13. SendQueueExact'
  BY <1>2, <1>3, <1>4, <1>5, SameQueues DEF QueueInv, Phases, IsQueued
<1>14. IrqPhases'
  BY <1>2, <1>3, <1>4, <1>5 DEF QueueInv, IrqPhases, Irq, Phases
<1>15. ASSUME SteadyUse, SteadyInv
       PROVE  SteadyInv'
  <2>1. Asked(arg[t].to, arg[t].sid, t)
    BY <1>2, <1>3, <1>4, <1>5, <1>15 DEF SteadyInv, Registered, Told, SendReady, Accepts, Asked, QueueInv, Phases
  <2>2. alive' = Threads
    BY <1>2, <1>3, <1>4, <1>5, <1>15, <2>1 DEF SteadyInv
  <2>3. NoAssertionFails'
    BY <1>2, <1>3, <1>4, <1>5, <1>15, <2>1 DEF SendReady, SteadyInv, NoAssertionFails
  <2>4. Places'
    BY <1>2, <1>3, <1>4, <1>5, <1>15, <2>1 DEF SteadyInv, Places, Purposes, Irq, QueueInv, Phases
  <2>5. Purposes'
    BY <1>2, <1>3, <1>4, <1>5, <1>15, <2>1 DEF SteadyInv, Purposes, Irq
  <2>6. Partners'
    BY <1>2, <1>3, <1>4, <1>5, <1>15, <2>1 DEF SteadyInv, Partners, QueueInv, Phases
  <2>7. Registered'
    BY <1>2, <1>3, <1>4, <1>5, <1>15, <2>1 DEF SteadyInv, Registered, Told, is_waiting, Places, QueueInv, Phases
  <2>8. Meeting'
    BY <1>2, <1>3, <1>4, <1>5, <1>15, <2>1 DEF SteadyInv, Meeting, Asked, is_waiting, QueueInv, Phases, Receivers, Committed
  <2>9. Locked'
    BY <1>2, <1>3, <1>4, <1>5, <1>15, <2>1 DEF SteadyInv, Locked, Places, QueueInv, Phases
  <2>10. NoneMissed'
    BY <1>2, <1>3, <1>4, <1>5, <1>15, <2>1 DEF SteadyInv, NoneMissed, Asked, Told, is_waiting, Places, QueueInv, Phases
  <2> QED BY <2>2, <2>3, <2>4, <2>5, <2>6, <2>7, <2>8, <2>9, <2>10 DEF SteadyInv
<1> QED BY <1>1, <1>6, <1>7, <1>8, <1>9, <1>10, <1>11, <1>12, <1>13, <1>14, <1>15 DEF QueueInv

\* A zero timeout returns.
LEMMA SendZeroTimeoutKeeps ==
  ASSUME PlainUse, QueueInv, NEW t \in Threads, SendZeroTimeout(t)
  PROVE  QueueInv' /\ (SteadyUse /\ SteadyInv => SteadyInv')
<1>1. IInv'
  BY NextIInv DEF QueueInv, Next, IpcNext
<1>2. /\ current = t /\ pc[t] = "send" /\ Return(t, Running(t), partner)
      /\ UNCHANGED <<current, ready, wakeup, sendq, xfer, tstate, alive>>
  BY DEF SendZeroTimeout, InKernel
<1>3. t \in alive
  BY <1>2, CurrentAlive
<1>4. /\ Running(t) \in [Threads -> ThreadStates]
      /\ \A x \in Threads : Running(t)[x] = IF x = t THEN "running" ELSE state[x]
  BY Values DEF Running, QueueInv, IInv, TypeOK
<1>5. /\ pc' = [pc EXCEPT ![t] = "user"] /\ arg' = [arg EXCEPT ![t] = NoArg]
      /\ \A x \in Threads : outer'[x] = outer[x] /\ spartner'[x] = spartner[x]
      /\ \A x \in Threads : state'[x] = IF x = t /\ arg[t].kind = "pf" THEN sstate[t] ELSE Running(t)[x]
      /\ \A x \in Threads \ {t} : partner'[x] = partner[x]
      /\ sstate' = IF arg[t].kind = "pf" THEN [sstate EXCEPT ![t] = "aborted"] ELSE sstate
  BY <1>2, <1>4, ReturnEffect DEF QueueInv, IInv, TypeOK
<1>6. \A x \in Threads : /\ pc'[x] = IF x = t THEN "user" ELSE pc[x]
                         /\ arg'[x] = IF x = t THEN NoArg ELSE arg[x]
                         /\ sstate'[x] = IF x = t /\ arg[t].kind = "pf" THEN "aborted" ELSE sstate[x]
  BY <1>5 DEF QueueInv, IInv, TypeOK
<1>7. GoodArg(t, NoArg) /\ NoArg.kind = "none" /\ NoArg.to = Nil /\ NoArg.snd = "never"
  BY KernelArgs
<1>8. Untyped'
  BY <1>2, <1>3, <1>4, <1>5, <1>6, <1>7 DEF QueueInv, Untyped
<1>9. SavedStates'
  BY <1>2, <1>3, <1>4, <1>5, <1>6, <1>7 DEF QueueInv, SavedStates, IInv, TypeOK
<1>10. Living'
  BY <1>2, <1>3, <1>4, <1>5, <1>6, <1>7 DEF QueueInv, Living, Phases
<1>11. Phases'
  BY <1>2, <1>3, <1>4, <1>5, <1>6, <1>7 DEF QueueInv, Phases
<1>12. Receivers'
  BY <1>2, <1>3, <1>4, <1>5, <1>6, <1>7 DEF QueueInv, Receivers, Phases, Committed
<1>13. Pending'
  BY <1>2, <1>3, <1>4, <1>5, <1>6, <1>7 DEF QueueInv, Pending, Phases
<1>14. TimeoutArmed'
  BY <1>2, <1>3, <1>4, <1>5, <1>6, <1>7 DEF QueueInv, TimeoutArmed, Phases
<1>15. SendQueueExact'
  BY <1>2, <1>3, <1>4, <1>5, <1>6, <1>7, SameQueues DEF QueueInv, Phases, IsQueued
<1>16. IrqPhases'
  BY <1>2, <1>3, <1>4, <1>5, <1>6, <1>7 DEF QueueInv, IrqPhases, Irq, Phases
<1>17. ASSUME SteadyUse, SteadyInv
       PROVE  SteadyInv'
  <2>1. alive' = Threads
    BY <1>2, <1>3, <1>4, <1>5, <1>6, <1>7, <1>17 DEF SteadyInv
  <2>2. NoAssertionFails'
    BY <1>2, <1>3, <1>4, <1>5, <1>6, <1>7, <1>17 DEF SendZeroTimeout, SteadyInv, NoAssertionFails
  <2>3. Places'
    BY <1>2, <1>3, <1>4, <1>5, <1>6, <1>7, <1>17 DEF SteadyInv, Places, Purposes, Irq, QueueInv, Phases
  <2>4. Purposes'
    BY <1>2, <1>3, <1>4, <1>5, <1>6, <1>7, <1>17 DEF SteadyInv, Purposes, Irq
  <2>5. Partners'
    BY <1>2, <1>3, <1>4, <1>5, <1>6, <1>7, <1>17 DEF SteadyInv, Partners, QueueInv, Phases
  <2>6. Registered'
    BY <1>2, <1>3, <1>4, <1>5, <1>6, <1>7, <1>17 DEF SteadyInv, Registered, Told, is_waiting, Places, QueueInv, Phases
  <2>7. Meeting'
    BY <1>2, <1>3, <1>4, <1>5, <1>6, <1>7, <1>17 DEF SteadyInv, Meeting, Asked, is_waiting, QueueInv, Phases, Receivers, Committed
  <2>8. Locked'
    BY <1>2, <1>3, <1>4, <1>5, <1>6, <1>7, <1>17 DEF SteadyInv, Locked, Places, QueueInv, Phases
  <2>9. NoneMissed'
    BY <1>2, <1>3, <1>4, <1>5, <1>6, <1>7, <1>17 DEF SteadyInv, NoneMissed, Asked, Told, is_waiting, Places, QueueInv, Phases
  <2> QED BY <2>1, <2>2, <2>3, <2>4, <2>5, <2>6, <2>7, <2>8, <2>9 DEF SteadyInv
<1> QED BY <1>1, <1>8, <1>9, <1>10, <1>11, <1>12, <1>13, <1>14, <1>15, <1>16, <1>17 DEF QueueInv

\* A sender that has to wait is queued with its receiver, once.
LEMMA SendBlockKeeps ==
  ASSUME PlainUse, QueueInv, NEW t \in Threads, SendBlock(t)
  PROVE  QueueInv' /\ (SteadyUse /\ SteadyInv => SteadyInv')
<1>1. IInv'
  BY NextIInv DEF QueueInv, Next, IpcNext
<1>2. /\ current = t /\ pc[t] = "send" /\ current' = Idle /\ wakeup' = Armed(t, arg[t].snd)
      /\ UNCHANGED <<sstate, spartner, ready, arg, outer, xfer, tstate, alive>>
  BY DEF SendBlock, InKernel
<1>3. t \in alive
  BY <1>2, CurrentAlive
<1>4. arg[t].to \in alive /\ arg[t].to \in Threads \ {t}
  BY DEF SendBlock, Exists, QueueInv, IInv, TypeOK, Untyped, GoodArg
<1>5. \A x \in Threads : /\ pc'[x] = IF x = t THEN "polled" ELSE pc[x]
                         /\ state'[x] = IF x = t THEN "polling" ELSE state[x]
                         /\ partner'[x] = IF x = t THEN arg[t].to ELSE partner[x]
                         /\ sendq'[x] = IF x = arg[t].to THEN Append(sendq[x], t) ELSE sendq[x]
  BY DEF SendBlock, QueueInv, IInv, TypeOK
<1>6. Idle \notin Threads
  BY TcbAssumption
<1>7. Untyped'
  BY <1>2, <1>3, <1>4, <1>5, <1>6 DEF QueueInv, Untyped
<1>8. SavedStates'
  BY <1>2, <1>3, <1>4, <1>5, <1>6 DEF QueueInv, SavedStates, IInv, TypeOK
<1>9. Living'
  BY <1>2, <1>3, <1>4, <1>5, <1>6 DEF QueueInv, Living, Phases
<1>10. Phases'
  BY <1>2, <1>3, <1>4, <1>5, <1>6 DEF QueueInv, Phases
<1>11. Receivers'
  BY <1>2, <1>3, <1>4, <1>5, <1>6 DEF QueueInv, Receivers, Phases, Committed
<1>12. Pending'
  BY <1>2, <1>3, <1>4, <1>5, <1>6 DEF QueueInv, Pending, Phases, Armed
<1>13. TimeoutArmed'
  BY <1>2, <1>3, <1>4, <1>5, <1>6 DEF QueueInv, TimeoutArmed, Phases, Armed
<1>14. SendQueueExact'
  <2>1. \A r \in Threads : t \notin Range(sendq[r])
    BY <1>2 DEF QueueInv, SendQueueExact, Phases, IsQueued
  <2>2. /\ Range(sendq'[arg[t].to]) = Range(sendq[arg[t].to]) \cup {t}
        /\ \A i, j \in DOMAIN sendq'[arg[t].to] :
             sendq'[arg[t].to][i] = sendq'[arg[t].to][j] => i = j
    <3>1. /\ sendq'[arg[t].to] = Append(sendq[arg[t].to], t) /\ sendq[arg[t].to] \in Seq(Threads)
          /\ t \notin Range(sendq[arg[t].to])
          /\ \A i, j \in DOMAIN sendq[arg[t].to] : sendq[arg[t].to][i] = sendq[arg[t].to][j] => i = j
      BY <1>4, <1>5, <2>1 DEF QueueInv, SendQueueExact, IInv, TypeOK
    <3> QED BY <3>1, AppendRange
  <2>3. \A x \in Threads : IsQueued(x)' <=> IsQueued(x) \/ x = t
    BY <1>2, <1>5 DEF QueueInv, Phases, IsQueued
  <2> QED BY <1>2, <1>4, <1>5, <2>1, <2>2, <2>3 DEF QueueInv, SendQueueExact
<1>15. IrqPhases'
  BY <1>2, <1>3, <1>4, <1>5, <1>6 DEF QueueInv, IrqPhases, Irq, Phases
<1>16. ASSUME SteadyUse, SteadyInv
       PROVE  SteadyInv'
  <2>1. t \notin wakeup /\ \A q \in Threads : t \notin Range(sendq[q])
    BY <1>2, <1>3, <1>4, <1>5, <1>6, <1>16 DEF QueueInv, Pending, SendQueueExact, IsQueued, Phases
  <2>2. ~(is_waiting(state[arg[t].to]) /\ Asked(arg[t].to, arg[t].sid, t))
    BY <1>2, <1>3, <1>4, <1>5, <1>6, <1>16, <2>1 DEF SteadyInv, Registered, Told, SendBlock, Accepts, Asked, QueueInv, Phases
  <2>3. alive' = Threads
    BY <1>2, <1>3, <1>4, <1>5, <1>6, <1>16, <2>1, <2>2 DEF SteadyInv
  <2>4. NoAssertionFails'
    BY <1>2, <1>3, <1>4, <1>5, <1>6, <1>16, <2>1, <2>2 DEF SendBlock, SteadyInv, NoAssertionFails
  <2>5. Places'
    BY <1>2, <1>3, <1>4, <1>5, <1>6, <1>16, <2>1, <2>2 DEF SteadyInv, Places, Purposes, Irq, QueueInv, Phases
  <2>6. Purposes'
    BY <1>2, <1>3, <1>4, <1>5, <1>6, <1>16, <2>1, <2>2 DEF SteadyInv, Purposes, Irq
  <2>7. Partners'
    BY <1>2, <1>3, <1>4, <1>5, <1>6, <1>16, <2>1, <2>2 DEF SteadyInv, Partners, Armed, QueueInv, Phases
  <2>8. Registered'
    BY <1>2, <1>3, <1>4, <1>5, <1>6, <1>16, <2>1, <2>2 DEF SteadyInv, Registered, Told, is_waiting, Places, QueueInv, Phases
  <2>9. Meeting'
    BY <1>2, <1>3, <1>4, <1>5, <1>6, <1>16, <2>1, <2>2 DEF SteadyInv, Meeting, Asked, is_waiting, QueueInv, Phases, Receivers, Committed
  <2>10. Locked'
    BY <1>2, <1>3, <1>4, <1>5, <1>6, <1>16, <2>1, <2>2 DEF SteadyInv, Locked, Places, QueueInv, Phases
  <2>11. NoneMissed'
    BY <1>2, <1>3, <1>4, <1>5, <1>6, <1>16, <2>1, <2>2 DEF SteadyInv, NoneMissed, Asked, Told, is_waiting, Places, QueueInv, Phases
  <2> QED BY <2>3, <2>4, <2>5, <2>6, <2>7, <2>8, <2>9, <2>10, <2>11 DEF SteadyInv
<1> QED BY <1>1, <1>7, <1>8, <1>9, <1>10, <1>11, <1>12, <1>13, <1>14, <1>15, <1>16 DEF QueueInv

\* The accepted sender leaves the queue it is in.
LEMMA SendResumeKeeps ==
  ASSUME PlainUse, QueueInv, NEW t \in Threads, SendResume(t)
  PROVE  QueueInv' /\ (SteadyUse /\ SteadyInv => SteadyInv')
<1>1. IInv'
  BY NextIInv DEF QueueInv, Next, IpcNext
<1>2. /\ current = t /\ pc[t] = "polled" /\ wakeup' = wakeup \ {t}
      /\ UNCHANGED <<current, state, partner, sstate, spartner, ready, arg, outer, xfer, tstate, alive>>
  BY DEF SendResume, InKernel, Cancelled
<1>3. t \in alive
  BY <1>2, CurrentAlive
<1>4. arg[t].to \in Threads
  BY <1>2 DEF QueueInv, IInv, ArgOK
<1>5. \A x \in Threads : /\ pc'[x] = IF x = t THEN "xfer" ELSE pc[x]
                         /\ sendq'[x] = IF x = arg[t].to THEN Without(sendq[x], t) ELSE sendq[x]
  BY DEF SendResume, QueueInv, IInv, TypeOK
<1>6. arg[t].to \in alive
  BY <1>2, <1>3 DEF QueueInv, Receivers, Committed, Phases, Living
<1>7. Untyped'
  BY <1>2, <1>3, <1>4, <1>5, <1>6 DEF QueueInv, Untyped
<1>8. SavedStates'
  BY <1>2, <1>3, <1>4, <1>5, <1>6 DEF QueueInv, SavedStates, IInv, TypeOK
<1>9. Living'
  BY <1>2, <1>3, <1>4, <1>5, <1>6 DEF QueueInv, Living, Phases
<1>10. Phases'
  BY <1>2, <1>3, <1>4, <1>5, <1>6 DEF QueueInv, Phases
<1>11. Receivers'
  BY <1>2, <1>3, <1>4, <1>5, <1>6 DEF QueueInv, Receivers, Phases, Committed
<1>12. Pending'
  BY <1>2, <1>3, <1>4, <1>5, <1>6 DEF QueueInv, Pending, Phases
<1>13. TimeoutArmed'
  BY <1>2, <1>3, <1>4, <1>5, <1>6 DEF QueueInv, TimeoutArmed, Phases
<1>14. SendQueueExact'
  <2>1. /\ Range(sendq'[arg[t].to]) = Range(sendq[arg[t].to]) \ {t}
        /\ \A i, j \in DOMAIN sendq'[arg[t].to] :
             sendq'[arg[t].to][i] = sendq'[arg[t].to][j] => i = j
    <3>1. /\ sendq'[arg[t].to] = Without(sendq[arg[t].to], t) /\ sendq[arg[t].to] \in Seq(Threads)
          /\ \A i, j \in DOMAIN sendq[arg[t].to] : sendq[arg[t].to][i] = sendq[arg[t].to][j] => i = j
      BY <1>4, <1>5 DEF QueueInv, SendQueueExact, IInv, TypeOK
    <3> QED BY <3>1, WithoutRange
  <2>2. \A x \in Threads : IsQueued(x)' <=> IsQueued(x) /\ x # t
    BY <1>2, <1>5 DEF QueueInv, Phases, IsQueued
  <2>3. IsQueued(t) => partner[t] = arg[t].to
    BY <1>2 DEF QueueInv, Phases, IsQueued
  <2> QED BY <1>2, <1>4, <1>5, <2>1, <2>2, <2>3 DEF QueueInv, SendQueueExact
<1>15. IrqPhases'
  BY <1>2, <1>3, <1>4, <1>5, <1>6 DEF QueueInv, IrqPhases, Irq, Phases
<1>16. ASSUME SteadyUse, SteadyInv
       PROVE  SteadyInv'
  <2>1. t \in Range(sendq[arg[t].to]) /\ state[t] = "locked_running"
    BY <1>2, <1>3, <1>4, <1>5, <1>6, <1>16 DEF QueueInv, SendQueueExact, IsQueued, Phases
  <2>2. state[arg[t].to] = "locked_waiting"
    BY <1>2, <1>3, <1>4, <1>5, <1>6, <1>16, <2>1 DEF QueueInv, Receivers, Committed
  <2>3. alive' = Threads
    BY <1>2, <1>3, <1>4, <1>5, <1>6, <1>16, <2>1, <2>2 DEF SteadyInv
  <2>4. NoAssertionFails'
    BY <1>2, <1>3, <1>4, <1>5, <1>6, <1>16, <2>1, <2>2 DEF SendResume, SteadyInv, NoAssertionFails
  <2>5. Places'
    BY <1>2, <1>3, <1>4, <1>5, <1>6, <1>16, <2>1, <2>2 DEF SteadyInv, Places, Purposes, Irq, QueueInv, Phases
  <2>6. Purposes'
    BY <1>2, <1>3, <1>4, <1>5, <1>6, <1>16, <2>1, <2>2 DEF SteadyInv, Purposes, Irq
  <2>7. Partners'
    BY <1>2, <1>3, <1>4, <1>5, <1>6, <1>16, <2>1, <2>2 DEF SteadyInv, Partners, QueueInv, Phases
  <2>8. Registered'
    BY <1>2, <1>3, <1>4, <1>5, <1>6, <1>16, <2>1, <2>2 DEF SteadyInv, Registered, Told, is_waiting, Places, QueueInv, Phases
  <2>9. Meeting'
    BY <1>2, <1>3, <1>4, <1>5, <1>6, <1>16, <2>1, <2>2 DEF SteadyInv, Meeting, Asked, is_waiting, QueueInv, Phases, Receivers, Committed
  <2>10. Locked'
    BY <1>2, <1>3, <1>4, <1>5, <1>6, <1>16, <2>1, <2>2 DEF SteadyInv, Locked, Places, QueueInv, Phases
  <2>11. NoneMissed'
    BY <1>2, <1>3, <1>4, <1>5, <1>6, <1>16, <2>1, <2>2 DEF SteadyInv, NoneMissed, Asked, Told, is_waiting, Places, QueueInv, Phases
  <2> QED BY <2>3, <2>4, <2>5, <2>6, <2>7, <2>8, <2>9, <2>10, <2>11 DEF SteadyInv
<1> QED BY <1>1, <1>7, <1>8, <1>9, <1>10, <1>11, <1>12, <1>13, <1>14, <1>15, <1>16 DEF QueueInv

\* The receiver of a message is queued nowhere: its partner may change.
LEMMA TransferKeeps ==
  ASSUME PlainUse, QueueInv, NEW t \in Threads, Transfer(t)
  PROVE  QueueInv' /\ (SteadyUse /\ SteadyInv => SteadyInv')
<1>1. IInv'
  BY NextIInv DEF QueueInv, Next, IpcNext
<1>2. /\ current = t /\ pc[t] = "xfer"
      /\ UNCHANGED <<current, state, sstate, spartner, ready, wakeup, sendq,
                     arg, outer, xfer, tstate, alive>>
  BY DEF Transfer, InKernel
<1>3. t \in alive
  BY <1>2, CurrentAlive
<1>4. /\ arg[t].to \in Threads /\ is_receiving(state[arg[t].to])
      /\ \A u \in Threads : Committed(u) /\ arg[u].to = arg[t].to => u = t
  BY <1>2 DEF QueueInv, Receivers, Committed
<1>5. \A x \in Threads : /\ pc'[x] = IF x = t THEN (IF arg[t].from = Nil THEN "snddone" ELSE "recv") ELSE pc[x]
                         /\ partner'[x] = IF x = arg[t].to THEN arg[t].sid ELSE partner[x]
  BY <1>4 DEF Transfer, AfterSend, QueueInv, IInv, TypeOK
<1>6. Untyped'
  BY <1>2, <1>3, <1>4, <1>5 DEF QueueInv, Untyped
<1>7. SavedStates'
  BY <1>2, <1>3, <1>4, <1>5 DEF QueueInv, SavedStates, IInv, TypeOK
<1>8. Living'
  BY <1>2, <1>3, <1>4, <1>5 DEF QueueInv, Living, Phases
<1>9. Phases'
  BY <1>2, <1>3, <1>4, <1>5 DEF QueueInv, Phases, is_receiving
<1>10. Receivers'
  BY <1>2, <1>3, <1>4, <1>5 DEF QueueInv, Receivers, Phases, Committed
<1>11. Pending'
  BY <1>2, <1>3, <1>4, <1>5 DEF QueueInv, Pending, Phases
<1>12. TimeoutArmed'
  BY <1>2, <1>3, <1>4, <1>5 DEF QueueInv, TimeoutArmed, Phases
<1>13. SendQueueExact'
  BY <1>2, <1>3, <1>4, <1>5, SameQueues DEF QueueInv, Phases, IsQueued, is_receiving
<1>14. IrqPhases'
  BY <1>2, <1>3, <1>4, <1>5 DEF QueueInv, IrqPhases, Irq, Phases
<1>15. ASSUME SteadyUse, SteadyInv
       PROVE  SteadyInv'
  <2>1. Nil \notin Threads
    BY TcbAssumption
  <2>2. alive' = Threads
    BY <1>2, <1>3, <1>4, <1>5, <1>15, <2>1 DEF SteadyInv
  <2>3. NoAssertionFails'
    BY <1>2, <1>3, <1>4, <1>5, <1>15, <2>1 DEF Transfer, SteadyInv, NoAssertionFails
  <2>4. Places'
    BY <1>2, <1>3, <1>4, <1>5, <1>15, <2>1 DEF SteadyInv, Places, Purposes, Irq, QueueInv, Phases
  <2>5. Purposes'
    BY <1>2, <1>3, <1>4, <1>5, <1>15, <2>1 DEF SteadyInv, Purposes, Irq
  <2>6. Partners'
    BY <1>2, <1>3, <1>4, <1>5, <1>15, <2>1 DEF SteadyInv, Partners, QueueInv, Phases, is_receiving
  <2>7. Registered'
    BY <1>2, <1>3, <1>4, <1>5, <1>15, <2>1 DEF SteadyInv, Registered, Told, is_waiting, Places, QueueInv, Phases
  <2>8. Meeting'
    BY <1>2, <1>3, <1>4, <1>5, <1>15, <2>1 DEF SteadyInv, Meeting, Asked, is_waiting, QueueInv, Phases, Receivers, Committed
  <2>9. Locked'
    BY <1>2, <1>3, <1>4, <1>5, <1>15, <2>1 DEF SteadyInv, Locked, Places, QueueInv, Phases
  <2>10. NoneMissed'
    BY <1>2, <1>3, <1>4, <1>5, <1>15, <2>1 DEF SteadyInv, NoneMissed, Asked, Told, is_waiting, Places, QueueInv, Phases, is_receiving
  <2> QED BY <2>2, <2>3, <2>4, <2>5, <2>6, <2>7, <2>8, <2>9, <2>10 DEF SteadyInv
<1> QED BY <1>1, <1>6, <1>7, <1>8, <1>9, <1>10, <1>11, <1>12, <1>13, <1>14, <1>15 DEF QueueInv

\* A receiver with its message runs, or is ready without a timeout.
LEMMA SendDoneKeeps ==
  ASSUME PlainUse, QueueInv, NEW t \in Threads, SendDone(t)
  PROVE  QueueInv' /\ (SteadyUse /\ SteadyInv => SteadyInv')
<1>1. IInv'
  BY NextIInv DEF QueueInv, Next, IpcNext
<1>2. /\ current = t /\ pc[t] = "snddone"
      /\ \/ current' = arg[t].to /\ ready' = ready \cup {t} /\ UNCHANGED wakeup
         \/ ready' = ready \cup {arg[t].to} /\ wakeup' = wakeup \ {arg[t].to} /\ UNCHANGED current
      /\ UNCHANGED <<sendq, xfer, tstate, alive>>
  BY DEF SendDone, InKernel, Enqueued, Cancelled
<1>3. t \in alive
  BY <1>2, CurrentAlive
<1>4. /\ arg[t].to \in Threads /\ is_receiving(state[arg[t].to]) /\ arg[t].to # t
      /\ \A u \in Threads : Committed(u) /\ arg[u].to = arg[t].to => u = t
  BY <1>2 DEF QueueInv, Receivers, Committed
<1>5. arg[t].to \in alive
  BY <1>4 DEF QueueInv, Living, is_receiving
<1>6. DoneState(arg[t].to) = "running"
  BY <1>4 DEF QueueInv, Untyped, DoneState
<1>7. PICK st \in [Threads -> ThreadStates] :
        /\ Return(t, st, partner)
        /\ \A x \in Threads : st[x] = IF x \in {t, arg[t].to} THEN "running" ELSE state[x]
  <2> DEFINE st == [state EXCEPT ![arg[t].to] = DoneState(arg[t].to), ![t] = "running"]
  <2>1. "running" \in ThreadStates /\ state \in [Threads -> ThreadStates]
    BY Values DEF QueueInv, IInv, TypeOK
  <2>2. st \in [Threads -> ThreadStates]
    BY <1>4, <1>6, <2>1
  <2>3. \A x \in Threads : st[x] = IF x \in {t, arg[t].to} THEN "running" ELSE state[x]
    BY <1>4, <1>6, <2>1
  <2>4. Return(t, st, partner)
    BY DEF SendDone
  <2> QED BY <2>2, <2>3, <2>4
<1>8. /\ pc' = [pc EXCEPT ![t] = "user"] /\ arg' = [arg EXCEPT ![t] = NoArg]
      /\ \A x \in Threads : outer'[x] = outer[x] /\ spartner'[x] = spartner[x]
      /\ \A x \in Threads : state'[x] = IF x = t /\ arg[t].kind = "pf" THEN sstate[t] ELSE st[x]
      /\ \A x \in Threads \ {t} : partner'[x] = partner[x]
      /\ sstate' = IF arg[t].kind = "pf" THEN [sstate EXCEPT ![t] = "aborted"] ELSE sstate
  BY <1>7, ReturnEffect DEF QueueInv, IInv, TypeOK
<1>9. \A x \in Threads : /\ pc'[x] = IF x = t THEN "user" ELSE pc[x]
                         /\ arg'[x] = IF x = t THEN NoArg ELSE arg[x]
                         /\ sstate'[x] = IF x = t /\ arg[t].kind = "pf" THEN "aborted" ELSE sstate[x]
  BY <1>8 DEF QueueInv, IInv, TypeOK
<1>10. GoodArg(t, NoArg) /\ NoArg.kind = "none" /\ NoArg.to = Nil /\ NoArg.snd = "never"
  BY KernelArgs
<1>11. Untyped'
  BY <1>2, <1>3, <1>4, <1>5, <1>6, <1>7, <1>8, <1>9, <1>10 DEF QueueInv, Untyped
<1>12. SavedStates'
  BY <1>2, <1>3, <1>4, <1>5, <1>6, <1>7, <1>8, <1>9, <1>10 DEF QueueInv, SavedStates, IInv, TypeOK
<1>13. Living'
  BY <1>2, <1>3, <1>4, <1>5, <1>6, <1>7, <1>8, <1>9, <1>10 DEF QueueInv, Living, Phases
<1>14. Phases'
  BY <1>2, <1>3, <1>4, <1>5, <1>6, <1>7, <1>8, <1>9, <1>10 DEF QueueInv, Phases, is_receiving
<1>15. Receivers'
  BY <1>2, <1>3, <1>4, <1>5, <1>6, <1>7, <1>8, <1>9, <1>10 DEF QueueInv, Receivers, Phases, Committed, is_receiving
<1>16. Pending'
  BY <1>2, <1>3, <1>4, <1>5, <1>6, <1>7, <1>8, <1>9, <1>10 DEF QueueInv, Pending, Phases, is_receiving
<1>17. TimeoutArmed'
  BY <1>2, <1>3, <1>4, <1>5, <1>6, <1>7, <1>8, <1>9, <1>10 DEF QueueInv, TimeoutArmed, Phases
<1>18. SendQueueExact'
  BY <1>2, <1>3, <1>4, <1>5, <1>6, <1>7, <1>8, <1>9, <1>10, SameQueues DEF QueueInv, Phases, IsQueued, is_receiving
<1>19. IrqPhases'
  BY <1>2, <1>3, <1>4, <1>5, <1>6, <1>7, <1>8, <1>9, <1>10 DEF QueueInv, IrqPhases, Irq, Phases
<1>20. ASSUME SteadyUse, SteadyInv
       PROVE  SteadyInv'
  <2>1. state'[t] = "running" /\ state'[arg[t].to] = "running"
    BY <1>2, <1>3, <1>4, <1>5, <1>6, <1>7, <1>8, <1>9, <1>10, <1>20 DEF SteadyInv, Purposes, Irq
  <2>2. alive' = Threads
    BY <1>2, <1>3, <1>4, <1>5, <1>6, <1>7, <1>8, <1>9, <1>10, <1>20, <2>1 DEF SteadyInv
  <2>3. NoAssertionFails'
    BY <1>2, <1>3, <1>4, <1>5, <1>6, <1>7, <1>8, <1>9, <1>10, <1>20, <2>1 DEF SendDone, SteadyInv, NoAssertionFails
  <2>4. Places'
    BY <1>2, <1>3, <1>4, <1>5, <1>6, <1>7, <1>8, <1>9, <1>10, <1>20, <2>1 DEF SteadyInv, Places, Purposes, Irq, QueueInv, Phases
  <2>5. Purposes'
    BY <1>2, <1>3, <1>4, <1>5, <1>6, <1>7, <1>8, <1>9, <1>10, <1>20, <2>1 DEF SteadyInv, Purposes, Irq
  <2>6. Partners'
    BY <1>2, <1>3, <1>4, <1>5, <1>6, <1>7, <1>8, <1>9, <1>10, <1>20, <2>1 DEF SteadyInv, Partners, QueueInv, Phases
  <2>7. Registered'
    BY <1>2, <1>3, <1>4, <1>5, <1>6, <1>7, <1>8, <1>9, <1>10, <1>20, <2>1 DEF SteadyInv, Registered, Told, is_waiting, Places, QueueInv, Phases, is_receiving
  <2>8. Meeting'
    BY <1>2, <1>3, <1>4, <1>5, <1>6, <1>7, <1>8, <1>9, <1>10, <1>20, <2>1 DEF SteadyInv, Meeting, Asked, is_waiting, QueueInv, Phases, Receivers, Committed
  <2>9. Locked'
    BY <1>2, <1>3, <1>4, <1>5, <1>6, <1>7, <1>8, <1>9, <1>10, <1>20, <2>1 DEF SteadyInv, Locked, Places, QueueInv, Phases, is_receiving
  <2>10. NoneMissed'
    BY <1>2, <1>3, <1>4, <1>5, <1>6, <1>7, <1>8, <1>9, <1>10, <1>20, <2>1 DEF SteadyInv, NoneMissed, Asked, Told, is_waiting, Places, QueueInv, Phases, is_receiving
  <2> QED BY <2>2, <2>3, <2>4, <2>5, <2>6, <2>7, <2>8, <2>9, <2>10 DEF SteadyInv
<1> QED BY <1>1, <1>11, <1>12, <1>13, <1>14, <1>15, <1>16, <1>17, <1>18, <1>19, <1>20 DEF QueueInv

\* Without strings there is no copy.
LEMMA NoCopy ==
  ASSUME QueueInv, NEW t \in Threads,
         \/ ExtendedTransfer(t) \/ CopyDone(t) \/ CopyOverflow(t) \/ CopyFault(t) \/ CopyZeroTimeout(t)
  PROVE  FALSE
<1>1. pc[t] # "copy" /\ arg[t].typed = FALSE
  BY DEF QueueInv, Untyped, GoodArg
<1> QED BY <1>1 DEF ExtendedTransfer, CopyDone, CopyOverflow, CopyFault, CopyZeroTimeout, InKernel

\* The call waits for the thread it switches to, which nobody else has.
LEMMA RecvSpecialKeeps ==
  ASSUME PlainUse, QueueInv, NEW t \in Threads, RecvSpecial(t)
  PROVE  QueueInv' /\ (SteadyUse /\ SteadyInv => SteadyInv')
<1>1. IInv'
  BY NextIInv DEF QueueInv, Next, IpcNext
<1>2. /\ current = t /\ pc[t] = "recv" /\ current' = arg[t].to /\ arg[t].to # Nil
      /\ UNCHANGED <<sstate, spartner, ready, wakeup, sendq, outer, xfer, tstate, alive>>
  BY DEF RecvSpecial, InKernel, IsSpecial, HasSent
<1>3. t \in alive
  BY <1>2, CurrentAlive
<1>4. /\ arg[t].to \in Threads \ {t} /\ is_receiving(state[arg[t].to])
      /\ \A u \in Threads : Committed(u) /\ arg[u].to = arg[t].to => u = t
  BY <1>2 DEF QueueInv, Receivers, Committed
<1>5. \A x \in Threads : /\ pc'[x] = IF x = t THEN "special" ELSE pc[x]
                         /\ state'[x] = IF x = t THEN "waiting_forever" ELSE state[x]
                         /\ partner'[x] = IF x = t THEN arg[t].from ELSE partner[x]
  BY DEF RecvSpecial, QueueInv, IInv, TypeOK
<1>6. PICK w : /\ GoodArg(t, w) /\ w.kind = arg[t].kind /\ w.from = arg[t].from /\ w.snd = "never"
               /\ \A x \in Threads : arg'[x] = IF x = t THEN w ELSE arg[x]
  <2> DEFINE v == [NoArg EXCEPT !.kind = arg[t].kind, !.from = arg[t].from]
  <2>1. arg' = [arg EXCEPT ![t] = v]
    BY DEF RecvSpecial, Waiting
  <2>2. GoodArg(t, v) /\ v.kind = arg[t].kind /\ v.from = arg[t].from /\ v.snd = "never"
    BY TcbAssumption DEF GoodArg, NoArg, IsSpecial, HasSent
  <2> HIDE DEF v
  <2> QED BY <2>1, <2>2 DEF QueueInv, IInv, TypeOK
<1>7. arg[t].from = arg[t].to /\ {AnyThread, AnyLocal} \cap Threads = {}
  BY TcbAssumption DEF RecvSpecial, IsSpecial
<1>8. Untyped'
  BY <1>2, <1>3, <1>4, <1>5, <1>6, <1>7 DEF QueueInv, Untyped
<1>9. SavedStates'
  BY <1>2, <1>3, <1>4, <1>5, <1>6, <1>7 DEF QueueInv, SavedStates, IInv, TypeOK
<1>10. Living'
  BY <1>2, <1>3, <1>4, <1>5, <1>6, <1>7 DEF QueueInv, Living, Phases, is_receiving
<1>11. Phases'
  BY <1>2, <1>3, <1>4, <1>5, <1>6, <1>7 DEF QueueInv, Phases, is_receiving
<1>12. Receivers'
  BY <1>2, <1>3, <1>4, <1>5, <1>6, <1>7 DEF QueueInv, Receivers, Phases, Committed, is_receiving
<1>13. Pending'
  BY <1>2, <1>3, <1>4, <1>5, <1>6, <1>7 DEF QueueInv, Pending, Phases, is_receiving
<1>14. TimeoutArmed'
  BY <1>2, <1>3, <1>4, <1>5, <1>6, <1>7 DEF QueueInv, TimeoutArmed, Phases, is_receiving
<1>15. SendQueueExact'
  BY <1>2, <1>3, <1>4, <1>5, <1>6, <1>7, SameQueues DEF QueueInv, Phases, IsQueued, is_receiving
<1>16. IrqPhases'
  BY <1>2, <1>3, <1>4, <1>5, <1>6, <1>7 DEF QueueInv, IrqPhases, Irq, Phases, is_receiving
<1>17. ASSUME SteadyUse, SteadyInv
       PROVE  SteadyInv'
  <2>1. alive' = Threads
    BY <1>2, <1>3, <1>4, <1>5, <1>6, <1>7, <1>17 DEF SteadyInv
  <2>2. NoAssertionFails'
    BY <1>2, <1>3, <1>4, <1>5, <1>6, <1>7, <1>17 DEF RecvSpecial, SteadyInv, NoAssertionFails
  <2>3. Places'
    BY <1>2, <1>3, <1>4, <1>5, <1>6, <1>7, <1>17 DEF SteadyInv, Places, Purposes, Irq, QueueInv, Phases, is_receiving
  <2>4. Purposes'
    BY <1>2, <1>3, <1>4, <1>5, <1>6, <1>7, <1>17 DEF SteadyInv, Purposes, Irq
  <2>5. Partners'
    BY <1>2, <1>3, <1>4, <1>5, <1>6, <1>7, <1>17 DEF SteadyInv, Partners, is_receiving, QueueInv, Phases
  <2>6. Registered'
    BY <1>2, <1>3, <1>4, <1>5, <1>6, <1>7, <1>17 DEF SteadyInv, Registered, Told, is_waiting, Places, QueueInv, Phases, is_receiving
  <2>7. Meeting'
    BY <1>2, <1>3, <1>4, <1>5, <1>6, <1>7, <1>17 DEF SteadyInv, Meeting, Asked, is_waiting, QueueInv, Phases, Receivers, Committed, is_receiving
  <2>8. Locked'
    BY <1>2, <1>3, <1>4, <1>5, <1>6, <1>7, <1>17 DEF SteadyInv, Locked, Places, QueueInv, Phases, is_receiving
  <2>9. NoneMissed'
    BY <1>2, <1>3, <1>4, <1>5, <1>6, <1>7, <1>17 DEF SteadyInv, NoneMissed, Asked, Told, is_waiting, Places, QueueInv, Phases, is_receiving
  <2> QED BY <2>1, <2>2, <2>3, <2>4, <2>5, <2>6, <2>7, <2>8, <2>9 DEF SteadyInv
<1> QED BY <1>1, <1>8, <1>9, <1>10, <1>11, <1>12, <1>13, <1>14, <1>15, <1>16, <1>17 DEF QueueInv

\* Waiting for a thread that does not exist returns.
LEMMA RecvNonExistingKeeps ==
  ASSUME PlainUse, QueueInv, NEW t \in Threads, RecvNonExisting(t)
  PROVE  QueueInv' /\ (SteadyUse /\ SteadyInv => SteadyInv')
<1>1. IInv'
  BY NextIInv DEF QueueInv, Next, IpcNext
<1>2. /\ current = t /\ pc[t] = "recv" /\ Return(t, state, partner)
      /\ UNCHANGED <<current, ready, wakeup, sendq, xfer, tstate, alive>>
  BY DEF RecvNonExisting, InKernel
<1>3. t \in alive
  BY <1>2, CurrentAlive
<1>4. /\ pc' = [pc EXCEPT ![t] = "user"] /\ arg' = [arg EXCEPT ![t] = NoArg]
      /\ \A x \in Threads : outer'[x] = outer[x] /\ spartner'[x] = spartner[x]
      /\ \A x \in Threads : state'[x] = IF x = t /\ arg[t].kind = "pf" THEN sstate[t] ELSE state[x]
      /\ \A x \in Threads \ {t} : partner'[x] = partner[x]
      /\ sstate' = IF arg[t].kind = "pf" THEN [sstate EXCEPT ![t] = "aborted"] ELSE sstate
  BY <1>2, ReturnEffect DEF QueueInv, IInv, TypeOK
<1>5. \A x \in Threads : /\ pc'[x] = IF x = t THEN "user" ELSE pc[x]
                         /\ arg'[x] = IF x = t THEN NoArg ELSE arg[x]
                         /\ sstate'[x] = IF x = t /\ arg[t].kind = "pf" THEN "aborted" ELSE sstate[x]
  BY <1>4 DEF QueueInv, IInv, TypeOK
<1>6. GoodArg(t, NoArg) /\ NoArg.kind = "none" /\ NoArg.to = Nil /\ NoArg.snd = "never"
  BY KernelArgs
<1>7. Untyped'
  BY <1>2, <1>3, <1>4, <1>5, <1>6 DEF QueueInv, Untyped
<1>8. SavedStates'
  BY <1>2, <1>3, <1>4, <1>5, <1>6 DEF QueueInv, SavedStates, IInv, TypeOK
<1>9. Living'
  BY <1>2, <1>3, <1>4, <1>5, <1>6 DEF QueueInv, Living, Phases
<1>10. Phases'
  BY <1>2, <1>3, <1>4, <1>5, <1>6 DEF QueueInv, Phases
<1>11. Receivers'
  BY <1>2, <1>3, <1>4, <1>5, <1>6 DEF QueueInv, Receivers, Phases, Committed
<1>12. Pending'
  BY <1>2, <1>3, <1>4, <1>5, <1>6 DEF QueueInv, Pending, Phases
<1>13. TimeoutArmed'
  BY <1>2, <1>3, <1>4, <1>5, <1>6 DEF QueueInv, TimeoutArmed, Phases
<1>14. SendQueueExact'
  BY <1>2, <1>3, <1>4, <1>5, <1>6, SameQueues DEF QueueInv, Phases, IsQueued
<1>15. IrqPhases'
  BY <1>2, <1>3, <1>4, <1>5, <1>6 DEF QueueInv, IrqPhases, Irq, Phases
<1>16. ASSUME SteadyUse, SteadyInv
       PROVE  SteadyInv'
  <2>1. arg[t].to = Nil /\ Nil \notin Threads
    <3>1. arg[t].from \in ids /\ arg[t].from \notin {AnyThread, AnyLocal, Nil} /\ arg[t].from \notin Threads
      BY <1>2, <1>3, <1>4, <1>5, <1>6, <1>16 DEF RecvNonExisting, RecvExists, Exists, SteadyInv, Partners, QueueInv, IInv, TypeOK, Args
    <3> QED BY <1>2, <1>3, <1>4, <1>5, <1>6, <1>16, <3>1, TcbAssumption DEF ids, SteadyInv, Partners
  <2>2. state'[t] = "running"
    BY <1>2, <1>3, <1>4, <1>5, <1>6, <1>16, <2>1 DEF SteadyInv, Places, Purposes, Irq
  <2>3. alive' = Threads
    BY <1>2, <1>3, <1>4, <1>5, <1>6, <1>16, <2>1, <2>2 DEF SteadyInv
  <2>4. NoAssertionFails'
    BY <1>2, <1>3, <1>4, <1>5, <1>6, <1>16, <2>1, <2>2 DEF RecvNonExisting, SteadyInv, NoAssertionFails
  <2>5. Places'
    BY <1>2, <1>3, <1>4, <1>5, <1>6, <1>16, <2>1, <2>2 DEF SteadyInv, Places, Purposes, Irq, QueueInv, Phases
  <2>6. Purposes'
    BY <1>2, <1>3, <1>4, <1>5, <1>6, <1>16, <2>1, <2>2 DEF SteadyInv, Purposes, Irq
  <2>7. Partners'
    BY <1>2, <1>3, <1>4, <1>5, <1>6, <1>16, <2>1, <2>2 DEF SteadyInv, Partners, QueueInv, Phases
  <2>8. Registered'
    BY <1>2, <1>3, <1>4, <1>5, <1>6, <1>16, <2>1, <2>2 DEF SteadyInv, Registered, Told, is_waiting, Places, QueueInv, Phases
  <2>9. Meeting'
    BY <1>2, <1>3, <1>4, <1>5, <1>6, <1>16, <2>1, <2>2 DEF SteadyInv, Meeting, Asked, is_waiting, QueueInv, Phases, Receivers, Committed
  <2>10. Locked'
    BY <1>2, <1>3, <1>4, <1>5, <1>6, <1>16, <2>1, <2>2 DEF SteadyInv, Locked, Places, QueueInv, Phases
  <2>11. NoneMissed'
    BY <1>2, <1>3, <1>4, <1>5, <1>6, <1>16, <2>1, <2>2 DEF SteadyInv, NoneMissed, Asked, Told, is_waiting, Places, QueueInv, Phases
  <2> QED BY <2>3, <2>4, <2>5, <2>6, <2>7, <2>8, <2>9, <2>10, <2>11 DEF SteadyInv
<1> QED BY <1>1, <1>7, <1>8, <1>9, <1>10, <1>11, <1>12, <1>13, <1>14, <1>15, <1>16 DEF QueueInv

\* A zero timeout returns, and runs the receiver of the message, if any.
LEMMA RecvZeroTimeoutKeeps ==
  ASSUME PlainUse, QueueInv, NEW t \in Threads, RecvZeroTimeout(t)
  PROVE  QueueInv' /\ (SteadyUse /\ SteadyInv => SteadyInv')
<1>1. IInv'
  BY NextIInv DEF QueueInv, Next, IpcNext
<1>2. /\ current = t /\ pc[t] = "recv" /\ Return(t, Running(t), partner)
      /\ \/ arg[t].to # Nil /\ current' = arg[t].to /\ ready' = ready \cup {t}
         \/ UNCHANGED <<current, ready>>
      /\ UNCHANGED <<wakeup, sendq, xfer, tstate, alive>>
  BY DEF RecvZeroTimeout, InKernel, HasSent, Enqueued
<1>3. t \in alive
  BY <1>2, CurrentAlive
<1>4. /\ Running(t) \in [Threads -> ThreadStates]
      /\ \A x \in Threads : Running(t)[x] = IF x = t THEN "running" ELSE state[x]
  BY Values DEF Running, QueueInv, IInv, TypeOK
<1>5. /\ pc' = [pc EXCEPT ![t] = "user"] /\ arg' = [arg EXCEPT ![t] = NoArg]
      /\ \A x \in Threads : outer'[x] = outer[x] /\ spartner'[x] = spartner[x]
      /\ \A x \in Threads : state'[x] = IF x = t /\ arg[t].kind = "pf" THEN sstate[t] ELSE Running(t)[x]
      /\ \A x \in Threads \ {t} : partner'[x] = partner[x]
      /\ sstate' = IF arg[t].kind = "pf" THEN [sstate EXCEPT ![t] = "aborted"] ELSE sstate
  BY <1>2, <1>4, ReturnEffect DEF QueueInv, IInv, TypeOK
<1>6. \A x \in Threads : /\ pc'[x] = IF x = t THEN "user" ELSE pc[x]
                         /\ arg'[x] = IF x = t THEN NoArg ELSE arg[x]
                         /\ sstate'[x] = IF x = t /\ arg[t].kind = "pf" THEN "aborted" ELSE sstate[x]
  BY <1>5 DEF QueueInv, IInv, TypeOK
<1>7. GoodArg(t, NoArg) /\ NoArg.kind = "none" /\ NoArg.to = Nil /\ NoArg.snd = "never"
  BY KernelArgs
<1>8. arg[t].to # Nil =>
         /\ arg[t].to \in Threads \ {t} /\ is_receiving(state[arg[t].to])
         /\ \A u \in Threads : Committed(u) /\ arg[u].to = arg[t].to => u = t
  BY <1>2 DEF QueueInv, Receivers, Committed
<1>9. Untyped'
  BY <1>2, <1>3, <1>4, <1>5, <1>6, <1>7, <1>8 DEF QueueInv, Untyped
<1>10. SavedStates'
  BY <1>2, <1>3, <1>4, <1>5, <1>6, <1>7, <1>8 DEF QueueInv, SavedStates, IInv, TypeOK
<1>11. Living'
  BY <1>2, <1>3, <1>4, <1>5, <1>6, <1>7, <1>8 DEF QueueInv, Living, Phases, is_receiving
<1>12. Phases'
  BY <1>2, <1>3, <1>4, <1>5, <1>6, <1>7, <1>8 DEF QueueInv, Phases, is_receiving
<1>13. Receivers'
  BY <1>2, <1>3, <1>4, <1>5, <1>6, <1>7, <1>8 DEF QueueInv, Receivers, Phases, Committed, is_receiving
<1>14. Pending'
  BY <1>2, <1>3, <1>4, <1>5, <1>6, <1>7, <1>8 DEF QueueInv, Pending, Phases, is_receiving
<1>15. TimeoutArmed'
  BY <1>2, <1>3, <1>4, <1>5, <1>6, <1>7, <1>8 DEF QueueInv, TimeoutArmed, Phases, is_receiving
<1>16. SendQueueExact'
  BY <1>2, <1>3, <1>4, <1>5, <1>6, <1>7, <1>8, SameQueues DEF QueueInv, Phases, IsQueued, is_receiving
<1>17. IrqPhases'
  BY <1>2, <1>3, <1>4, <1>5, <1>6, <1>7, <1>8 DEF QueueInv, IrqPhases, Irq, Phases, Receivers, Committed, is_receiving
<1>18. ASSUME SteadyUse, SteadyInv
       PROVE  SteadyInv'
  <2>1. state'[t] = "running" /\ (arg[t].to # Nil => current' = arg[t].to) /\ Nil \notin Threads
    BY <1>2, <1>3, <1>4, <1>5, <1>6, <1>7, <1>8, <1>18, TcbAssumption DEF SteadyInv, Purposes, Irq, RecvZeroTimeout, HasSent
  <2>2. alive' = Threads
    BY <1>2, <1>3, <1>4, <1>5, <1>6, <1>7, <1>8, <1>18, <2>1 DEF SteadyInv
  <2>3. NoAssertionFails'
    BY <1>2, <1>3, <1>4, <1>5, <1>6, <1>7, <1>8, <1>18, <2>1 DEF RecvZeroTimeout, SteadyInv, NoAssertionFails
  <2>4. Places'
    BY <1>2, <1>3, <1>4, <1>5, <1>6, <1>7, <1>8, <1>18, <2>1 DEF SteadyInv, Places, Purposes, Irq, QueueInv, Phases, is_receiving
  <2>5. Purposes'
    BY <1>2, <1>3, <1>4, <1>5, <1>6, <1>7, <1>8, <1>18, <2>1 DEF SteadyInv, Purposes, Irq
  <2>6. Partners'
    BY <1>2, <1>3, <1>4, <1>5, <1>6, <1>7, <1>8, <1>18, <2>1 DEF SteadyInv, Partners, is_receiving, QueueInv, Phases
  <2>7. Registered'
    BY <1>2, <1>3, <1>4, <1>5, <1>6, <1>7, <1>8, <1>18, <2>1 DEF SteadyInv, Registered, Told, is_waiting, Places, QueueInv, Phases, is_receiving
  <2>8. Meeting'
    BY <1>2, <1>3, <1>4, <1>5, <1>6, <1>7, <1>8, <1>18, <2>1 DEF SteadyInv, Meeting, Asked, is_waiting, QueueInv, Phases, Receivers, Committed, is_receiving
  <2>9. Locked'
    BY <1>2, <1>3, <1>4, <1>5, <1>6, <1>7, <1>8, <1>18, <2>1 DEF SteadyInv, Locked, Places, QueueInv, Phases, is_receiving
  <2>10. NoneMissed'
    BY <1>2, <1>3, <1>4, <1>5, <1>6, <1>7, <1>8, <1>18, <2>1 DEF SteadyInv, NoneMissed, Asked, Told, is_waiting, Places, QueueInv, Phases, is_receiving
  <2> QED BY <2>2, <2>3, <2>4, <2>5, <2>6, <2>7, <2>8, <2>9, <2>10 DEF SteadyInv
<1> QED BY <1>1, <1>9, <1>10, <1>11, <1>12, <1>13, <1>14, <1>15, <1>16, <1>17, <1>18 DEF QueueInv

\* A receiver that has to wait arms its timeout.
LEMMA RecvBlockKeeps ==
  ASSUME PlainUse, QueueInv, NEW t \in Threads, RecvBlock(t)
  PROVE  QueueInv' /\ (SteadyUse /\ SteadyInv => SteadyInv')
<1>1. IInv'
  BY NextIInv DEF QueueInv, Next, IpcNext
<1>2. /\ current = t /\ pc[t] = "recv" /\ wakeup' = Armed(t, arg[t].rcv)
      /\ \/ arg[t].to # Nil /\ current' = arg[t].to
         \/ current' = Idle
      /\ UNCHANGED <<sstate, spartner, ready, sendq, outer, xfer, tstate, alive>>
  BY DEF RecvBlock, InKernel, HasSent
<1>3. t \in alive
  BY <1>2, CurrentAlive
<1>4. arg[t].to # Nil =>
         /\ arg[t].to \in Threads \ {t} /\ is_receiving(state[arg[t].to])
         /\ \A u \in Threads : Committed(u) /\ arg[u].to = arg[t].to => u = t
  BY <1>2 DEF QueueInv, Receivers, Committed
<1>5. \A x \in Threads : /\ pc'[x] = IF x = t THEN "rcvwait" ELSE pc[x]
                         /\ state'[x] = IF x = t THEN IF arg[t].rcv = "finite" THEN "waiting_timeout"
                                        ELSE "waiting_forever"
                             ELSE state[x]
                         /\ partner'[x] = IF x = t THEN arg[t].from ELSE partner[x]
  BY DEF RecvBlock, QueueInv, IInv, TypeOK
<1>6. PICK w : /\ GoodArg(t, w) /\ w.kind = arg[t].kind /\ w.from = arg[t].from /\ w.snd = "never"
               /\ \A x \in Threads : arg'[x] = IF x = t THEN w ELSE arg[x]
  <2> DEFINE v == [NoArg EXCEPT !.kind = arg[t].kind, !.from = arg[t].from]
  <2>1. arg' = [arg EXCEPT ![t] = v]
    BY DEF RecvBlock, Waiting
  <2>2. GoodArg(t, v) /\ v.kind = arg[t].kind /\ v.from = arg[t].from /\ v.snd = "never"
    BY TcbAssumption DEF GoodArg, NoArg, IsSpecial, HasSent
  <2> HIDE DEF v
  <2> QED BY <2>1, <2>2 DEF QueueInv, IInv, TypeOK
<1>7. Idle \notin Threads /\ (arg[t].rcv = "finite" => "rcv_timeout" \in Env)
  BY TcbAssumption DEF QueueInv, Untyped, GoodArg
<1>8. Untyped'
  BY <1>2, <1>3, <1>4, <1>5, <1>6, <1>7 DEF QueueInv, Untyped
<1>9. SavedStates'
  BY <1>2, <1>3, <1>4, <1>5, <1>6, <1>7 DEF QueueInv, SavedStates, IInv, TypeOK
<1>10. Living'
  BY <1>2, <1>3, <1>4, <1>5, <1>6, <1>7 DEF QueueInv, Living, Phases, is_receiving
<1>11. Phases'
  BY <1>2, <1>3, <1>4, <1>5, <1>6, <1>7 DEF QueueInv, Phases, is_receiving
<1>12. Receivers'
  BY <1>2, <1>3, <1>4, <1>5, <1>6, <1>7 DEF QueueInv, Receivers, Phases, Committed, is_receiving
<1>13. Pending'
  BY <1>2, <1>3, <1>4, <1>5, <1>6, <1>7 DEF QueueInv, Pending, Phases, is_receiving, Armed
<1>14. TimeoutArmed'
  BY <1>2, <1>3, <1>4, <1>5, <1>6, <1>7 DEF QueueInv, TimeoutArmed, Phases, is_receiving, Armed
<1>15. SendQueueExact'
  BY <1>2, <1>3, <1>4, <1>5, <1>6, <1>7, SameQueues DEF QueueInv, Phases, IsQueued, is_receiving
<1>16. IrqPhases'
  BY <1>2, <1>3, <1>4, <1>5, <1>6, <1>7 DEF QueueInv, IrqPhases, Irq, Phases, is_receiving
<1>17. ASSUME SteadyUse, SteadyInv
       PROVE  SteadyInv'
  <2>1. (arg[t].to # Nil => current' = arg[t].to) /\ Nil \notin Threads /\ t \notin wakeup
    BY <1>2, <1>3, <1>4, <1>5, <1>6, <1>7, <1>17, TcbAssumption DEF RecvBlock, HasSent, QueueInv, Pending
  <2>2. ASSUME "snd_timeout" \notin Env, NEW s \in Threads, state[s] = "polling", partner[s] = t,
               arg[t].from \in {s, AnyThread, AnyLocal}
        PROVE  FALSE
    <3>1. ~(FromTcb(t, arg[t]) \in Threads /\ state[FromTcb(t, arg[t])] = "polling"
                                       /\ partner[FromTcb(t, arg[t])] = t)
      BY DEF RecvBlock, PartnerReady
    <3>2. CASE arg[t].from \notin {AnyThread, AnyLocal}
      BY <2>2, <3>1, <3>2 DEF FromTcb
    <3>3. CASE arg[t].from \in {AnyThread, AnyLocal}
      <4> DEFINE h == Head(sendq[t])
      <4>1. sendq[t] \in Seq(Threads) /\ s \in Range(sendq[t])
        BY <2>2 DEF QueueInv, SendQueueExact, IsQueued, IInv, TypeOK
      <4>2. sendq[t] # <<>> /\ h \in Threads /\ h \in Range(sendq[t])
        BY <4>1 DEF Range
      <4>3. h = FromTcb(t, arg[t]) /\ IsQueued(h) /\ partner[h] = t
        BY <3>3, <4>2 DEF FromTcb, QueueInv, SendQueueExact
      <4> HIDE DEF h
      <4>4. ~(state[h] = "locked_running" /\ pc[h] \in {"polled", "irq"})
        BY <1>2, <4>2, <4>3 DEF QueueInv, Phases, Receivers, Committed
      <4>5. ~(pc[h] = "timeout" /\ tstate[h] = "polling")
        BY <1>17, <2>2, <4>2 DEF SteadyInv, Partners
      <4> QED BY <3>1, <4>2, <4>3, <4>4, <4>5 DEF IsQueued
    <3> QED BY <3>2, <3>3
  <2>3. alive' = Threads
    BY <1>2, <1>3, <1>4, <1>5, <1>6, <1>7, <1>17, <2>1, <2>2 DEF SteadyInv
  <2>4. NoAssertionFails'
    BY <1>2, <1>3, <1>4, <1>5, <1>6, <1>7, <1>17, <2>1, <2>2 DEF RecvBlock, SteadyInv, NoAssertionFails
  <2>5. Places'
    BY <1>2, <1>3, <1>4, <1>5, <1>6, <1>7, <1>17, <2>1, <2>2 DEF SteadyInv, Places, Purposes, Irq, QueueInv, Phases, is_receiving
  <2>6. Purposes'
    BY <1>2, <1>3, <1>4, <1>5, <1>6, <1>7, <1>17, <2>1, <2>2 DEF SteadyInv, Purposes, Irq
  <2>7. Partners'
    BY <1>2, <1>3, <1>4, <1>5, <1>6, <1>7, <1>17, <2>1, <2>2 DEF SteadyInv, Partners, Armed, QueueInv, Phases
  <2>8. Registered'
    BY <1>2, <1>3, <1>4, <1>5, <1>6, <1>7, <1>17, <2>1, <2>2 DEF SteadyInv, Registered, Told, is_waiting, Places, QueueInv, Phases, is_receiving
  <2>9. Meeting'
    BY <1>2, <1>3, <1>4, <1>5, <1>6, <1>7, <1>17, <2>1, <2>2 DEF SteadyInv, Meeting, Asked, is_waiting, QueueInv, Phases, Receivers, Committed, is_receiving
  <2>10. Locked'
    BY <1>2, <1>3, <1>4, <1>5, <1>6, <1>7, <1>17, <2>1, <2>2 DEF SteadyInv, Locked, Places, QueueInv, Phases, is_receiving
  <2>11. NoneMissed'
    BY <1>2, <1>3, <1>4, <1>5, <1>6, <1>7, <1>17, <2>1, <2>2 DEF SteadyInv, NoneMissed, Asked, Told, is_waiting, Places, QueueInv, Phases, is_receiving
  <2> QED BY <2>3, <2>4, <2>5, <2>6, <2>7, <2>8, <2>9, <2>10, <2>11 DEF SteadyInv
<1> QED BY <1>1, <1>8, <1>9, <1>10, <1>11, <1>12, <1>13, <1>14, <1>15, <1>16, <1>17 DEF QueueInv

\* The receiver takes a queued sender: the two are locked, and the thread that was
\* sent to before may keep its timeout.
LEMMA RecvPartnerKeeps ==
  ASSUME PlainUse, QueueInv, NEW t \in Threads, RecvPartner(t)
  PROVE  QueueInv' /\ (SteadyUse /\ SteadyInv => SteadyInv')
<1>1. IInv'
  BY NextIInv DEF QueueInv, Next, IpcNext
<1>2. PICK f \in Threads : f = FromTcb(t, arg[t]) /\ state[f] = "polling" /\ partner[f] = t
  BY DEF RecvPartner, PartnerReady
<1>3. /\ current = t /\ pc[t] = "recv"
      /\ UNCHANGED <<partner, sstate, spartner, sendq, outer, xfer, tstate, alive>>
  BY DEF RecvPartner, InKernel
<1>4. t \in alive
  BY <1>3, CurrentAlive
<1>5. /\ f # t /\ f \in alive /\ pc[f] \in {"polled", "irq"} /\ arg[f].to = t /\ state[f] = "polling"
  BY <1>2, <1>3 DEF QueueInv, Phases, Living
<1>6. arg[t].to # Nil =>
         /\ arg[t].to \in Threads \ {t} /\ is_receiving(state[arg[t].to])
         /\ \A u \in Threads : Committed(u) /\ arg[u].to = arg[t].to => u = t
  BY <1>3 DEF QueueInv, Receivers, Committed
<1>7. arg[t].to # Nil => /\ arg[t].to \in wakeup => LeavesTimeouts /\ pc[arg[t].to] = "rcvwait"
                         /\ arg[t].to \in alive /\ arg[t].to # f
  <2>1. arg[t].from # Nil
    BY <1>2, NilDiffers, TcbAssumption DEF FromTcb
  <2>2. ASSUME arg[t].to # Nil
        PROVE  "call" \in Env
    BY <2>1, <2>2 DEF RecvPartner, QueueInv, Untyped, GoodArg
  <2> QED BY <1>2, <1>6, <2>2 DEF QueueInv, Pending, Living, is_receiving, LeavesTimeouts
<1>8. \A x \in Threads : /\ pc'[x] = IF x = t THEN "lockwait" ELSE pc[x]
  BY DEF RecvPartner, QueueInv, IInv, TypeOK
<1>9. PICK w : /\ GoodArg(t, w) /\ w.kind = arg[t].kind /\ w.from = arg[t].from /\ w.snd = "never"
               /\ \A x \in Threads : arg'[x] = IF x = t THEN w ELSE arg[x]
  <2> DEFINE v == [NoArg EXCEPT !.kind = arg[t].kind, !.from = arg[t].from]
  <2>1. arg' = [arg EXCEPT ![t] = v]
    BY DEF RecvPartner, Waiting
  <2>2. GoodArg(t, v) /\ v.kind = arg[t].kind /\ v.from = arg[t].from /\ v.snd = "never"
    BY TcbAssumption DEF GoodArg, NoArg, IsSpecial, HasSent
  <2> HIDE DEF v
  <2> QED BY <2>1, <2>2 DEF QueueInv, IInv, TypeOK
<1>10. /\ current' = f \/ (arg[t].to # Nil /\ current' = arg[t].to)
       /\ \A x \in Threads : state'[x] = IF x = f THEN "locked_running"
                                        ELSE IF x = t THEN "locked_waiting"
                                        ELSE IF x = arg[t].to /\ current' = f THEN "running" ELSE state[x]
       /\ ready' \subseteq ready \cup {f} \cup ({arg[t].to} \cap Threads)
       /\ \A x \in Threads : x \in wakeup' <=> x \in wakeup /\ (x = f => current' = f)
       /\ Irq(f) => current' = f
  <2>1. state \in [Threads -> ThreadStates] /\ Nil \notin Threads
    BY TcbAssumption DEF QueueInv, IInv, TypeOK
  <2> DEFINE locked == [state EXCEPT ![f] = "locked_running", ![t] = "locked_waiting"]
  <2>2. CASE HasSent(arg[t]) /\ check_dispatch_thread(f, arg[t].to)
    <3>1. ~Irq(f)
      BY <1>2, <1>6, <2>2, TcbAssumption DEF HasSent, check_dispatch_thread, QueueInv, IrqPhases
    <3> QED BY <1>2, <1>5, <1>6, <1>7, <2>1, <2>2, <3>1 DEF RecvPartner, HasSent, Cancelled, Enqueued
  <2>3. CASE HasSent(arg[t]) /\ ~check_dispatch_thread(f, arg[t].to)
    <3>1. /\ state' = [locked EXCEPT ![arg[t].to] = "running"]
          /\ ready' = ready \cup {arg[t].to} /\ current' = f /\ UNCHANGED wakeup
      BY <1>2, <2>3 DEF RecvPartner, Enqueued
    <3>2. arg[t].to \in Threads \ {t, f}
      BY <1>6, <1>7, <2>3 DEF HasSent
    <3> QED BY <1>5, <2>1, <2>3, <3>1, <3>2 DEF HasSent
  <2>4. CASE ~HasSent(arg[t])
    BY <1>2, <1>5, <2>1, <2>4 DEF RecvPartner, HasSent
  <2> QED BY <2>2, <2>3, <2>4
<1>11. Untyped'
  BY <1>3, <1>4, <1>5, <1>6, <1>7, <1>8, <1>9, <1>10, TcbAssumption DEF QueueInv, Untyped
<1>12. SavedStates'
  BY <1>3, <1>4, <1>8, <1>9 DEF QueueInv, SavedStates, IInv, TypeOK
<1>13. Living'
  BY <1>3, <1>4, <1>5, <1>7, <1>8, <1>10, TcbAssumption DEF QueueInv, Living
<1>14. Phases'
  BY <1>3, <1>4, <1>5, <1>6, <1>7, <1>8, <1>9, <1>10, TcbAssumption DEF QueueInv, Phases, is_receiving
<1>15. Receivers'
  BY <1>3, <1>4, <1>5, <1>6, <1>7, <1>8, <1>9, <1>10, TcbAssumption DEF QueueInv, Receivers, Phases, Committed, is_receiving
<1>16. Pending'
  BY <1>3, <1>4, <1>5, <1>6, <1>7, <1>8, <1>9, <1>10, TcbAssumption DEF QueueInv, Pending, Phases, is_receiving
<1>17. TimeoutArmed'
  BY <1>3, <1>4, <1>5, <1>6, <1>7, <1>8, <1>9, <1>10, TcbAssumption DEF QueueInv, TimeoutArmed, Phases, is_receiving
<1>18. SendQueueExact'
  BY <1>3, <1>4, <1>5, <1>6, <1>7, <1>8, <1>9, <1>10, TcbAssumption, SameQueues DEF QueueInv, Phases, IsQueued, is_receiving
<1>19. IrqPhases'
  BY <1>3, <1>4, <1>5, <1>6, <1>7, <1>8, <1>9, <1>10, TcbAssumption DEF QueueInv, IrqPhases, Irq, Phases, is_receiving
<1>20. ASSUME SteadyUse, SteadyInv
       PROVE  SteadyInv'
  <2>1. /\ arg[t].from \in {f, AnyThread} \/ (arg[t].from = AnyLocal /\ Space[f] = Space[t])
        /\ Nil \notin Threads
    <3>1. arg[t].from = AnyLocal => arg[t].to = Nil
      BY DEF QueueInv, Untyped, GoodArg
    <3>2. arg[t].from = AnyLocal => Space[f] = Space[t]
      BY <1>2, <1>3, <1>20, <3>1, TcbAssumption DEF FromTcb, SteadyInv, Partners
    <3> QED BY <1>2, <3>2, TcbAssumption DEF FromTcb
  <2>2. alive' = Threads
    BY <1>3, <1>4, <1>5, <1>6, <1>7, <1>8, <1>9, <1>10, <1>20, <2>1 DEF SteadyInv
  <2>3. NoAssertionFails'
    BY <1>3, <1>4, <1>5, <1>6, <1>7, <1>8, <1>9, <1>10, <1>20, <2>1 DEF RecvPartner, SteadyInv, NoAssertionFails
  <2>4. Places'
    BY <1>3, <1>4, <1>5, <1>6, <1>7, <1>8, <1>9, <1>10, <1>20, <2>1 DEF SteadyInv, Places, Purposes, Irq, QueueInv, Phases, is_receiving
  <2>5. Purposes'
    BY <1>3, <1>4, <1>5, <1>6, <1>7, <1>8, <1>9, <1>10, <1>20, <2>1 DEF SteadyInv, Purposes, Irq
  <2>6. Partners'
    BY <1>3, <1>4, <1>5, <1>6, <1>7, <1>8, <1>9, <1>10, <1>20, <2>1 DEF SteadyInv, Partners, is_receiving, QueueInv, Phases
  <2>7. Registered'
    BY <1>3, <1>4, <1>5, <1>6, <1>7, <1>8, <1>9, <1>10, <1>20, <2>1 DEF SteadyInv, Registered, Told, is_waiting, Places, QueueInv, Phases, is_receiving
  <2>8. Meeting'
    BY <1>3, <1>4, <1>5, <1>6, <1>7, <1>8, <1>9, <1>10, <1>20, <2>1 DEF SteadyInv, Meeting, Asked, is_waiting, QueueInv, Phases, Receivers, Committed, is_receiving
  <2>9. Locked'
    BY <1>3, <1>4, <1>5, <1>6, <1>7, <1>8, <1>9, <1>10, <1>20, <2>1 DEF SteadyInv, Locked, Places, QueueInv, Phases, is_receiving
  <2>10. NoneMissed'
    BY <1>3, <1>4, <1>5, <1>6, <1>7, <1>8, <1>9, <1>10, <1>20, <2>1 DEF SteadyInv, NoneMissed, Asked, Told, is_waiting, Places, QueueInv, Phases, is_receiving
  <2> QED BY <2>2, <2>3, <2>4, <2>5, <2>6, <2>7, <2>8, <2>9, <2>10 DEF SteadyInv
<1> QED BY <1>1, <1>11, <1>12, <1>13, <1>14, <1>15, <1>16, <1>17, <1>18, <1>19, <1>20 DEF QueueInv

\* The receiver has its message, and no sender any more.
LEMMA RecvResumeKeeps ==
  ASSUME PlainUse, QueueInv, NEW t \in Threads, RecvResume(t)
  PROVE  QueueInv' /\ (SteadyUse /\ SteadyInv => SteadyInv')
<1>1. IInv'
  BY NextIInv DEF QueueInv, Next, IpcNext
<1>2. /\ current = t /\ pc[t] \in {"rcvwait", "special", "lockwait"} /\ Return(t, Running(t), partner)
      /\ wakeup' = IF pc[t] = "rcvwait" THEN wakeup \ {t} ELSE wakeup
      /\ UNCHANGED <<current, ready, sendq, xfer, tstate, alive>>
  BY DEF RecvResume, InKernel, Cancelled
<1>3. t \in alive
  BY <1>2, CurrentAlive
<1>4. /\ Running(t) \in [Threads -> ThreadStates]
      /\ \A x \in Threads : Running(t)[x] = IF x = t THEN "running" ELSE state[x]
  BY Values DEF Running, QueueInv, IInv, TypeOK
<1>5. /\ pc' = [pc EXCEPT ![t] = "user"] /\ arg' = [arg EXCEPT ![t] = NoArg]
      /\ \A x \in Threads : outer'[x] = outer[x] /\ spartner'[x] = spartner[x]
      /\ \A x \in Threads : state'[x] = IF x = t /\ arg[t].kind = "pf" THEN sstate[t] ELSE Running(t)[x]
      /\ \A x \in Threads \ {t} : partner'[x] = partner[x]
      /\ sstate' = IF arg[t].kind = "pf" THEN [sstate EXCEPT ![t] = "aborted"] ELSE sstate
  BY <1>2, <1>4, ReturnEffect DEF QueueInv, IInv, TypeOK
<1>6. \A x \in Threads : /\ pc'[x] = IF x = t THEN "user" ELSE pc[x]
                         /\ arg'[x] = IF x = t THEN NoArg ELSE arg[x]
                         /\ sstate'[x] = IF x = t /\ arg[t].kind = "pf" THEN "aborted" ELSE sstate[x]
  BY <1>5 DEF QueueInv, IInv, TypeOK
<1>7. GoodArg(t, NoArg) /\ NoArg.kind = "none" /\ NoArg.to = Nil /\ NoArg.snd = "never"
  BY KernelArgs
<1>8. Untyped'
  BY <1>2, <1>3, <1>4, <1>5, <1>6, <1>7 DEF QueueInv, Untyped
<1>9. SavedStates'
  BY <1>2, <1>3, <1>4, <1>5, <1>6, <1>7 DEF QueueInv, SavedStates, IInv, TypeOK
<1>10. Living'
  BY <1>2, <1>3, <1>4, <1>5, <1>6, <1>7 DEF QueueInv, Living, Phases
<1>11. Phases'
  BY <1>2, <1>3, <1>4, <1>5, <1>6, <1>7 DEF QueueInv, Phases
<1>12. Receivers'
  BY <1>2, <1>3, <1>4, <1>5, <1>6, <1>7 DEF QueueInv, Receivers, Phases, Committed
<1>13. Pending'
  BY <1>2, <1>3, <1>4, <1>5, <1>6, <1>7 DEF QueueInv, Pending, Phases
<1>14. TimeoutArmed'
  BY <1>2, <1>3, <1>4, <1>5, <1>6, <1>7 DEF QueueInv, TimeoutArmed, Phases
<1>15. SendQueueExact'
  BY <1>2, <1>3, <1>4, <1>5, <1>6, <1>7, SameQueues DEF QueueInv, Phases, IsQueued
<1>16. IrqPhases'
  BY <1>2, <1>3, <1>4, <1>5, <1>6, <1>7 DEF QueueInv, IrqPhases, Irq, Phases
<1>17. ASSUME SteadyUse, SteadyInv
       PROVE  SteadyInv'
  <2>1. state'[t] = "running"
    BY <1>2, <1>3, <1>4, <1>5, <1>6, <1>7, <1>17 DEF SteadyInv, Purposes, Irq
  <2>2. alive' = Threads
    BY <1>2, <1>3, <1>4, <1>5, <1>6, <1>7, <1>17, <2>1 DEF SteadyInv
  <2>3. NoAssertionFails'
    BY <1>2, <1>3, <1>4, <1>5, <1>6, <1>7, <1>17, <2>1 DEF RecvResume, SteadyInv, NoAssertionFails
  <2>4. Places'
    BY <1>2, <1>3, <1>4, <1>5, <1>6, <1>7, <1>17, <2>1 DEF SteadyInv, Places, Purposes, Irq, QueueInv, Phases
  <2>5. Purposes'
    BY <1>2, <1>3, <1>4, <1>5, <1>6, <1>7, <1>17, <2>1 DEF SteadyInv, Purposes, Irq
  <2>6. Partners'
    BY <1>2, <1>3, <1>4, <1>5, <1>6, <1>7, <1>17, <2>1 DEF SteadyInv, Partners, QueueInv, Phases
  <2>7. Registered'
    BY <1>2, <1>3, <1>4, <1>5, <1>6, <1>7, <1>17, <2>1 DEF SteadyInv, Registered, Told, is_waiting, Places, QueueInv, Phases
  <2>8. Meeting'
    BY <1>2, <1>3, <1>4, <1>5, <1>6, <1>7, <1>17, <2>1 DEF SteadyInv, Meeting, Asked, is_waiting, QueueInv, Phases, Receivers, Committed
  <2>9. Locked'
    BY <1>2, <1>3, <1>4, <1>5, <1>6, <1>7, <1>17, <2>1 DEF SteadyInv, Locked, Places, QueueInv, Phases
  <2>10. NoneMissed'
    BY <1>2, <1>3, <1>4, <1>5, <1>6, <1>7, <1>17, <2>1 DEF SteadyInv, NoneMissed, Asked, Told, is_waiting, Places, QueueInv, Phases
  <2> QED BY <2>2, <2>3, <2>4, <2>5, <2>6, <2>7, <2>8, <2>9, <2>10 DEF SteadyInv
<1> QED BY <1>1, <1>8, <1>9, <1>10, <1>11, <1>12, <1>13, <1>14, <1>15, <1>16, <1>17 DEF QueueInv

\* A started thread has no saved state.
LEMMA ThreadStartupKeeps ==
  ASSUME PlainUse, QueueInv, NEW t \in Threads, ThreadStartup(t)
  PROVE  QueueInv' /\ (SteadyUse /\ SteadyInv => SteadyInv')
<1>1. IInv'
  BY NextIInv DEF QueueInv, Next, IpcNext
<1>2. /\ current = t /\ pc[t] = "startup"
      /\ UNCHANGED <<current, state, partner, spartner, ready, wakeup, sendq,
                     arg, outer, xfer, tstate, alive>>
  BY DEF ThreadStartup, InKernel
<1>3. t \in alive
  BY <1>2, CurrentAlive
<1>4. \A x \in Threads : /\ pc'[x] = IF x = t THEN "user" ELSE pc[x]
                         /\ sstate'[x] = IF x = t THEN "aborted" ELSE sstate[x]
  BY DEF ThreadStartup, QueueInv, IInv, TypeOK
<1>5. Untyped'
  BY <1>2, <1>3, <1>4 DEF QueueInv, Untyped
<1>6. SavedStates'
  BY <1>2, <1>3, <1>4 DEF QueueInv, SavedStates, IInv, TypeOK
<1>7. Living'
  BY <1>2, <1>3, <1>4 DEF QueueInv, Living, Phases
<1>8. Phases'
  BY <1>2, <1>3, <1>4 DEF QueueInv, Phases
<1>9. Receivers'
  BY <1>2, <1>3, <1>4 DEF QueueInv, Receivers, Phases, Committed
<1>10. Pending'
  BY <1>2, <1>3, <1>4 DEF QueueInv, Pending, Phases
<1>11. TimeoutArmed'
  BY <1>2, <1>3, <1>4 DEF QueueInv, TimeoutArmed, Phases
<1>12. SendQueueExact'
  BY <1>2, <1>3, <1>4, SameQueues DEF QueueInv, Phases, IsQueued
<1>13. IrqPhases'
  BY <1>2, <1>3, <1>4 DEF QueueInv, IrqPhases, Irq, Phases
<1>14. ASSUME SteadyUse, SteadyInv
       PROVE  SteadyInv'
  BY <1>2, <1>3, <1>4, <1>14 DEF SteadyInv, Places
<1> QED BY <1>1, <1>5, <1>6, <1>7, <1>8, <1>9, <1>10, <1>11, <1>12, <1>13, <1>14 DEF QueueInv

\* The end of an aborted IPC.
LEMMA HandleIpcErrorKeeps ==
  ASSUME PlainUse, QueueInv, NEW t \in Threads, HandleIpcError(t)
  PROVE  QueueInv' /\ (SteadyUse /\ SteadyInv => SteadyInv')
<1>1. IInv'
  BY NextIInv DEF QueueInv, Next, IpcNext
<1>2. /\ current = t /\ pc[t] = "error" /\ IpcError(t, partner, sstate, spartner)
      /\ UNCHANGED <<current, state, ready, wakeup, sendq, tstate, alive>>
  BY DEF HandleIpcError, InKernel
<1>3. t \in alive
  BY <1>2, CurrentAlive
<1>4. \A x \in Threads : /\ pc'[x] = IF x = t THEN "user" ELSE pc[x]
                         /\ arg'[x] = IF x = t THEN NoArg ELSE arg[x]
                         /\ outer'[x] = IF x = t THEN NoArg ELSE outer[x]
                         /\ sstate'[x] = IF x = t THEN "aborted" ELSE sstate[x]
                         /\ x # t => partner'[x] = partner[x]
  BY <1>2 DEF HandleIpcError, IpcError, QueueInv, IInv, TypeOK
<1>5. /\ xfer' = {} /\ \A x \in Threads : spartner'[x] = Nil
  BY <1>2 DEF IpcError, Untyped, QueueInv, IInv, TypeOK
<1>6. GoodArg(t, NoArg) /\ NoArg.kind = "none" /\ NoArg.to = Nil /\ NoArg.snd = "never"
  BY KernelArgs
<1>7. Untyped'
  BY <1>2, <1>3, <1>4, <1>5, <1>6 DEF QueueInv, Untyped
<1>8. SavedStates'
  BY <1>2, <1>3, <1>4, <1>5, <1>6 DEF QueueInv, SavedStates, IInv, TypeOK
<1>9. Living'
  BY <1>2, <1>3, <1>4, <1>5, <1>6 DEF QueueInv, Living, Phases
<1>10. Phases'
  BY <1>2, <1>3, <1>4, <1>5, <1>6 DEF QueueInv, Phases
<1>11. Receivers'
  BY <1>2, <1>3, <1>4, <1>5, <1>6 DEF QueueInv, Receivers, Phases, Committed
<1>12. Pending'
  BY <1>2, <1>3, <1>4, <1>5, <1>6 DEF QueueInv, Pending, Phases
<1>13. TimeoutArmed'
  BY <1>2, <1>3, <1>4, <1>5, <1>6 DEF QueueInv, TimeoutArmed, Phases
<1>14. SendQueueExact'
  BY <1>2, <1>3, <1>4, <1>5, <1>6, SameQueues DEF QueueInv, Phases, IsQueued
<1>15. IrqPhases'
  BY <1>2, <1>3, <1>4, <1>5, <1>6 DEF QueueInv, IrqPhases, Irq, Phases
<1>16. ASSUME SteadyUse, SteadyInv
       PROVE  SteadyInv'
  <2>1. ~HasOuter(t)
    BY KernelArgs DEF QueueInv, Untyped, HasOuter
  <2>2. alive' = Threads
    BY <1>2, <1>3, <1>4, <1>5, <1>6, <1>16, <2>1 DEF SteadyInv
  <2>3. NoAssertionFails'
    BY <1>2, <1>3, <1>4, <1>5, <1>6, <1>16, <2>1 DEF HandleIpcError, SteadyInv, NoAssertionFails, WrongExit, Purposes, Irq
  <2>4. Places'
    BY <1>2, <1>3, <1>4, <1>5, <1>6, <1>16, <2>1 DEF SteadyInv, Places, Purposes, Irq, QueueInv, Phases
  <2>5. Purposes'
    BY <1>2, <1>3, <1>4, <1>5, <1>6, <1>16, <2>1 DEF SteadyInv, Purposes, Irq
  <2>6. Partners'
    BY <1>2, <1>3, <1>4, <1>5, <1>6, <1>16, <2>1 DEF SteadyInv, Partners, QueueInv, Phases
  <2>7. Registered'
    BY <1>2, <1>3, <1>4, <1>5, <1>6, <1>16, <2>1 DEF SteadyInv, Registered, Told, is_waiting, Places, QueueInv, Phases
  <2>8. Meeting'
    BY <1>2, <1>3, <1>4, <1>5, <1>6, <1>16, <2>1 DEF SteadyInv, Meeting, Asked, is_waiting, QueueInv, Phases, Receivers, Committed
  <2>9. Locked'
    BY <1>2, <1>3, <1>4, <1>5, <1>6, <1>16, <2>1 DEF SteadyInv, Locked, Places, QueueInv, Phases
  <2>10. NoneMissed'
    BY <1>2, <1>3, <1>4, <1>5, <1>6, <1>16, <2>1 DEF SteadyInv, NoneMissed, Asked, Told, is_waiting, Places, QueueInv, Phases
  <2> QED BY <2>2, <2>3, <2>4, <2>5, <2>6, <2>7, <2>8, <2>9, <2>10 DEF SteadyInv
<1> QED BY <1>1, <1>7, <1>8, <1>9, <1>10, <1>11, <1>12, <1>13, <1>14, <1>15, <1>16 DEF QueueInv

\* A sender that timed out leaves the queue it is in; the thread it was locked with
\* is none, as only a waiting or a queued thread has a timeout.
LEMMA HandleIpcTimeoutKeeps ==
  ASSUME PlainUse, QueueInv, NEW t \in Threads, HandleIpcTimeout(t)
  PROVE  QueueInv' /\ (SteadyUse /\ SteadyInv => SteadyInv')
<1>1. IInv'
  BY NextIInv DEF QueueInv, Next, IpcNext
<1>2. /\ current = t /\ pc[t] = "timeout" /\ tstate[t] \notin {"locked_running", "locked_waiting"}
      /\ spartner[t] = Nil /\ t \notin wakeup
  BY DEF HandleIpcTimeout, InKernel, QueueInv, Phases, Untyped, Pending
<1>3. t \in alive
  BY <1>2, CurrentAlive
<1>4. Aborted(t, tstate[t]) = {} /\ ~Nested(t)
  BY <1>2 DEF Aborted, AbortedBy, Nested
<1>5. /\ IpcError(t, partner, sstate, [spartner EXCEPT ![t] = Nil])
      /\ sendq' = UnwoundSendq(t, tstate[t]) /\ UNCHANGED <<current, ready, wakeup, alive>>
  BY <1>2, <1>4 DEF HandleIpcTimeout, UnwoundPartner, UnwoundSstate, UnwoundSpartner, UnwoundWakeup, Cancelled
<1>6. \A x \in Threads : /\ pc'[x] = IF x = t THEN "user" ELSE pc[x]
                         /\ state'[x] = IF x = t THEN "running" ELSE state[x]
                         /\ tstate'[x] = IF x = t THEN "running" ELSE tstate[x]
  BY <1>4 DEF HandleIpcTimeout, QueueInv, IInv, TypeOK
<1>7. \A x \in Threads : /\ arg'[x] = IF x = t THEN NoArg ELSE arg[x]
                         /\ outer'[x] = IF x = t THEN NoArg ELSE outer[x]
                         /\ sstate'[x] = IF x = t THEN "aborted" ELSE sstate[x]
                         /\ x # t => partner'[x] = partner[x]
  BY <1>5 DEF IpcError, QueueInv, IInv, TypeOK
<1>8. /\ xfer' = {} /\ \A x \in Threads : spartner'[x] = Nil
  BY <1>2, <1>5 DEF IpcError, Untyped, QueueInv, IInv, TypeOK
<1>9. GoodArg(t, NoArg) /\ NoArg.kind = "none" /\ NoArg.to = Nil /\ NoArg.snd = "never"
  BY KernelArgs
<1>10. \A x \in Threads : sendq'[x] = IF tstate[t] = "polling" /\ x = partner[t] THEN Without(sendq[x], t) ELSE sendq[x]
  BY <1>5 DEF UnwoundSendq, QueueInv, IInv, TypeOK
<1>11. Untyped'
  BY <1>2, <1>3, <1>4, <1>5, <1>6, <1>7, <1>8, <1>9, <1>10 DEF QueueInv, Untyped
<1>12. SavedStates'
  BY <1>2, <1>3, <1>4, <1>5, <1>6, <1>7, <1>8, <1>9, <1>10 DEF QueueInv, SavedStates, IInv, TypeOK
<1>13. Living'
  <2>1. tstate[t] = "polling" /\ partner[t] \in Threads => partner[t] \in alive
    BY <1>2 DEF QueueInv, SendQueueExact, IsQueued, Living, Range
  <2> QED BY <1>2, <1>3, <1>5, <1>6, <1>10, <2>1 DEF QueueInv, Living
<1>14. Phases'
  BY <1>2, <1>3, <1>4, <1>5, <1>6, <1>7, <1>8, <1>9, <1>10 DEF QueueInv, Phases
<1>15. Receivers'
  BY <1>2, <1>3, <1>4, <1>5, <1>6, <1>7, <1>8, <1>9, <1>10 DEF QueueInv, Receivers, Phases, Committed
<1>16. Pending'
  BY <1>2, <1>3, <1>4, <1>5, <1>6, <1>7, <1>8, <1>9, <1>10 DEF QueueInv, Pending, Phases
<1>17. TimeoutArmed'
  BY <1>2, <1>3, <1>4, <1>5, <1>6, <1>7, <1>8, <1>9, <1>10 DEF QueueInv, TimeoutArmed, Phases
<1>18. SendQueueExact'
  <2>1. \A x \in Threads : IsQueued(x)' <=> IsQueued(x) /\ x # t
    BY <1>2, <1>5, <1>6 DEF QueueInv, Phases, IsQueued
  <2>2. IsQueued(t) <=> tstate[t] = "polling"
    BY <1>2 DEF QueueInv, Phases, IsQueued
  <2> QED BY <1>7, <1>10, <2>1, <2>2, LeaveQueue DEF QueueInv, IInv
<1>19. IrqPhases'
  BY <1>2, <1>3, <1>4, <1>5, <1>6, <1>7, <1>8, <1>9, <1>10 DEF QueueInv, IrqPhases, Irq, Phases
<1>20. ASSUME SteadyUse, SteadyInv
       PROVE  SteadyInv'
  <2>1. ~HasOuter(t)
    BY KernelArgs DEF QueueInv, Untyped, HasOuter
  <2>2. UnwoundSstate(t) = sstate
    BY <1>2, <1>3, <1>4, <1>5, <1>6, <1>7, <1>8, <1>9, <1>10, <1>20, <2>1 DEF UnwoundSstate
  <2>3. DequeueFails(t, tstate[t]) = {}
    BY <1>2, <1>3, <1>4, <1>5, <1>6, <1>7, <1>8, <1>9, <1>10, <1>20, <2>1, <2>2 DEF SteadyInv, Partners, DequeueFails, QueueInv, SendQueueExact, IsQueued
  <2>4. alive' = Threads
    BY <1>2, <1>3, <1>4, <1>5, <1>6, <1>7, <1>8, <1>9, <1>10, <1>20, <2>1, <2>2, <2>3 DEF SteadyInv
  <2>5. NoAssertionFails'
    BY <1>2, <1>3, <1>4, <1>5, <1>6, <1>7, <1>8, <1>9, <1>10, <1>20, <2>1, <2>2, <2>3 DEF HandleIpcTimeout, SteadyInv, NoAssertionFails, WrongExit, Purposes, Irq
  <2>6. Places'
    BY <1>2, <1>3, <1>4, <1>5, <1>6, <1>7, <1>8, <1>9, <1>10, <1>20, <2>1, <2>2, <2>3 DEF SteadyInv, Places, Purposes, Irq, QueueInv, Phases
  <2>7. Purposes'
    BY <1>2, <1>3, <1>4, <1>5, <1>6, <1>7, <1>8, <1>9, <1>10, <1>20, <2>1, <2>2, <2>3 DEF SteadyInv, Purposes, Irq
  <2>8. Partners'
    BY <1>2, <1>3, <1>4, <1>5, <1>6, <1>7, <1>8, <1>9, <1>10, <1>20, <2>1, <2>2, <2>3 DEF SteadyInv, Partners, QueueInv, Phases
  <2>9. Registered'
    BY <1>2, <1>3, <1>4, <1>5, <1>6, <1>7, <1>8, <1>9, <1>10, <1>20, <2>1, <2>2, <2>3 DEF SteadyInv, Registered, Told, is_waiting, Places, QueueInv, Phases
  <2>10. Meeting'
    BY <1>2, <1>3, <1>4, <1>5, <1>6, <1>7, <1>8, <1>9, <1>10, <1>20, <2>1, <2>2, <2>3 DEF SteadyInv, Meeting, Asked, is_waiting, QueueInv, Phases, Receivers, Committed
  <2>11. Locked'
    BY <1>2, <1>3, <1>4, <1>5, <1>6, <1>7, <1>8, <1>9, <1>10, <1>20, <2>1, <2>2, <2>3 DEF SteadyInv, Locked, Places, QueueInv, Phases
  <2>12. NoneMissed'
    BY <1>2, <1>3, <1>4, <1>5, <1>6, <1>7, <1>8, <1>9, <1>10, <1>20, <2>1, <2>2, <2>3 DEF SteadyInv, NoneMissed, Asked, Told, is_waiting, Places, QueueInv, Phases
  <2> QED BY <2>4, <2>5, <2>6, <2>7, <2>8, <2>9, <2>10, <2>11, <2>12 DEF SteadyInv
<1> QED BY <1>1, <1>11, <1>12, <1>13, <1>14, <1>15, <1>16, <1>17, <1>18, <1>19, <1>20 DEF QueueInv

\* An aborted thread leaves its queue; nobody is locked with it.
LEMMA AbortKeeps ==
  ASSUME QueueInv,
         IInv',
         NEW t \in Threads,
         current = t,
         pc[t] = "user",
         PlainUse,
         NEW d \in alive,
         ~Irq(d),
         NEW c \in Controls,
         IsAborted(state[d], c),
         perform_exregs(d, c)
  PROVE  QueueInv' /\ (SteadyUse /\ SteadyInv => SteadyInv')
<1>1. d \in Threads /\ state[d] \in {"polling", "waiting_forever", "waiting_timeout"}
  BY DEF perform_exregs, UsualAbort, IsAborted, is_sending, is_receiving, Does, PlainUse, QueueInv, IInv, TypeOK
<1>2. /\ Aborted(d, state[d]) = {} /\ UnwoundPartner(d) = partner /\ UnwoundSstate(d) = sstate
      /\ \A x \in Threads : UnwoundSpartner(d)[x] = Nil
      /\ \A x \in Threads : UnwoundSendq(d, state[d])[x] =
           IF state[d] = "polling" /\ x = partner[d] THEN Without(sendq[x], d) ELSE sendq[x]
      /\ UnwoundWakeup(d, state[d]) = wakeup \ {d}
  BY <1>1, UnwindEffect DEF QueueInv, IInv, TypeOK, NotStarted, is_waiting
<1>3. /\ \A x \in Threads : spartner'[x] = Nil
      /\ \A x \in Threads : sendq'[x] =
           IF state[d] = "polling" /\ x = partner[d] THEN Without(sendq[x], d) ELSE sendq[x]
      /\ wakeup' = wakeup \ {d} /\ ready' = ready \cup {d} /\ current' \in {current, Idle}
      /\ UNCHANGED <<partner, sstate, arg, outer, xfer, tstate, alive>>
  BY <1>2 DEF perform_exregs
<1>4. \A x \in Threads : /\ pc'[x] = IF x = d THEN "error" ELSE pc[x]
                         /\ x # d => state'[x] = state[x]
  BY <1>2 DEF perform_exregs
<1>5. state'[d] \in {"running", "halted"}
  BY <1>1, <1>2 DEF perform_exregs, Resumes, Halts
<1>6. t \in alive /\ Idle \notin Threads
  BY CurrentAlive, TcbAssumption
<1>7. Untyped'
  BY <1>1, <1>2, <1>3, <1>4, <1>5, <1>6 DEF QueueInv, Untyped
<1>8. SavedStates'
  BY <1>1, <1>2, <1>3, <1>4, <1>5, <1>6 DEF QueueInv, SavedStates, IInv, TypeOK
<1>9. Living'
  <2>1. state[d] = "polling" /\ partner[d] \in Threads => partner[d] \in alive
    BY <1>1 DEF QueueInv, SendQueueExact, IsQueued, Living, Range
  <2> QED BY <1>1, <1>3, <1>4, <1>5, <1>6, <2>1 DEF QueueInv, Living
<1>10. Phases'
  BY <1>1, <1>2, <1>3, <1>4, <1>5, <1>6 DEF QueueInv, Phases
<1>11. Receivers'
  BY <1>1, <1>2, <1>3, <1>4, <1>5, <1>6 DEF QueueInv, Receivers, Phases, Committed, is_receiving
<1>12. Pending'
  BY <1>1, <1>2, <1>3, <1>4, <1>5, <1>6 DEF QueueInv, Pending, Phases
<1>13. TimeoutArmed'
  BY <1>1, <1>2, <1>3, <1>4, <1>5, <1>6 DEF QueueInv, TimeoutArmed, Phases
<1>14. SendQueueExact'
  <2>1. \A x \in Threads : IsQueued(x)' <=> IsQueued(x) /\ x # d
    BY <1>1, <1>3, <1>4, <1>5 DEF QueueInv, Phases, IsQueued
  <2>2. IsQueued(d) <=> state[d] = "polling"
    BY <1>1 DEF QueueInv, Phases, IsQueued
  <2> QED BY <1>1, <1>3, <2>1, <2>2, LeaveQueue DEF QueueInv, IInv
<1>15. IrqPhases'
  BY <1>1, <1>2, <1>3, <1>4, <1>5, <1>6 DEF QueueInv, IrqPhases, Irq, Phases
<1>16. ASSUME SteadyUse, SteadyInv
       PROVE  SteadyInv'
  <2>1. d # t
    BY <1>1, <1>2, <1>3, <1>4, <1>5, <1>6, <1>16 DEF SteadyInv, Places
  <2>2. DequeueFails(d, state[d]) = {}
    <3>1. state[d] = "polling" => partner[d] \in Threads
      BY <1>1, <1>2, <1>3, <1>4, <1>5, <1>6, <1>16, <2>1 DEF QueueInv, Phases, IInv, ArgOK, Irq
    <3> QED BY <1>1, <1>2, <1>3, <1>4, <1>5, <1>6, <1>16, <2>1, <3>1 DEF DequeueFails, QueueInv, SendQueueExact, IsQueued
  <2>3. alive' = Threads
    BY <1>1, <1>2, <1>3, <1>4, <1>5, <1>6, <1>16, <2>1, <2>2 DEF SteadyInv
  <2>4. NoAssertionFails'
    BY <1>1, <1>2, <1>3, <1>4, <1>5, <1>6, <1>16, <2>1, <2>2 DEF perform_exregs, SteadyInv, NoAssertionFails
  <2>5. Places'
    BY <1>1, <1>2, <1>3, <1>4, <1>5, <1>6, <1>16, <2>1, <2>2 DEF SteadyInv, Places, Purposes, Irq, QueueInv, Phases
  <2>6. Purposes'
    BY <1>1, <1>2, <1>3, <1>4, <1>5, <1>6, <1>16, <2>1, <2>2 DEF SteadyInv, Purposes, Irq, Places
  <2>7. Partners'
    BY <1>1, <1>2, <1>3, <1>4, <1>5, <1>6, <1>16, <2>1, <2>2 DEF SteadyInv, Partners, QueueInv, Phases
  <2>8. Registered'
    BY <1>1, <1>2, <1>3, <1>4, <1>5, <1>6, <1>16, <2>1, <2>2 DEF SteadyInv, Registered, Told, is_waiting, Places, QueueInv, Phases
  <2>9. Meeting'
    BY <1>1, <1>2, <1>3, <1>4, <1>5, <1>6, <1>16, <2>1, <2>2 DEF SteadyInv, Meeting, Asked, is_waiting, QueueInv, Phases, Receivers, Committed
  <2>10. Locked'
    BY <1>1, <1>2, <1>3, <1>4, <1>5, <1>6, <1>16, <2>1, <2>2 DEF SteadyInv, Locked, Places, QueueInv, Phases
  <2>11. NoneMissed'
    BY <1>1, <1>2, <1>3, <1>4, <1>5, <1>6, <1>16, <2>1, <2>2 DEF SteadyInv, NoneMissed, Asked, Told, is_waiting, Places, QueueInv, Phases
  <2> QED BY <2>3, <2>4, <2>5, <2>6, <2>7, <2>8, <2>9, <2>10, <2>11 DEF SteadyInv
<1> QED BY <1>7, <1>8, <1>9, <1>10, <1>11, <1>12, <1>13, <1>14, <1>15, <1>16 DEF QueueInv

\* A thread that is not aborted is halted or resumed, or stays as it is.
LEMMA HaltKeeps ==
  ASSUME QueueInv,
         IInv',
         NEW t \in Threads,
         current = t,
         pc[t] = "user",
         NEW d \in alive,
         ~Irq(d),
         NEW c \in Controls,
         ~IsAborted(state[d], c),
         perform_exregs(d, c)
  PROVE  QueueInv' /\ (SteadyUse /\ SteadyInv => SteadyInv')
<1>1. /\ d \in Threads /\ ready' \subseteq ready \cup {d} /\ current' \in {current, Idle}
      /\ UNCHANGED <<wakeup, sendq, partner, sstate, spartner, arg, outer, xfer, tstate, alive>>
  BY DEF perform_exregs, QueueInv, IInv, TypeOK
<1>2. /\ \A x \in Threads : pc'[x] = pc[x] /\ (x # d => state'[x] = state[x])
      /\ \/ state'[d] = state[d]
         \/ state[d] \in {"running", "halted"} /\ state'[d] \in {"running", "halted"}
  BY <1>1 DEF perform_exregs, Resumes, Halts
<1>3. t \in alive /\ Idle \notin Threads
  BY CurrentAlive, TcbAssumption
<1>4. Untyped'
  BY <1>1, <1>2, <1>3 DEF QueueInv, Untyped
<1>5. SavedStates'
  BY <1>1, <1>2, <1>3 DEF QueueInv, SavedStates, IInv, TypeOK
<1>6. Living'
  BY <1>1, <1>2, <1>3 DEF QueueInv, Living, Phases
<1>7. Phases'
  BY <1>1, <1>2, <1>3 DEF QueueInv, Phases
<1>8. Receivers'
  BY <1>1, <1>2, <1>3 DEF QueueInv, Receivers, Phases, Committed, is_receiving
<1>9. Pending'
  BY <1>1, <1>2, <1>3 DEF QueueInv, Pending, Phases
<1>10. TimeoutArmed'
  BY <1>1, <1>2, <1>3 DEF QueueInv, TimeoutArmed, Phases
<1>11. SendQueueExact'
  BY <1>1, <1>2, <1>3, SameQueues DEF QueueInv, Phases, IsQueued
<1>12. IrqPhases'
  BY <1>1, <1>2, <1>3 DEF QueueInv, IrqPhases, Irq, Phases
<1>13. ASSUME SteadyUse, SteadyInv
       PROVE  SteadyInv'
  <2>1. state'[current] = "halted" => current' = Idle
    BY <1>1, <1>2, <1>3, <1>13 DEF SteadyInv, Places, perform_exregs, Resumes, Halts
  <2>2. alive' = Threads
    BY <1>1, <1>2, <1>3, <1>13, <2>1 DEF SteadyInv
  <2>3. NoAssertionFails'
    BY <1>1, <1>2, <1>3, <1>13, <2>1 DEF perform_exregs, SteadyInv, NoAssertionFails
  <2>4. Places'
    BY <1>1, <1>2, <1>3, <1>13, <2>1 DEF SteadyInv, Places, Purposes, Irq, QueueInv, Phases
  <2>5. Purposes'
    BY <1>1, <1>2, <1>3, <1>13, <2>1 DEF SteadyInv, Purposes, Irq
  <2>6. Partners'
    BY <1>1, <1>2, <1>3, <1>13, <2>1 DEF SteadyInv, Partners, QueueInv, Phases
  <2>7. Registered'
    BY <1>1, <1>2, <1>3, <1>13, <2>1 DEF SteadyInv, Registered, Told, is_waiting, Places, QueueInv, Phases
  <2>8. Meeting'
    BY <1>1, <1>2, <1>3, <1>13, <2>1 DEF SteadyInv, Meeting, Asked, is_waiting, QueueInv, Phases, Receivers, Committed
  <2>9. Locked'
    BY <1>1, <1>2, <1>3, <1>13, <2>1 DEF SteadyInv, Locked, Places, QueueInv, Phases
  <2>10. NoneMissed'
    BY <1>1, <1>2, <1>3, <1>13, <2>1 DEF SteadyInv, NoneMissed, Asked, Told, is_waiting, Places, QueueInv, Phases
  <2> QED BY <2>2, <2>3, <2>4, <2>5, <2>6, <2>7, <2>8, <2>9, <2>10 DEF SteadyInv
<1> QED BY <1>4, <1>5, <1>6, <1>7, <1>8, <1>9, <1>10, <1>11, <1>12, <1>13 DEF QueueInv

\* Exchanging the registers of a thread keeps the queues.
LEMMA ExchangeRegistersKeeps ==
  ASSUME PlainUse, QueueInv, NEW t \in Threads, ExchangeRegisters(t)
  PROVE  QueueInv' /\ (SteadyUse /\ SteadyInv => SteadyInv')
<1>1. IInv'
  BY NextIInv DEF QueueInv, Next
<1>2. PICK d \in alive, c \in Controls : Space[d] = Space[t] /\ perform_exregs(d, c)
  BY DEF ExchangeRegisters
<1>3. current = t /\ pc[t] = "user"
  BY DEF ExchangeRegisters, AtUser
<1>4. ~Irq(d)
  BY <1>2, <1>3 DEF QueueInv, IInv, TypeOK, IrqPhases, Irq
<1>5. CASE IsAborted(state[d], c)
  BY <1>1, <1>2, <1>3, <1>4, <1>5, AbortKeeps
<1>6. CASE ~IsAborted(state[d], c)
  BY <1>1, <1>2, <1>3, <1>4, <1>6, HaltKeeps
<1> QED BY <1>5, <1>6

\* A deleted thread leaves every queue.
LEMMA DeleteThreadKeeps ==
  ASSUME PlainUse,
         QueueInv,
         NEW t \in Threads,
         DeleteThread(t)
  PROVE  QueueInv' /\ (SteadyUse /\ SteadyInv => SteadyInv')
<1>1. IInv'
  BY NextIInv DEF QueueInv, Next
<1>2. PICK d \in alive \ {t} : UsualDelete(d) /\ delete_tcb(d)
  BY DEF DeleteThread
<1>3. current = t /\ pc[t] = "user" /\ t \in alive
  BY CurrentAlive DEF DeleteThread, AtUser
<1>4. /\ d \in Threads /\ d # t /\ sendq[d] = <<>> /\ pc[d] # "timeout"
      /\ state[d] \in ThreadStates /\ state[d] \notin {"locked_running", "locked_waiting"}
  BY <1>2 DEF UsualDelete, PlainUse, Does, QueueInv, IInv, TypeOK
<1>5. /\ Aborted(d, state[d]) = {} /\ UnwoundPartner(d) = partner /\ UnwoundSstate(d) = sstate
      /\ \A x \in Threads : UnwoundSpartner(d)[x] = Nil
      /\ \A x \in Threads : UnwoundSendq(d, state[d])[x] =
           IF state[d] = "polling" /\ x = partner[d] THEN Without(sendq[x], d) ELSE sendq[x]
      /\ UnwoundWakeup(d, state[d]) = IF NotStarted(state[d]) THEN wakeup \ {d} ELSE wakeup
  BY <1>4, UnwindEffect DEF QueueInv, IInv
<1>6. /\ \A x \in Threads : spartner'[x] = Nil
      /\ ready' = ready \ {d} /\ alive' = alive \ {d}
      /\ UNCHANGED <<current, partner, sstate, arg, outer, xfer, tstate>>
  BY <1>2, <1>5 DEF delete_tcb, QueueInv, Untyped
<1>7. \A x \in Threads : /\ pc'[x] = pc[x]
                         /\ state'[x] = IF x = d THEN "aborted" ELSE state[x]
  BY <1>2, <1>5 DEF delete_tcb
<1>8. wakeup' = wakeup \ {d}
  <2>1. CASE NotStarted(state[d])
    BY <1>2, <1>5, <2>1 DEF delete_tcb, NotStarted, is_waiting, is_sending, is_receiving
  <2>2. CASE ~NotStarted(state[d])
    <3>1. d \notin wakeup
      BY <1>3, <1>4, <2>2 DEF QueueInv, Pending, NotStarted, is_waiting, DeleteThread, Does, PlainUse
    <3> QED BY <1>2, <1>5, <2>2, <3>1 DEF delete_tcb
  <2> QED BY <2>1, <2>2
<1>9. \A x \in Threads : sendq'[x] =
        IF state[d] = "polling" /\ x = partner[d] THEN Without(sendq[x], d) ELSE sendq[x]
  <2>1. state[d] = "polling" => partner[d] # d
    BY <1>4 DEF QueueInv, Phases, Untyped, GoodArg
  <2>2. CASE state[d] = "polling"
    BY <1>2, <1>4, <1>5, <2>1, <2>2 DEF delete_tcb, is_sending, UnwoundSendq, QueueInv, IInv, TypeOK
  <2>3. CASE state[d] # "polling"
    BY <1>2, <1>4, <1>5, <2>3 DEF delete_tcb, UnwoundSendq, QueueInv, IInv, TypeOK
  <2> QED BY <2>2, <2>3
<1>10. Untyped'
  BY <1>1, <1>2, <1>3, <1>4, <1>5, <1>6, <1>7, <1>8, <1>9 DEF QueueInv, Untyped
<1>11. SavedStates'
  BY <1>1, <1>2, <1>3, <1>4, <1>5, <1>6, <1>7, <1>8, <1>9 DEF QueueInv, SavedStates, IInv, TypeOK
<1>12. Living'
  <2>1. state[d] = "polling" /\ partner[d] \in Threads => partner[d] \in alive
    BY <1>4 DEF QueueInv, SendQueueExact, IsQueued, Living, Range
  <2>2. state[d] = "polling" => partner[d] # d
    BY <1>4 DEF QueueInv, Phases, Untyped, GoodArg
  <2> QED BY <1>3, <1>4, <1>6, <1>7, <1>9, <2>1, <2>2 DEF QueueInv, Living
<1>13. Phases'
  BY <1>1, <1>2, <1>3, <1>4, <1>5, <1>6, <1>7, <1>8, <1>9 DEF QueueInv, Phases
<1>14. Receivers'
  BY <1>1, <1>2, <1>3, <1>4, <1>5, <1>6, <1>7, <1>8, <1>9 DEF QueueInv, Receivers, Phases, Committed, is_receiving
<1>15. Pending'
  BY <1>1, <1>2, <1>3, <1>4, <1>5, <1>6, <1>7, <1>8, <1>9 DEF QueueInv, Pending, Phases
<1>16. TimeoutArmed'
  BY <1>1, <1>2, <1>3, <1>4, <1>5, <1>6, <1>7, <1>8, <1>9 DEF QueueInv, TimeoutArmed, Phases
<1>17. SendQueueExact'
  <2>1. \A x \in Threads : IsQueued(x)' <=> IsQueued(x) /\ x # d
    BY <1>4, <1>6, <1>7 DEF QueueInv, Phases, IsQueued
  <2>2. IsQueued(d) <=> state[d] = "polling"
    BY <1>4 DEF QueueInv, Phases, IsQueued
  <2> QED BY <1>4, <1>6, <1>9, <2>1, <2>2, LeaveQueue DEF QueueInv, IInv
<1>18. IrqPhases'
  BY <1>6, <1>7 DEF DeleteThread, Does, QueueInv, IrqPhases, Irq
<1>19. ASSUME SteadyUse, SteadyInv
       PROVE  SteadyInv'
  BY <1>1, <1>2, <1>3, <1>4, <1>5, <1>6, <1>7, <1>8, <1>9, <1>19 DEF DeleteThread, Does, SteadyUse
<1> QED BY <1>1, <1>10, <1>11, <1>12, <1>13, <1>14, <1>15, <1>16, <1>17, <1>18, <1>19 DEF QueueInv

\* A new thread takes over a control block that is in no queue.
LEMMA CreateThreadKeeps ==
  ASSUME PlainUse,
         QueueInv,
         NEW t \in Threads,
         CreateThread(t)
  PROVE  QueueInv' /\ (SteadyUse /\ SteadyInv => SteadyInv')
<1>1. IInv'
  BY NextIInv DEF QueueInv, Next
<1>2. current = t /\ pc[t] = "user" /\ t \in alive
  BY CurrentAlive DEF CreateThread, AtUser
<1>3. PICK d \in Threads \ alive :
        /\ state' = [state EXCEPT ![d] = "waiting_forever"]
        /\ partner' = [partner EXCEPT ![d] = Pager[d]]
        /\ sstate' = [sstate EXCEPT ![d] = "running"] /\ spartner' = [spartner EXCEPT ![d] = Nil]
        /\ ready' = ready \ {d} /\ wakeup' = wakeup \ {d} /\ sendq' = [sendq EXCEPT ![d] = <<>>]
        /\ pc' = [pc EXCEPT ![d] = "startup"] /\ arg' = [arg EXCEPT ![d] = NoArg]
        /\ outer' = [outer EXCEPT ![d] = NoArg] /\ tstate' = [tstate EXCEPT ![d] = "running"]
        /\ alive' = alive \cup {d} /\ UNCHANGED <<current, xfer>>
  BY DEF CreateThread
<1>4. state[d] = "aborted" /\ pc[d] # "timeout" /\ sendq[d] = <<>> /\ d \notin wakeup /\ d # t
  BY <1>2 DEF QueueInv, Living, Pending
<1>5. \A x \in Threads : /\ state'[x] = IF x = d THEN "waiting_forever" ELSE state[x]
                         /\ x # d => partner'[x] = partner[x]
                         /\ sstate'[x] = IF x = d THEN "running" ELSE sstate[x]
                         /\ spartner'[x] = IF x = d THEN Nil ELSE spartner[x]
                         /\ pc'[x] = IF x = d THEN "startup" ELSE pc[x]
                         /\ arg'[x] = IF x = d THEN NoArg ELSE arg[x]
                         /\ outer'[x] = IF x = d THEN NoArg ELSE outer[x]
                         /\ tstate'[x] = IF x = d THEN "running" ELSE tstate[x]
  BY <1>3 DEF QueueInv, IInv, TypeOK
<1>6. UNCHANGED <<sendq, wakeup>>
  BY <1>3, <1>4 DEF QueueInv, IInv, TypeOK
<1>7. GoodArg(d, NoArg) /\ NoArg.kind = "none" /\ NoArg.to = Nil
  BY KernelArgs
<1>8. current' = current /\ xfer' = xfer /\ ready' = ready \ {d} /\ alive' = alive \cup {d}
  BY <1>3
<1>9. Untyped'
  BY <1>1, <1>2, <1>3, <1>4, <1>5, <1>6, <1>7, <1>8 DEF QueueInv, Untyped
<1>10. SavedStates'
  BY <1>1, <1>2, <1>3, <1>4, <1>5, <1>6, <1>7, <1>8 DEF QueueInv, SavedStates, IInv, TypeOK
<1>11. Living'
  BY <1>1, <1>2, <1>3, <1>4, <1>5, <1>6, <1>7, <1>8 DEF QueueInv, Living, Phases
<1>12. Phases'
  BY <1>1, <1>2, <1>3, <1>4, <1>5, <1>6, <1>7, <1>8 DEF QueueInv, Phases
<1>13. Receivers'
  BY <1>1, <1>2, <1>3, <1>4, <1>5, <1>6, <1>7, <1>8 DEF QueueInv, Receivers, Phases, Committed, is_receiving
<1>14. Pending'
  BY <1>1, <1>2, <1>3, <1>4, <1>5, <1>6, <1>7, <1>8 DEF QueueInv, Pending, Phases
<1>15. TimeoutArmed'
  BY <1>1, <1>2, <1>3, <1>4, <1>5, <1>6, <1>7, <1>8 DEF QueueInv, TimeoutArmed, Phases
<1>16. SendQueueExact'
  BY <1>1, <1>2, <1>3, <1>4, <1>5, <1>6, <1>7, <1>8, SameQueues DEF QueueInv, Phases, IsQueued
<1>17. IrqPhases'
  BY <1>5 DEF CreateThread, Does, QueueInv, IrqPhases, Irq
<1>18. ASSUME SteadyUse, SteadyInv
       PROVE  SteadyInv'
  BY <1>1, <1>2, <1>3, <1>4, <1>5, <1>6, <1>7, <1>8, <1>18 DEF CreateThread, Does, SteadyUse
<1> QED BY <1>1, <1>9, <1>10, <1>11, <1>12, <1>13, <1>14, <1>15, <1>16, <1>17, <1>18 DEF QueueInv

\* Between system calls queued and waiting threads have timeouts pending, and those
\* that were left one; when it expires the former run handle_ipc_timeout.
LEMMA ExpireEffect ==
  ASSUME QueueInv, \A x \in Threads : x = current => pc[x] = "user",
         NEW exp \in SUBSET wakeup, parse_wakeup_queues(exp)
  PROVE  /\ Woken(exp) = exp /\ exp \subseteq alive
         /\ \A x \in wakeup : \/ pc[x] = "polled" /\ state[x] = "polling"
                              \/ pc[x] = "rcvwait" /\ state[x] \in {"waiting_timeout", "running", "halted"}
         /\ \A x \in Threads : /\ state'[x] = IF x \in exp THEN "running" ELSE state[x]
                               /\ WokenState(exp)[x] = state'[x]
                               /\ pc'[x] = IF x \in exp /\ NotStarted(state[x]) THEN "timeout" ELSE pc[x]
                               /\ tstate'[x] = IF x \in exp /\ NotStarted(state[x]) THEN state[x] ELSE tstate[x]
         /\ wakeup' = wakeup \ exp /\ xfer' = {} /\ WokenState(exp) \in [Threads -> ThreadStates]
<1>1. wakeup \subseteq Threads /\ xfer = {} /\ state \in [Threads -> ThreadStates]
  BY DEF QueueInv, Untyped, IInv, TypeOK
<1>2. \A x \in wakeup : \/ pc[x] = "polled" /\ state[x] = "polling"
                        \/ pc[x] = "rcvwait" /\ state[x] \in {"waiting_timeout", "running", "halted"}
  BY <1>1 DEF QueueInv, Pending
<1>3. Woken(exp) = exp /\ exp \subseteq alive
  BY <1>1, <1>2 DEF Woken, QueueInv, Living
<1>4. Notified(exp) = {x \in exp : NotStarted(state[x])}
  BY <1>2, <1>3 DEF Notified, is_sending, is_receiving, NotStarted, is_waiting
<1> QED BY <1>1, <1>2, <1>3, <1>4, Values DEF parse_wakeup_queues, WokenState

\* A timer tick: a queued sender whose timeout expires stays in its queue until it runs.
LEMMA TickKeeps ==
  ASSUME QueueInv,
         IInv',
         \A x \in Threads : x = current => pc[x] = "user",
         NEW exp \in SUBSET wakeup,
         parse_wakeup_queues(exp),
         ready' \subseteq alive,
         current' = Idle \/ (current' \in alive /\ (current' = current \/ is_runnable(state'[current']))),
         UNCHANGED <<partner, sstate, spartner, sendq, arg, outer, alive, failed>>
  PROVE  QueueInv' /\ (SteadyUse /\ SteadyInv => SteadyInv')
<1>1. /\ exp \subseteq alive
      /\ \A x \in wakeup : \/ pc[x] = "polled" /\ state[x] = "polling"
                           \/ pc[x] = "rcvwait" /\ state[x] \in {"waiting_timeout", "running", "halted"}
      /\ \A x \in Threads : /\ state'[x] = IF x \in exp THEN "running" ELSE state[x]
                            /\ pc'[x] = IF x \in exp /\ NotStarted(state[x]) THEN "timeout" ELSE pc[x]
                            /\ tstate'[x] = IF x \in exp /\ NotStarted(state[x]) THEN state[x] ELSE tstate[x]
      /\ wakeup' = wakeup \ exp /\ xfer' = {}
  BY ExpireEffect
<1>2. /\ \A x \in Threads : x = current' => state'[x] \notin {"polling", "locked_waiting"}
      /\ \A x \in Threads : NotStarted(state[x]) <=>
           state[x] \in {"polling", "waiting_timeout", "waiting_forever"}
  BY <1>1, TcbAssumption DEF is_runnable, RunnableStates, NotStarted, is_waiting, QueueInv, Phases, IInv, TypeOK
<1>3. wakeup \subseteq Threads /\ Idle \notin Threads
  BY TcbAssumption DEF QueueInv, IInv, TypeOK
<1>4. Untyped'
  BY <1>1, <1>2, <1>3 DEF QueueInv, Untyped
<1>5. SavedStates'
  BY <1>1, <1>2, <1>3 DEF QueueInv, SavedStates, IInv, TypeOK
<1>6. Living'
  BY <1>1, <1>2, <1>3 DEF QueueInv, Living, Phases
<1>7. Phases'
  BY <1>1, <1>2, <1>3 DEF QueueInv, Phases
<1>8. Receivers'
  BY <1>1, <1>2, <1>3 DEF QueueInv, Receivers, Phases, Committed, is_receiving
<1>9. Pending'
  BY <1>1, <1>2, <1>3 DEF QueueInv, Pending, Phases
<1>10. TimeoutArmed'
  BY <1>1, <1>2, <1>3 DEF QueueInv, TimeoutArmed, Phases
<1>11. SendQueueExact'
  BY <1>1, <1>2, <1>3, SameQueues DEF QueueInv, Phases, IsQueued
<1>12. IrqPhases'
  BY <1>1, <1>2, <1>3 DEF QueueInv, IrqPhases, Irq, Phases, is_runnable, RunnableStates
<1>13. ASSUME SteadyUse, SteadyInv
       PROVE  SteadyInv'
  <2>1. \A x \in Threads : x = current' => state'[x] # "halted"
    BY <1>1, <1>2, <1>3, <1>13 DEF is_runnable, RunnableStates, SteadyInv, Places
  <2>2. alive' = Threads
    BY <1>1, <1>2, <1>3, <1>13, <2>1 DEF SteadyInv
  <2>3. NoAssertionFails'
    BY <1>1, <1>2, <1>3, <1>13, <2>1 DEF vars, SteadyInv, NoAssertionFails
  <2>4. Places'
    BY <1>1, <1>2, <1>3, <1>13, <2>1 DEF SteadyInv, Places, Purposes, Irq, QueueInv, Phases
  <2>5. Purposes'
    BY <1>1, <1>2, <1>3, <1>13, <2>1 DEF SteadyInv, Purposes, Irq
  <2>6. Partners'
    BY <1>1, <1>2, <1>3, <1>13, <2>1 DEF SteadyInv, Partners, QueueInv, Phases, IInv, ArgOK
  <2>7. Registered'
    BY <1>1, <1>2, <1>3, <1>13, <2>1 DEF SteadyInv, Registered, Told, is_waiting, Places, QueueInv, Phases
  <2>8. Meeting'
    BY <1>1, <1>2, <1>3, <1>13, <2>1 DEF SteadyInv, Meeting, Asked, is_waiting, QueueInv, Phases, Receivers, Committed
  <2>9. Locked'
    BY <1>1, <1>2, <1>3, <1>13, <2>1 DEF SteadyInv, Locked, Places, QueueInv, Phases
  <2>10. NoneMissed'
    BY <1>1, <1>2, <1>3, <1>13, <2>1 DEF SteadyInv, NoneMissed, Asked, Told, is_waiting, Places, QueueInv, Phases
  <2> QED BY <2>2, <2>3, <2>4, <2>5, <2>6, <2>7, <2>8, <2>9, <2>10 DEF SteadyInv
<1> QED BY <1>4, <1>5, <1>6, <1>7, <1>8, <1>9, <1>10, <1>11, <1>12, <1>13 DEF QueueInv

\* The timer interrupt keeps the queues.
LEMMA TimerKeeps ==
  ASSUME PlainUse, QueueInv, NEW t \in Threads, Timer(t)
  PROVE  QueueInv' /\ (SteadyUse /\ SteadyInv => SteadyInv')
<1>1. IInv'
  BY NextIInv DEF QueueInv, Next
<1>2. PICK exp \in SUBSET wakeup :
        /\ parse_wakeup_queues(exp)
        /\ \/ /\ ready' = ready \cup Woken(exp)
              /\ UNCHANGED current
           \/ /\ current' \in Preempting(t, exp)
              /\ ready' = ready \cup Woken(exp) \cup {t}
           \/ schedule(t, ready \cup Woken(exp) \cup {t}, WokenState(exp))
  BY DEF Timer
<1>3. current = t /\ pc[t] = "user" /\ UNCHANGED <<partner, sstate, spartner, sendq, arg, outer, alive, failed>>
  BY DEF Timer, AtUser
<1>4. t \in alive
  BY <1>3, CurrentAlive
<1>5. /\ Woken(exp) = exp /\ exp \subseteq alive /\ WokenState(exp) \in [Threads -> ThreadStates]
      /\ \A x \in Threads : /\ state'[x] = IF x \in exp THEN "running" ELSE state[x]
                            /\ WokenState(exp)[x] = state'[x]
  BY <1>2, <1>3, ExpireEffect
<1>6. ready \subseteq alive /\ alive \subseteq Threads /\ exp \subseteq Threads
  BY DEF QueueInv, Living, IInv, TypeOK
<1>7. /\ ready' \subseteq alive
      /\ current' = Idle \/ (current' \in alive /\ (current' = current \/ is_runnable(state'[current'])))
  <2>1. CASE ready' = ready \cup Woken(exp) /\ UNCHANGED current
    BY <1>3, <1>4, <1>5, <1>6, <2>1
  <2>2. CASE current' \in Preempting(t, exp) /\ ready' = ready \cup Woken(exp) \cup {t}
    BY <1>4, <1>5, <1>6, <2>2 DEF Preempting, is_runnable, RunnableStates
  <2>3. CASE schedule(t, ready \cup Woken(exp) \cup {t}, WokenState(exp))
    <3> DEFINE rs == ready \cup Woken(exp) \cup {t}
    <3>1. rs \subseteq alive /\ rs \in SUBSET Threads /\ t \in rs
      BY <1>4, <1>5, <1>6
    <3>2. schedule(t, rs, WokenState(exp))
      BY <2>3
    <3> HIDE DEF rs
    <3>3. ready' \subseteq rs /\ (current' = Idle \/ (current' \in rs /\ is_runnable(WokenState(exp)[current'])))
      BY <1>5, <3>1, <3>2, ScheduleEffect
    <3> QED BY <1>5, <3>1, <3>3
  <2> QED BY <1>2, <2>1, <2>2, <2>3
<1> QED BY <1>1, <1>2, <1>3, <1>7, TickKeeps

\* The timer interrupt in the idle thread keeps the queues.
LEMMA TimerIdleKeeps ==
  ASSUME PlainUse, QueueInv, TimerIdle
  PROVE  QueueInv' /\ (SteadyUse /\ SteadyInv => SteadyInv')
<1>1. IInv'
  BY NextIInv DEF QueueInv, Next
<1>2. PICK exp \in SUBSET wakeup : parse_wakeup_queues(exp) /\ ready' = ready \cup Woken(exp)
  BY DEF TimerIdle
<1>3. /\ current = Idle /\ current' = Idle /\ Idle \notin Threads
      /\ UNCHANGED <<partner, sstate, spartner, sendq, arg, outer, alive, failed>>
  BY TcbAssumption DEF TimerIdle
<1>4. Woken(exp) = exp /\ exp \subseteq alive
  BY <1>2, <1>3, ExpireEffect
<1>5. ready' \subseteq alive
  BY <1>2, <1>4 DEF QueueInv, Living
<1> QED BY <1>1, <1>2, <1>3, <1>5, TickKeeps

\* Another thread runs, and nothing else changes.
LEMMA SwitchKeeps ==
  ASSUME QueueInv,
         IInv',
         \A x \in Threads : x = current => pc[x] = "user",
         ready' \subseteq alive,
         current' = Idle \/ (current' \in alive /\ is_runnable(state[current'])),
         UNCHANGED <<state, partner, sstate, spartner, wakeup, sendq, pc, arg, outer, xfer, tstate, alive, failed>>
  PROVE  QueueInv' /\ (SteadyUse /\ SteadyInv => SteadyInv')
<1>1. /\ \A x \in Threads : x = current' => state[x] \notin {"polling", "locked_waiting"}
      /\ Idle \notin Threads
  BY TcbAssumption DEF is_runnable, RunnableStates, QueueInv, IInv, TypeOK
<1>2. Untyped'
  BY <1>1 DEF QueueInv, Untyped
<1>3. SavedStates'
  BY <1>1 DEF QueueInv, SavedStates, IInv, TypeOK
<1>4. Living'
  BY <1>1 DEF QueueInv, Living, Phases
<1>5. Phases'
  BY <1>1 DEF QueueInv, Phases
<1>6. Receivers'
  BY <1>1 DEF QueueInv, Receivers, Phases, Committed, is_receiving
<1>7. Pending'
  BY <1>1 DEF QueueInv, Pending, Phases
<1>8. TimeoutArmed'
  BY <1>1 DEF QueueInv, TimeoutArmed, Phases
<1>9. SendQueueExact'
  BY <1>1, SameQueues DEF QueueInv, Phases, IsQueued
<1>10. IrqPhases'
  BY <1>1 DEF QueueInv, IrqPhases, Irq, Phases, is_runnable, RunnableStates
<1>11. ASSUME SteadyUse, SteadyInv
       PROVE  SteadyInv'
  <2>1. \A x \in Threads : x = current' => state'[x] # "halted"
    BY <1>1, <1>11 DEF is_runnable, RunnableStates, SteadyInv, Places
  <2>2. alive' = Threads
    BY <1>1, <1>11, <2>1 DEF SteadyInv
  <2>3. NoAssertionFails'
    BY <1>1, <1>11, <2>1 DEF vars, SteadyInv, NoAssertionFails
  <2>4. Places'
    BY <1>1, <1>11, <2>1 DEF SteadyInv, Places, Purposes, Irq, QueueInv, Phases
  <2>5. Purposes'
    BY <1>1, <1>11, <2>1 DEF SteadyInv, Purposes, Irq
  <2>6. Partners'
    BY <1>1, <1>11, <2>1 DEF SteadyInv, Partners, QueueInv, Phases
  <2>7. Registered'
    BY <1>1, <1>11, <2>1 DEF SteadyInv, Registered, Told, is_waiting, Places, QueueInv, Phases
  <2>8. Meeting'
    BY <1>1, <1>11, <2>1 DEF SteadyInv, Meeting, Asked, is_waiting, QueueInv, Phases, Receivers, Committed
  <2>9. Locked'
    BY <1>1, <1>11, <2>1 DEF SteadyInv, Locked, Places, QueueInv, Phases
  <2>10. NoneMissed'
    BY <1>1, <1>11, <2>1 DEF SteadyInv, NoneMissed, Asked, Told, is_waiting, Places, QueueInv, Phases
  <2> QED BY <2>2, <2>3, <2>4, <2>5, <2>6, <2>7, <2>8, <2>9, <2>10 DEF SteadyInv
<1> QED BY <1>2, <1>3, <1>4, <1>5, <1>6, <1>7, <1>8, <1>9, <1>10, <1>11 DEF QueueInv

\* Switching to another thread keeps the queues.
LEMMA ThreadSwitchKeeps ==
  ASSUME PlainUse, QueueInv, NEW t \in Threads, ThreadSwitch(t)
  PROVE  QueueInv' /\ (SteadyUse /\ SteadyInv => SteadyInv')
<1>1. IInv'
  BY NextIInv DEF QueueInv, Next
<1>2. /\ current = t /\ pc[t] = "user"
      /\ UNCHANGED <<state, partner, sstate, spartner, wakeup, sendq, pc, arg, outer, xfer, tstate, alive, failed>>
  BY DEF ThreadSwitch, AtUser
<1>3. ready \cup {t} \subseteq alive /\ ready \cup {t} \in SUBSET Threads /\ state \in [Threads -> ThreadStates]
  BY <1>2, CurrentAlive DEF QueueInv, Living, IInv, TypeOK
<1>4. ready' \subseteq alive /\ (current' = Idle \/ (current' \in alive /\ is_runnable(state[current'])))
  <2>1. CASE current' \in Donees(t) /\ ready' = Enqueued(t)
    BY <1>3, <2>1 DEF Donees, Enqueued
  <2>2. CASE schedule(t, ready \cup {t}, state)
    BY <1>3, <2>2, ScheduleEffect
  <2> QED BY <2>1, <2>2 DEF ThreadSwitch
<1> QED BY <1>1, <1>2, <1>4, SwitchKeeps

\* So does a round of the idle thread.
LEMMA IdleScheduleKeeps ==
  ASSUME PlainUse, QueueInv, IdleSchedule
  PROVE  QueueInv' /\ (SteadyUse /\ SteadyInv => SteadyInv')
<1>1. IInv'
  BY NextIInv DEF QueueInv, Next
<1>2. /\ current = Idle /\ schedule(Idle, ready, state)
      /\ UNCHANGED <<state, partner, sstate, spartner, wakeup, sendq, pc, arg, outer, xfer, tstate, alive, failed>>
  BY DEF IdleSchedule
<1>3. ready \subseteq alive /\ ready \in SUBSET Threads /\ state \in [Threads -> ThreadStates]
  BY DEF QueueInv, Living, IInv, TypeOK
<1>4. ready' \subseteq alive /\ (current' = Idle \/ (current' \in alive /\ is_runnable(state[current'])))
  BY <1>2, <1>3, ScheduleEffect
<1> QED BY <1>1, <1>2, <1>4, SwitchKeeps, TcbAssumption

-----------------------------------------------------------------------------
(* Theorems *)

\* Initially no thread is queued, blocked or deleted.
LEMMA QueueInit == Init => QueueInv
<1> SUFFICES ASSUME Init PROVE QueueInv
  OBVIOUS
<1>1. IInv
  BY InitIInv
<1>2. \A t \in Threads : GoodArg(t, NoArg) /\ NoArg.kind = "none"
  BY KernelArgs
<1>3. Untyped /\ SavedStates /\ Living /\ Phases /\ IrqPhases
  BY <1>2 DEF Init, Untyped, SavedStates, Living, Phases, IrqPhases, Irq
<1>4. Receivers /\ Pending /\ TimeoutArmed /\ SendQueueExact
  BY DEF Init, Receivers, Committed, Pending, TimeoutArmed, SendQueueExact, IsQueued, Range
<1> QED BY <1>1, <1>3, <1>4 DEF QueueInv

\* All threads exist, run at user level and take no part in an IPC.
LEMMA SteadyInit == Init => SteadyInv
<1> SUFFICES ASSUME Init PROVE SteadyInv
  OBVIOUS
<1>1. Threads = {} \/ (NoArg.kind = "none" /\ NoArg.snd = "never" /\ NoArg.to = Nil)
  BY KernelArgs
<1>2. NoAssertionFails /\ Places /\ Purposes /\ Partners
  BY <1>1, TcbAssumption DEF Init, NoAssertionFails, Places, Purposes, Irq, Partners
<1>3. Registered /\ Meeting /\ Locked /\ NoneMissed
  BY DEF Init, Registered, Meeting, Locked, NoneMissed, is_waiting
<1> QED BY <1>2, <1>3 DEF Init, SteadyInv

\* Every step of a plain use keeps the invariant of the queues, and of a steady one
\* both invariants.
LEMMA EveryStep ==
  ASSUME PlainUse
  PROVE  QueueInv /\ [Next]_vars => QueueInv' /\ (SteadyUse /\ SteadyInv => SteadyInv')
<1> SUFFICES ASSUME QueueInv, [Next]_vars
             PROVE  QueueInv' /\ (SteadyUse /\ SteadyInv => SteadyInv')
  OBVIOUS
<1>1. ASSUME NEW t \in Threads, IpcNext(t)
      PROVE  QueueInv' /\ (SteadyUse /\ SteadyInv => SteadyInv')
  BY <1>1, SysIpcKeeps, PageFaultKeeps, SendNonExistingKeeps, SendReadyKeeps, SendZeroTimeoutKeeps,
     SendBlockKeeps, SendResumeKeeps, TransferKeeps, NoCopy, SendDoneKeeps, RecvSpecialKeeps,
     RecvNonExistingKeeps, RecvZeroTimeoutKeeps, RecvBlockKeeps, RecvPartnerKeeps, RecvResumeKeeps,
     ThreadStartupKeeps, HandleIpcErrorKeeps, HandleIpcTimeoutKeeps DEF IpcNext
<1>2. ASSUME NEW t \in Threads,
             \/ ExchangeRegisters(t) \/ Timer(t) \/ ThreadSwitch(t)
             \/ DeleteThread(t) \/ CreateThread(t)
      PROVE  QueueInv' /\ (SteadyUse /\ SteadyInv => SteadyInv')
  BY <1>2, ExchangeRegistersKeeps, TimerKeeps, ThreadSwitchKeeps, DeleteThreadKeeps, CreateThreadKeeps
<1>3. CASE TimerIdle \/ IdleSchedule
  BY <1>3, TimerIdleKeeps, IdleScheduleKeeps
<1>4. CASE UNCHANGED vars
  <2>1. IInv'
    BY NextIInv DEF QueueInv
  <2>2. Untyped' /\ SavedStates' /\ Living' /\ Phases'
    BY <1>4 DEF QueueInv, vars, Untyped, SavedStates, Living, Phases
  <2>3. Receivers' /\ Pending' /\ TimeoutArmed' /\ IrqPhases'
    BY <1>4 DEF QueueInv, vars, Receivers, Committed, Pending, TimeoutArmed, IrqPhases, Irq
  <2>4. SendQueueExact'
    BY <1>4, SameQueues DEF QueueInv, vars, IsQueued
  <2>5. SteadyInv => SteadyInv'
    <3> SUFFICES ASSUME SteadyInv PROVE SteadyInv'
      OBVIOUS
    <3>1. alive' = Threads /\ NoAssertionFails' /\ Places' /\ Purposes' /\ Partners'
      BY <1>4 DEF SteadyInv, vars, NoAssertionFails, Places, Purposes, Irq, Partners, QueueInv, Phases
    <3>2. Registered' /\ Meeting' /\ Locked' /\ NoneMissed'
      BY <1>4 DEF SteadyInv, vars, Registered, Meeting, Locked, NoneMissed, Told, Asked
    <3> QED BY <3>1, <3>2 DEF SteadyInv
  <2> QED BY <2>1, <2>2, <2>3, <2>4, <2>5 DEF QueueInv
<1> QED BY <1>1, <1>2, <1>3, <1>4 DEF Next

\* The invariant of the queues holds in every state of a plain use.
LEMMA QueueInvariant ==
  ASSUME PlainUse
  PROVE  Spec => []QueueInv
<1>1. QueueInv /\ [Next]_vars => QueueInv'
  BY EveryStep
<1> QED BY <1>1, QueueInit, PTL DEF Spec

\* And so does that of a steady use.
LEMMA SteadyInvariant ==
  ASSUME PlainUse, SteadyUse
  PROVE  Spec => [](QueueInv /\ SteadyInv)
<1>1. (QueueInv /\ SteadyInv) /\ [Next]_vars => (QueueInv /\ SteadyInv)'
  BY EveryStep
<1>2. Init => QueueInv /\ SteadyInv
  BY QueueInit, SteadyInit
<1> QED BY <1>1, <1>2, PTL DEF Spec

\* A send queue holds exactly the threads that poll on its owner, were accepted by it
\* or timed out, once each: whatever send, receive, timeout, abort, halt, deletion and
\* creation interleave (enqueue_send and dequeue_send in ipc.cc and thread.cc).
THEOREM SendQueuesAreExact ==
  ASSUME PlainUse
  PROVE  Spec => []SendQueueExact
<1>1. QueueInv => SendQueueExact
  BY DEF QueueInv
<1> QED BY <1>1, QueueInvariant, PTL

\* A thread that waits with a timeout has it pending (set_timeout before the switch).
THEOREM TimeoutsAreArmed ==
  ASSUME PlainUse
  PROVE  Spec => []TimeoutArmed
<1>1. QueueInv => TimeoutArmed
  BY DEF QueueInv
<1> QED BY <1>1, QueueInvariant, PTL

\* No timeout stays pending for a thread that is ready or stopped: the kernel cancels
\* it before, or the thread cancels it as the first thing it does.
THEOREM NoTimeoutIsStale ==
  ASSUME PlainUse, ~LeavesTimeouts
  PROVE  Spec => []NoStaleTimeout
<1>1. QueueInv => NoStaleTimeout
  BY DEF QueueInv, IInv, TypeOK, Pending, NoStaleTimeout, is_runnable, RunnableStates
<1> QED BY <1>1, QueueInvariant, PTL

\* delete_tcb leaves the deleted thread in no queue of the kernel.
THEOREM DeletedThreadsLeaveQueues ==
  ASSUME PlainUse
  PROVE  Spec => []DeletedLeavesQueues
<1>1. ASSUME QueueInv, NEW d \in Threads \ alive
      PROVE  d \notin ready \cup wakeup /\ \A r \in Threads : d \notin Range(sendq[r])
  <2>1. state[d] = "aborted" /\ pc[d] # "timeout" /\ d \notin ready
    BY <1>1 DEF QueueInv, Living
  <2>2. d \notin wakeup
    BY <1>1, <2>1 DEF QueueInv, Pending
  <2>3. ~IsQueued(d)
    BY <2>1 DEF IsQueued
  <2> QED BY <1>1, <2>1, <2>2, <2>3 DEF QueueInv, SendQueueExact
<1>2. QueueInv => DeletedLeavesQueues
  BY <1>1 DEF DeletedLeavesQueues
<1> QED BY <1>2, QueueInvariant, PTL

\* At user level a thread has no saved state: the next save_state finds the place free.
THEOREM SavedStatesAreClean ==
  ASSUME PlainUse
  PROVE  Spec => []SavedStateClean
<1>1. QueueInv => SavedStateClean
  BY DEF QueueInv, SavedStates, Untyped, IInv, TypeOK, SavedStateClean
<1> QED BY <1>1, QueueInvariant, PTL

\* The timer resumes no halted and runs no deleted thread: neither has a timeout.
THEOREM TimerLeavesStopped ==
  ASSUME PlainUse, ~LeavesTimeouts
  PROVE  Spec => StoppedStaysStopped
<1>1. QueueInv /\ [Next]_vars =>
        [\A t \in wakeup : state[t] \in {"halted", "aborted"} => state'[t] # "running"]_vars
  BY DEF QueueInv, IInv, TypeOK, Pending
<1> QED BY <1>1, QueueInvariant, PTL DEF Spec, StoppedStaysStopped

\* The lock of a receiver, its message and its startup, in the words of the runs.
LEMMA SteadyWords ==
  ASSUME QueueInv, SteadyInv
  PROVE  /\ \A r \in Threads : Told(r) => HasMessage(r)
         /\ \A r, s, t \in Threads : AskedFor(r, s, t) <=> Asked(r, s, t)
<1>1. \A r \in Threads : Told(r) => HasMessage(r)
  BY TcbAssumption DEF Told, HasMessage, QueueInv, Phases
<1>2. \A r, s, t \in Threads : AskedFor(r, s, t) <=> Asked(r, s, t)
  BY DEF AskedFor, Asked, SteadyInv, Places
<1> QED BY <1>1, <1>2

\* No assertion of the queue operations and of save_state fails, and no thread leaves
\* a pagefault IPC through the exit of a system call.
THEOREM AssertionsHold ==
  ASSUME PlainUse, SteadyUse
  PROVE  Spec => []NoAssertionFails
<1>1. QueueInv /\ SteadyInv => NoAssertionFails
  BY DEF SteadyInv
<1> QED BY <1>1, SteadyInvariant, PTL

\* An aborted pagefault IPC restores the state before the pagefault; it never leaves
\* the kernel as the system call the thread did not make.
THEOREM PagefaultsAreRestored ==
  ASSUME PlainUse, SteadyUse
  PROVE  Spec => []PagefaultRestored
<1>1. NoAssertionFails => PagefaultRestored
  BY DEF NoAssertionFails, PagefaultRestored
<1> QED BY <1>1, AssertionsHold, PTL

\* What the invariants promise of the rendezvous, in the words of the runs.
LEMMA SteadyPromises ==
  ASSUME QueueInv, SteadyInv
  PROVE  Rendezvous /\ LockedPair /\ DeliveryEndsWait /\ UserLevelRuns
<1>1. Rendezvous
  <2>1. \A t \in Threads : pc[t] = "xfer" => arg[t].to \in Threads
    BY DEF QueueInv, IInv, ArgOK
  <2>2. \A r, t \in Threads : \A s : Asked(r, s, t) => AskedFor(r, s, t)
    BY DEF AskedFor, Asked, SteadyInv, Places
  <2> QED BY <2>1, <2>2 DEF SteadyInv, Meeting, Rendezvous
<1>2. LockedPair
  BY DEF SteadyInv, Locked, LockedPair, SendsTo
<1>3. DeliveryEndsWait
  BY SteadyWords DEF SteadyInv, Registered, Places, DeliveryEndsWait
<1>4. UserLevelRuns
  BY DEF SteadyInv, Places, UserLevelRuns
<1> QED BY <1>1, <1>2, <1>3, <1>4

\* A message is transferred only to a thread that waits for its sender, or is locked
\* with it (the checks before transfer_message in sys_ipc).
THEOREM MessagesMeetReceivers ==
  ASSUME PlainUse, SteadyUse
  PROVE  Spec => []Rendezvous
<1>1. QueueInv /\ SteadyInv => Rendezvous
  BY SteadyPromises
<1> QED BY <1>1, SteadyInvariant, PTL

\* No receiver stays locked without the sender it is locked with.
THEOREM LockedReceiversHaveSenders ==
  ASSUME PlainUse, SteadyUse
  PROVE  Spec => []LockedPair
<1>1. QueueInv /\ SteadyInv => LockedPair
  BY SteadyPromises
<1> QED BY <1>1, SteadyInvariant, PTL

\* A thread that waits is registered with the partner it asked for, until it has its
\* message.
THEOREM WaitersAreRegistered ==
  ASSUME PlainUse, SteadyUse
  PROVE  Spec => []DeliveryEndsWait
<1>1. QueueInv /\ SteadyInv => DeliveryEndsWait
  BY SteadyPromises
<1> QED BY <1>1, SteadyInvariant, PTL

\* Back at user level a thread is running, or was halted there.
THEOREM UserLevelThreadsRun ==
  ASSUME PlainUse, SteadyUse
  PROVE  Spec => []UserLevelRuns
<1>1. QueueInv /\ SteadyInv => UserLevelRuns
  BY SteadyPromises
<1> QED BY <1>1, SteadyInvariant, PTL

\* While no send timeout expires, no sender polls on a receiver that waits for it:
\* whoever comes second finds the other.
THEOREM NoRendezvousIsMissed ==
  ASSUME PlainUse, SteadyUse, "snd_timeout" \notin Env
  PROVE  Spec => []NoMissedRendezvous
<1>1. QueueInv /\ SteadyInv => NoMissedRendezvous
  BY SteadyWords DEF SteadyInv, NoneMissed, NoMissedRendezvous
<1> QED BY <1>1, SteadyInvariant, PTL
=============================================================================
