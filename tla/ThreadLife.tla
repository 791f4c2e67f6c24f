----------------------------- MODULE ThreadLife -----------------------------
(***************************************************************************)
(* Deleting a thread and creating an active one, the two operations of      *)
(* SYS_THREAD_CONTROL that touch the queues and the IPC of other threads.   *)
(* Only threads of a privileged space may call it.                          *)
(***************************************************************************)
EXTENDS Tcb

\* Deletions left out of a run unless its Env names them (README).
UsualDelete(d) ==
  /\ sendq[d] # <<>> => Does("delete_queued")
  /\ pc[d] = "timeout" => Does("delete_timedout")
  /\ state[d] \in {"locked_running", "locked_waiting"} => Does("abort_locked")

\* The queued senders are taken out of the send queue, and nothing else.
delete_tcb(d) ==
  LET s == state[d]
      ongoing == is_sending(s) \/ is_receiving(s)
      aborted == IF ongoing THEN Aborted(d, s) ELSE {}
  IN /\ ready' = (ready \ {d}) \cup aborted
     /\ wakeup' = IF ongoing THEN UnwoundWakeup(d, s) ELSE wakeup
     /\ sendq' = [IF ongoing THEN UnwoundSendq(d, s) ELSE sendq EXCEPT ![d] = <<>>]
     /\ partner' = IF ongoing THEN UnwoundPartner(d) ELSE partner
     /\ sstate' = IF ongoing THEN UnwoundSstate(d) ELSE sstate
     /\ spartner' = IF ongoing THEN UnwoundSpartner(d) ELSE spartner
     /\ failed' = DequeueFails(d, s)
     /\ state' = [x \in Threads |-> IF x = d THEN "aborted"
                                    ELSE IF x \in aborted THEN "running" ELSE state[x]]
     /\ pc' = [x \in Threads |-> IF x \in aborted THEN "error" ELSE pc[x]]
     /\ alive' = alive \ {d}
     /\ UNCHANGED <<current, arg, outer, xfer, tstate>>

DeleteThread(t) ==
  /\ AtUser(t) /\ Does("delete") /\ Space[t] \in Privileged
  /\ \E d \in alive \ {t} : UsualDelete(d) /\ delete_tcb(d)

(***************************************************************************)
(* create_inactive, activate and fake_wait_for_startup: the new thread      *)
(* waits for a startup message from its pager.  tcb_t::init clears the      *)
(* queue bits of the thread, which is wrong when it is still in a queue.    *)
(***************************************************************************)
CreateThread(t) ==
  /\ AtUser(t) /\ Does("create") /\ Space[t] \in Privileged
  /\ \E d \in Threads \ alive :
       /\ state' = [state EXCEPT ![d] = "waiting_forever"]
       /\ partner' = [partner EXCEPT ![d] = Pager[d]]
       /\ sstate' = [sstate EXCEPT ![d] = "running"]
       /\ spartner' = [spartner EXCEPT ![d] = Nil]
       /\ ready' = ready \ {d}
       /\ wakeup' = wakeup \ {d}
       /\ sendq' = [sendq EXCEPT ![d] = <<>>]
       /\ failed' = IF d \in ready \cup wakeup \/ \E q \in Threads : d \in Range(sendq[q])
                    THEN {"init of a queued tcb"} ELSE {}
       /\ pc' = [pc EXCEPT ![d] = "startup"]
       /\ arg' = [arg EXCEPT ![d] = NoArg]
       /\ outer' = [outer EXCEPT ![d] = NoArg]
       /\ tstate' = [tstate EXCEPT ![d] = "running"]
       /\ alive' = alive \cup {d}
  /\ UNCHANGED <<current, xfer>>
=============================================================================
