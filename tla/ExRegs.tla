------------------------------- MODULE ExRegs -------------------------------
(***************************************************************************)
(* SYS_EXCHANGE_REGISTERS on a thread of the caller's own space: aborting   *)
(* its IPC (control bits S and R), halting and resuming it (h with or       *)
(* without H).  The registers themselves (ip, sp, flags, user handle) are   *)
(* data of the user programs and are left out; Pager is fixed.              *)
(***************************************************************************)
EXTENDS Tcb

\* The control words, as far as they change the state of the thread.
Controls == {c \in SUBSET {"S", "R", "h", "H"} :
               /\ c \cap {"S", "R"} # {} => Does("abort")
               /\ c \cap {"h", "H"} # {} => Does("halt")}

\* The bit that asks for the abort of the IPC a thread in state s is in.
IsAborted(s, c) ==
  \/ is_sending(s) /\ "S" \in c
  \/ is_receiving(s) /\ "R" \in c

\* The state after the check for an ongoing IPC and then for halting.
Resumes(s, c) == s = "halted" /\ "h" \in c /\ "H" \notin c
Halts(s, c)   == s = "running" /\ "h" \in c /\ "H" \in c

\* Aborts left out of a run unless its Env names them (README).
UsualAbort(d) == state[d] \in {"locked_running", "locked_waiting"} => Does("abort_locked")

perform_exregs(d, c) ==
  LET s == state[d]
      abort == IsAborted(s, c)
      aborted == IF abort THEN Aborted(d, s) ELSE {}
      s1 == IF abort THEN "running" ELSE s
      s2 == IF Resumes(s1, c) THEN "running" ELSE IF Halts(s1, c) THEN "halted" ELSE s1
  IN /\ abort => UsualAbort(d)
     /\ state' = [x \in Threads |-> IF x = d THEN s2
                                    ELSE IF x \in aborted THEN "running" ELSE state[x]]
     /\ pc' = [x \in Threads |-> IF (x = d /\ abort) \/ x \in aborted THEN "error" ELSE pc[x]]
     /\ ready' = ready \cup aborted \cup (IF abort \/ Resumes(s1, c) THEN {d} ELSE {})
     /\ current' = IF Halts(s1, c) /\ d = current THEN Idle ELSE current
     /\ IF abort
        THEN /\ wakeup' = UnwoundWakeup(d, s)
             /\ sendq' = UnwoundSendq(d, s)
             /\ partner' = UnwoundPartner(d)
             /\ sstate' = UnwoundSstate(d)
             /\ spartner' = UnwoundSpartner(d)
             /\ failed' = DequeueFails(d, s)
        ELSE UNCHANGED <<wakeup, sendq, partner, sstate, spartner, failed>>
     /\ UNCHANGED <<arg, outer, xfer, tstate, alive>>

ExchangeRegisters(t) ==
  /\ AtUser(t)
  /\ \E d \in alive, c \in Controls : Space[d] = Space[t] /\ perform_exregs(d, c)
=============================================================================
