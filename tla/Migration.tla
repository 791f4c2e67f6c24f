------------------------------ MODULE Migration ------------------------------
(***************************************************************************)
(* SYS_THREAD_CONTROL with the space specifier of another space moves a     *)
(* thread that exists there: migrate_to_space of thread.cc.  It is kept     *)
(* apart from the other operations of Spaces because it breaks what they    *)
(* maintain.                                                                *)
(***************************************************************************)
EXTENDS Spaces

(***************************************************************************)
(* migrate_to_space.  The thread gets a UTCB in the destination and leaves  *)
(* its space.  If it was the last thread there, the destination is unmapped *)
(* and the old space freed as it is.                                        *)
(***************************************************************************)
Migrate(c, d, v, e, w, l) ==
  /\ Caller(c) /\ exists(d) /\ Relocates(d, l)
  /\ id[e] = w /\ space[d] # space[e]
  /\ LET old  == space[d]
         dest == space[e]
         at   == NewLocation(d, l)
     IN \E f \in Frames :
          /\ \/ ptab[dest][PageOf(at)] = f
             \/ ptab[dest][PageOf(at)] = Null /\ f \notin taken
          /\ utcb' = [utcb EXCEPT ![d] = f]
          /\ count' = [count EXCEPT ![old] = @ - 1]
          /\ Failed("remove_tcb", count[old] = 0)
          /\ LET pt == [ptab EXCEPT ![dest][PageOf(at)] = f] IN
             IF LastThread(old)
             THEN /\ live' = live \ {old}
                  /\ taken' = (taken \cup {f}) \ {pt[dest][PageOf(m)] : m \in area[dest]}
                  /\ ptab' = [pt EXCEPT ![dest] = NoPages, ![old] = NoPages]
                  /\ area' = [area EXCEPT ![old] = {}]
             ELSE /\ taken' = taken \cup {f} /\ ptab' = pt
                  /\ UNCHANGED <<live, area>>
          /\ space' = [space EXCEPT ![d] = dest]
          /\ location' = [location EXCEPT ![d] = at]
          /\ id' = [id EXCEPT ![d] = v]

MigrationNext ==
  \/ Next
  \/ \E c, d, e \in Tcbs, v, w \in Versions, l \in Locations \cup {Unset} :
       Migrate(c, d, v, e, w, l)

MigrationSpec == Init /\ [][MigrationNext]_vars
-----------------------------------------------------------------------------
(***************************************************************************)
(* ASSERT (get_thread_count () != 0) in remove_tcb: the count of a space is *)
(* not zero while a thread leaves it.                                       *)
(***************************************************************************)
RemoveTcbAssert == "remove_tcb" \notin asserts
=============================================================================
