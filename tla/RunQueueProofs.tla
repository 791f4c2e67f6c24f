---------------------------- MODULE RunQueueProofs ----------------------------
(***************************************************************************)
(* Proofs about the scheduler: its rings are never torn apart, its hint     *)
(* covers every queued thread, and it implements the ready set the rest of  *)
(* the kernel is modelled with.                                             *)
(***************************************************************************)
EXTENDS RunQueue, FiniteSetTheorems, NaturalsInduction, WellFoundedInduction, TLAPS

(***************************************************************************)
(* Induction on natural numbers and the existence of functions defined by   *)
(* recursion on them, by way of the least counterexample, in a form without *)
(* operator parameters.                                                     *)
(***************************************************************************)
\* A non-empty set of naturals has a least element.
LEMMA LeastExists ==
  ASSUME NEW S \in SUBSET Nat, S # {}
  PROVE  \E j \in S : \A k \in S : j <= k
<1>1. PICK j \in S : \A k \in S : ~(<<k, j>> \in OpToRel(<, Nat))
  BY NatLessThanWellFounded, WFMin
<1>2. \A k \in S : ~(k < j)
  BY <1>1 DEF OpToRel
<1> QED BY <1>2

\* What holds first, and after a step if it held before, holds all along.
LEMMA Induction ==
  ASSUME NEW n \in Nat, NEW F, NEW D,
         F[0] \in D, \A k \in 1 .. n : F[k - 1] \in D => F[k] \in D
  PROVE  \A k \in 0 .. n : F[k] \in D
<1> DEFINE S == {k \in 0 .. n : F[k] \notin D}
<1> SUFFICES ASSUME S # {} PROVE FALSE
  OBVIOUS
<1>1. S \in SUBSET Nat
  OBVIOUS
<1>2. PICK k \in S : \A j \in S : k <= j
  BY <1>1, LeastExists
<1>3. k # 0
  BY <1>2
<1>4. k \in 1 .. n /\ k - 1 \in 0 .. n /\ k - 1 \notin S
  BY <1>2, <1>3
<1> QED BY <1>2, <1>4

\* f starts with base and goes on with G, a function of the step and the last value.
Iterates(f, n, base, G, D) ==
  /\ f \in [0 .. n -> D]
  /\ f[0] = base
  /\ \A k \in 1 .. n : f[k] = G[<<k, f[k - 1]>>]

\* There is such a function.
LEMMA IterationExists ==
  ASSUME NEW D, NEW base \in D, NEW n \in Nat, NEW G \in [(1 .. n) \X D -> D]
  PROVE  \E f : Iterates(f, n, base, G, D)
<1> DEFINE S == {k \in 0 .. n : ~ \E f : Iterates(f, k, base, G, D)}
<1> SUFFICES ASSUME S # {} PROVE FALSE
  OBVIOUS
<1>1. S \in SUBSET Nat
  OBVIOUS
<1>2. PICK k \in S : \A j \in S : k <= j
  BY <1>1, LeastExists
<1>3. k # 0
  <2> DEFINE f == [j \in 0 .. 0 |-> base]
  <2>1. Iterates(f, 0, base, G, D)
    BY DEF Iterates
  <2> QED BY <2>1, <1>2
<1>4. k \in 1 .. n /\ k \in Nat /\ k - 1 \in 0 .. n /\ k - 1 \notin S
  BY <1>2, <1>3
<1>5. PICK f : Iterates(f, k - 1, base, G, D)
  BY <1>4
<1> DEFINE h == [j \in 0 .. k |-> IF j = k THEN G[<<k, f[k - 1]>>] ELSE f[j]]
<1>6. f \in [0 .. k - 1 -> D] /\ k - 1 \in 0 .. k - 1
  BY <1>4, <1>5 DEF Iterates
<1>7. h \in [0 .. k -> D]
  <2>1. G[<<k, f[k - 1]>>] \in D
    BY <1>4, <1>6
  <2>2. \A j \in 0 .. k : j # k => j \in 0 .. k - 1
    BY <1>4
  <2> QED BY <2>1, <2>2, <1>6
<1>8. h[0] = base
  BY <1>3, <1>4, <1>5 DEF Iterates
<1>9. ASSUME NEW j \in 1 .. k PROVE h[j] = G[<<j, h[j - 1]>>]
  <2>1. j - 1 \in 0 .. k - 1 /\ j - 1 # k /\ h[j - 1] = f[j - 1]
    BY <1>4
  <2>2. CASE j = k
    <3>1. h[k] = G[<<k, f[k - 1]>>]
      BY <1>4
    <3> HIDE DEF h
    <3> QED BY <3>1, <2>1, <2>2
  <2>3. CASE j # k
    <3>1. j \in 1 .. k - 1 /\ h[j] = f[j]
      BY <2>3, <1>4
    <3> QED BY <2>1, <3>1, <1>5 DEF Iterates
  <2> QED BY <2>2, <2>3
<1>10. Iterates(h, k, base, G, D)
  BY <1>7, <1>8, <1>9 DEF Iterates
<1> QED BY <1>2, <1>10

Links == [Threads -> Threads \cup {Null}]

Queues == [head : [Prios -> Threads \cup {Null}], next : Links, prev : Links,
           in : SUBSET Threads, max : Prios \cup {-1}]

\* The threads of ring p, when pr are the priorities.
Of(r, pr, p) == {t \in r.in : pr[t] = p}

\* The links of a queued thread stay in its ring, and undo each other.
Woven(r, pr) ==
  \A t \in r.in : /\ r.next[t] \in r.in /\ pr[r.next[t]] = pr[t] /\ r.prev[r.next[t]] = t
                  /\ r.prev[t] \in r.in /\ pr[r.prev[t]] = pr[t] /\ r.next[r.prev[t]] = t

\* A ring has a head, one of its threads, unless it is empty.
Headed(r, pr) ==
  \A p \in Prios : IF r.head[p] = Null THEN Of(r, pr, p) = {} ELSE r.head[p] \in Of(r, pr, p)

\* No part of a ring is closed under the links: it is one ring, whatever its head.
Closed(r, S) == \A t \in S : r.next[t] \in S
Single(r, pr) ==
  \A p \in Prios : \A S \in SUBSET Of(r, pr, p) : S # {} /\ Closed(r, S) => S = Of(r, pr, p)

\* The hint covers every queued thread.
Covered(r, pr) == \A t \in r.in : pr[t] <= r.max

QueueOK(r, pr) == /\ r \in Queues
                  /\ Woven(r, pr) /\ Headed(r, pr) /\ Single(r, pr) /\ Covered(r, pr)
-----------------------------------------------------------------------------
\* The empty queue is in order.
LEMMA EmptyQueueOK ==
  ASSUME NEW pr \in [Threads -> Prios]
  PROVE  QueueOK(EmptyQueue, pr)
BY RunQueueAssumption DEF EmptyQueue, QueueOK, Queues, Links, Woven, Headed, Single, Covered, Of, Prios

\* The queue e is the queue r with t linked between l, the last, and h, the first
\* thread of its ring, if that is not empty.
Linking(r, pr, t, h, l, e) ==
  /\ \/ h = t /\ l = t /\ r.head[pr[t]] = Null
     \/ h # t /\ r.head[pr[t]] = h /\ r.prev[h] = l
  /\ \A x \in Threads : /\ e.next[x] = IF x = l THEN t ELSE IF x = t THEN h ELSE r.next[x]
                        /\ e.prev[x] = IF x = h THEN t ELSE IF x = t THEN l ELSE r.prev[x]
  /\ e.in = r.in \cup {t}
  /\ \A z \in Prios : z # pr[t] => e.head[z] = r.head[z]
  /\ e.head[pr[t]] = t \/ (h # t /\ e.head[pr[t]] = h)
  /\ e.max \in Int /\ pr[t] <= e.max /\ r.max <= e.max

\* Linking a thread leaves the queue in order.
LEMMA LinkingOK ==
  ASSUME NEW pr \in [Threads -> Prios], NEW r, QueueOK(r, pr), NEW t \in Threads, t \notin r.in,
         NEW h \in Threads, NEW l \in Threads, NEW e \in Queues, Linking(r, pr, t, h, l, e)
  PROVE  QueueOK(e, pr)
<1> DEFINE p == pr[t]
<1>0. r \in Queues /\ Woven(r, pr) /\ Headed(r, pr) /\ Single(r, pr) /\ Covered(r, pr)
  BY DEF QueueOK
<1>1. /\ e.in = r.in \cup {t}
      /\ \A z \in Prios : z # p => e.head[z] = r.head[z]
      /\ e.head[p] = t \/ (h # t /\ e.head[p] = h)
      /\ e.max \in Int /\ p <= e.max /\ r.max <= e.max
  BY DEF Linking
<1>2. /\ r.head \in [Prios -> Threads \cup {Null}] /\ r.next \in Links /\ r.prev \in Links
      /\ r.in \in SUBSET Threads /\ r.max \in Prios \cup {-1}
  BY <1>0 DEF Queues
<1>3. p \in Prios /\ Null \notin Threads
  BY RunQueueAssumption
<1>a. \/ h = t /\ l = t /\ r.head[p] = Null
      \/ h # t /\ r.head[p] = h /\ r.prev[h] = l
  BY DEF Linking
<1>4. \/ h = t /\ l = t /\ r.head[p] = Null /\ Of(r, pr, p) = {}
      \/ /\ h \in Of(r, pr, p) /\ l \in Of(r, pr, p) /\ r.next[l] = h /\ r.prev[h] = l
         /\ r.head[p] = h /\ h # t /\ l # t
  <2>1. CASE h = t /\ l = t /\ r.head[p] = Null
    BY <2>1, <1>0, <1>3 DEF Headed
  <2>2. CASE h # t /\ r.head[p] = h /\ r.prev[h] = l
    <3>1. h \in Of(r, pr, p)
      BY <2>2, <1>0, <1>3 DEF Headed
    <3>2. l \in Of(r, pr, p) /\ r.next[l] = h
      BY <2>2, <3>1, <1>0 DEF Woven, Of
    <3> QED BY <2>2, <3>1, <3>2 DEF Of
  <2> QED BY <2>1, <2>2, <1>a
<1>5. h \in e.in /\ l \in e.in /\ pr[h] = p /\ pr[l] = p
  BY <1>1, <1>4 DEF Of
<1>6. \A x \in Threads : /\ e.next[x] = IF x = l THEN t ELSE IF x = t THEN h ELSE r.next[x]
                         /\ e.prev[x] = IF x = h THEN t ELSE IF x = t THEN l ELSE r.prev[x]
  BY DEF Linking
<1>8. Woven(e, pr)
  <2> SUFFICES ASSUME NEW x \in e.in
               PROVE  /\ e.next[x] \in e.in /\ pr[e.next[x]] = pr[x] /\ e.prev[e.next[x]] = x
                      /\ e.prev[x] \in e.in /\ pr[e.prev[x]] = pr[x] /\ e.next[e.prev[x]] = x
    BY DEF Woven
  <2>1. x \in Threads /\ (x \in r.in \/ x = t)
    BY <1>1, <1>2
  <2>2. CASE x = t
    BY <2>2, <1>1, <1>4, <1>5, <1>6
  <2>3. CASE x # t
    <3>1. /\ r.next[x] \in r.in /\ pr[r.next[x]] = pr[x] /\ r.prev[r.next[x]] = x
          /\ r.prev[x] \in r.in /\ pr[r.prev[x]] = pr[x] /\ r.next[r.prev[x]] = x
      BY <2>1, <2>3, <1>0 DEF Woven
    <3>2. r.next[x] \in Threads /\ r.prev[x] \in Threads /\ r.next[x] # t /\ r.prev[x] # t
      BY <3>1, <1>2
    <3>3. x # l => r.next[x] # h
      BY <2>1, <2>3, <3>1, <1>4 DEF Of
    <3>4. x # h => r.prev[x] # l
      BY <2>1, <2>3, <3>1, <1>4 DEF Of
    <3>5. /\ e.next[x] \in e.in /\ pr[e.next[x]] = pr[x] /\ e.prev[e.next[x]] = x
      BY <2>1, <2>3, <3>1, <3>2, <3>3, <1>1, <1>4, <1>5, <1>6
    <3>6. /\ e.prev[x] \in e.in /\ pr[e.prev[x]] = pr[x] /\ e.next[e.prev[x]] = x
      BY <2>1, <2>3, <3>1, <3>2, <3>4, <1>1, <1>4, <1>5, <1>6
    <3> QED BY <3>5, <3>6
  <2> QED BY <2>2, <2>3
<1>9. \A z \in Prios : Of(e, pr, z) = IF z = p THEN Of(r, pr, p) \cup {t} ELSE Of(r, pr, z)
  BY <1>1 DEF Of
<1>10. Headed(e, pr)
  <2> SUFFICES ASSUME NEW z \in Prios
               PROVE  IF e.head[z] = Null THEN Of(e, pr, z) = {} ELSE e.head[z] \in Of(e, pr, z)
    BY DEF Headed
  <2>1. CASE z # p
    BY <2>1, <1>1, <1>2, <1>3, <1>9, <1>0 DEF Headed
  <2>2. CASE z = p
    BY <2>2, <1>1, <1>2, <1>3, <1>4, <1>9
  <2> QED BY <2>1, <2>2
<1>11. Single(e, pr)
  <2> SUFFICES ASSUME NEW z \in Prios, NEW S \in SUBSET Of(e, pr, z), S # {}, Closed(e, S)
               PROVE  S = Of(e, pr, z)
    BY DEF Single
  <2>0. S \subseteq Threads
    BY <1>1, <1>2 DEF Of
  <2>1. CASE z # p
    <3>1. S \in SUBSET Of(r, pr, z) /\ t \notin S /\ l \notin S
      BY <2>1, <1>5, <1>9 DEF Of
    <3>2. Closed(r, S)
      BY <2>0, <3>1, <1>6 DEF Closed
    <3> QED BY <2>1, <3>1, <3>2, <1>9, <1>0 DEF Single
  <2>2. CASE z = p
    <3> DEFINE V == S \ {t}
    <3>1. V \in SUBSET Of(r, pr, p)
      BY <2>2, <1>9
    <3>2. Closed(r, V)
      <4> SUFFICES ASSUME NEW x \in V PROVE r.next[x] \in V
        BY DEF Closed
      <4>1. x \in S /\ x \in Threads /\ x # t /\ e.next[x] \in S
        BY <2>0 DEF Closed
      <4>2. CASE x = l
        <5>1. t \in S /\ r.next[x] = h /\ h # t
          BY <4>1, <4>2, <1>4, <1>6
        <5>2. e.next[t] \in S /\ e.next[t] = h
          BY <5>1, <4>1, <4>2, <1>6 DEF Closed
        <5> QED BY <5>1, <5>2
      <4>3. CASE x # l
        <5>1. e.next[x] = r.next[x] /\ r.next[x] \in r.in
          BY <4>1, <4>3, <3>1, <1>6, <1>0 DEF Woven, Of
        <5> QED BY <4>1, <5>1
      <4> QED BY <4>2, <4>3
    <3>3. CASE V # {}
      <4>1. V = Of(r, pr, p)
        BY <3>1, <3>2, <3>3, <1>3, <1>0 DEF Single
      <4>2. l \in S /\ l # t
        BY <3>3, <4>1, <1>4
      <4>3. t \in S
        BY <2>0, <4>2, <1>6 DEF Closed
      <4> QED BY <2>2, <4>1, <4>3, <1>9
    <3>4. CASE V = {}
      <4>1. t \in S /\ e.next[t] \in S
        BY <3>4 DEF Closed
      <4>2. h = t
        BY <4>1, <3>4, <1>4, <1>6
      <4> QED BY <2>2, <3>4, <4>1, <4>2, <1>4, <1>9
    <3> QED BY <3>3, <3>4
  <2> QED BY <2>1, <2>2
<1>12. Covered(e, pr)
  <2>1. r.max \in Int /\ p \in Int /\ \A x \in r.in : pr[x] \in Int /\ pr[x] <= r.max
    BY <1>2, <1>3, <1>0, RunQueueAssumption DEF Prios, Covered
  <2> QED BY <2>1, <1>1 DEF Covered
<1> QED BY <1>8, <1>10, <1>11, <1>12 DEF QueueOK

\* enqueue keeps the queue in order.
LEMMA EnqueueOK ==
  ASSUME NEW pr \in [Threads -> Prios], NEW r, QueueOK(r, pr), NEW t \in Threads,
         NEW first \in BOOLEAN
  PROVE  LET e == enqueue(r, pr[t], t, first)
         IN QueueOK(e, pr) /\ e.in = r.in \cup {t}
<1> DEFINE p == pr[t]
           e == enqueue(r, p, t, first)
           h == IF r.head[p] = Null THEN t ELSE r.head[p]
           l == IF r.head[p] = Null THEN t ELSE r.prev[h]
<1>1. CASE t \in r.in
  BY <1>1 DEF enqueue
<1>2. CASE t \notin r.in
  <2>1. r \in Queues /\ p \in Prios /\ Null \notin Threads
    BY RunQueueAssumption DEF QueueOK
  <2>2. /\ r.head \in [Prios -> Threads \cup {Null}] /\ r.next \in Links /\ r.prev \in Links
        /\ r.in \in SUBSET Threads /\ r.max \in Prios \cup {-1}
    BY <2>1 DEF Queues
  <2>3. /\ h \in Threads /\ l \in Threads
        /\ \/ h = t /\ l = t /\ r.head[p] = Null
           \/ h # t /\ r.head[p] = h /\ r.prev[h] = l
    BY <2>1, <2>2, <1>2 DEF QueueOK, Headed, Woven, Of
  <2>4. /\ e.next = [r.next EXCEPT ![t] = h, ![l] = t]
        /\ e.prev = [r.prev EXCEPT ![t] = l, ![h] = t]
        /\ e.in = r.in \cup {t}
    BY <2>1, <1>2 DEF enqueue, EnqueueList, Linked, Queues
  <2>5. /\ e.head = IF first \/ r.head[p] = Null THEN [r.head EXCEPT ![p] = t] ELSE r.head
        /\ e.max = IF p > r.max THEN p ELSE r.max
    BY <2>1, <1>2 DEF enqueue, EnqueueList, Linked, Queues
  <2>6. e = [head |-> e.head, next |-> e.next, prev |-> e.prev, in |-> e.in, max |-> e.max]
    BY <2>1, <1>2 DEF enqueue, EnqueueList, Linked, Queues
  <2> HIDE DEF e, h, l
  <2>7. e.next \in Links /\ e.prev \in Links
    BY <2>2, <2>3, <2>4 DEF Links
  <2>8. e \in Queues
    BY <2>1, <2>2, <2>4, <2>5, <2>6, <2>7 DEF Queues
  <2>9. \A x \in Threads : e.next[x] = IF x = l THEN t ELSE IF x = t THEN h ELSE r.next[x]
    BY <2>2, <2>3, <2>4 DEF Links
  <2>a. \A x \in Threads : e.prev[x] = IF x = h THEN t ELSE IF x = t THEN l ELSE r.prev[x]
    BY <2>2, <2>3, <2>4 DEF Links
  <2>10. /\ \A z \in Prios : z # p => e.head[z] = r.head[z]
         /\ e.head[p] = t \/ (h # t /\ e.head[p] = h)
    BY <2>1, <2>2, <2>3, <2>5
  <2>11. e.max \in Int /\ p <= e.max /\ r.max <= e.max
    BY <2>1, <2>2, <2>5, RunQueueAssumption DEF Prios
  <2>12. Linking(r, pr, t, h, l, e)
    BY <2>3, <2>4, <2>9, <2>a, <2>10, <2>11 DEF Linking
  <2>13. QueueOK(e, pr)
    BY <2>3, <2>8, <2>12, <1>2, LinkingOK
  <2> QED BY <2>4, <2>13 DEF e
<1> QED BY <1>1, <1>2

\* So does enqueue_ready.
LEMMA EnqOK ==
  ASSUME prio \in [Threads -> Prios], NEW r, QueueOK(r, prio), NEW t \in Threads
  PROVE  /\ QueueOK(Enq(r, t, TRUE), prio) /\ Enq(r, t, TRUE).in = r.in \cup {t}
         /\ QueueOK(Enq(r, t, FALSE), prio) /\ Enq(r, t, FALSE).in = r.in \cup {t}
<1>1. \A first \in BOOLEAN : LET e == enqueue(r, prio[t], t, first)
                             IN QueueOK(e, prio) /\ e.in = r.in \cup {t}
  BY EnqueueOK
<1>2. QueueOK(enqueue(r, prio[t], t, TRUE), prio) /\ enqueue(r, prio[t], t, TRUE).in = r.in \cup {t}
  BY <1>1
<1>3. QueueOK(enqueue(r, prio[t], t, FALSE), prio) /\ enqueue(r, prio[t], t, FALSE).in = r.in \cup {t}
  BY <1>1
<1> QED BY <1>2, <1>3 DEF Enq

\* The queue d is the queue r without t, whose neighbours are linked to each other.
Unlinking(r, pr, t, d) ==
  /\ \A x \in Threads \ {t} : d.next[x] = IF x = r.prev[t] THEN r.next[t] ELSE r.next[x]
  /\ \A x \in Threads \ {t} : d.prev[x] = IF x = r.next[t] THEN r.prev[t] ELSE r.prev[x]
  /\ d.in = r.in \ {t}
  /\ \A z \in Prios : z # pr[t] => d.head[z] = r.head[z]
  /\ d.head[pr[t]] = IF r.next[t] = t THEN Null
                      ELSE IF r.head[pr[t]] = t THEN r.next[t] ELSE r.head[pr[t]]
  /\ d.max = r.max

\* Unlinking a thread leaves the queue in order.
LEMMA UnlinkingOK ==
  ASSUME NEW pr \in [Threads -> Prios], NEW r, QueueOK(r, pr), NEW t \in r.in,
         NEW d \in Queues, Unlinking(r, pr, t, d)
  PROVE  QueueOK(d, pr)
<1> DEFINE p == pr[t]
           n == r.next[t]
           l == r.prev[t]
<1>0. r \in Queues /\ Woven(r, pr) /\ Headed(r, pr) /\ Single(r, pr) /\ Covered(r, pr)
  BY DEF QueueOK
<1>1. /\ r.in \in SUBSET Threads /\ t \in Threads /\ p \in Prios /\ Null \notin Threads
  BY <1>0, RunQueueAssumption DEF Queues
<1>2. /\ n \in r.in /\ pr[n] = p /\ r.prev[n] = t
      /\ l \in r.in /\ pr[l] = p /\ r.next[l] = t
  BY <1>0 DEF Woven
<1>3. n = t <=> l = t
  BY <1>2
<1>4. /\ \A x \in Threads \ {t} : d.next[x] = IF x = l THEN n ELSE r.next[x]
      /\ \A x \in Threads \ {t} : d.prev[x] = IF x = n THEN l ELSE r.prev[x]
  BY DEF Unlinking
<1>5. /\ d.in = r.in \ {t} /\ d.max = r.max
      /\ \A z \in Prios : z # p => d.head[z] = r.head[z]
      /\ d.head[p] = IF n = t THEN Null ELSE IF r.head[p] = t THEN n ELSE r.head[p]
  BY DEF Unlinking
<1> HIDE DEF n, l
<1>6. \A z \in Prios : Of(d, pr, z) = IF z = p THEN Of(r, pr, p) \ {t} ELSE Of(r, pr, z)
  BY <1>5 DEF Of
<1>7. n = t => Of(r, pr, p) = {t}
  <2> SUFFICES ASSUME n = t PROVE Of(r, pr, p) = {t}
    OBVIOUS
  <2>1. {t} \in SUBSET Of(r, pr, p) /\ {t} # {}
    BY DEF Of
  <2>2. Closed(r, {t})
    BY DEF Closed, n
  <2> QED BY <2>1, <2>2, <1>0, <1>1 DEF Single
<1>8. Woven(d, pr)
  <2> SUFFICES ASSUME NEW x \in d.in
               PROVE  /\ d.next[x] \in d.in /\ pr[d.next[x]] = pr[x] /\ d.prev[d.next[x]] = x
                      /\ d.prev[x] \in d.in /\ pr[d.prev[x]] = pr[x] /\ d.next[d.prev[x]] = x
    BY DEF Woven
  <2>1. x \in r.in /\ x \in Threads /\ x # t
    BY <1>1, <1>5
  <2>2. /\ r.next[x] \in r.in /\ pr[r.next[x]] = pr[x] /\ r.prev[r.next[x]] = x
        /\ r.prev[x] \in r.in /\ pr[r.prev[x]] = pr[x] /\ r.next[r.prev[x]] = x
    BY <2>1, <1>0 DEF Woven
  <2>3. d.next[x] \in d.in /\ pr[d.next[x]] = pr[x] /\ d.prev[d.next[x]] = x
    <3>1. CASE x = l
      BY <3>1, <2>1, <1>1, <1>2, <1>3, <1>4, <1>5
    <3>2. CASE x # l
      <4>1. r.next[x] # t
        BY <3>2, <2>2 DEF l
      <4>2. r.next[x] # n
        BY <2>1, <2>2, <1>2
      <4> QED BY <3>2, <4>1, <4>2, <2>1, <2>2, <1>1, <1>4, <1>5
    <3> QED BY <3>1, <3>2
  <2>4. d.prev[x] \in d.in /\ pr[d.prev[x]] = pr[x] /\ d.next[d.prev[x]] = x
    <3>1. CASE x = n
      BY <3>1, <2>1, <1>1, <1>2, <1>3, <1>4, <1>5
    <3>2. CASE x # n
      <4>1. r.prev[x] # t
        BY <3>2, <2>2 DEF n
      <4>2. r.prev[x] # l
        BY <2>1, <2>2, <1>2
      <4> QED BY <3>2, <4>1, <4>2, <2>1, <2>2, <1>1, <1>4, <1>5
    <3> QED BY <3>1, <3>2
  <2> QED BY <2>3, <2>4
<1>9. Headed(d, pr)
  <2> SUFFICES ASSUME NEW z \in Prios
               PROVE  IF d.head[z] = Null THEN Of(d, pr, z) = {} ELSE d.head[z] \in Of(d, pr, z)
    BY DEF Headed
  <2>1. CASE z # p
    BY <2>1, <1>0, <1>5, <1>6 DEF Headed
  <2>2. CASE z = p /\ n = t
    BY <2>2, <1>5, <1>6, <1>7
  <2>3. CASE z = p /\ n # t
    <3>1. r.head[p] # Null /\ r.head[p] \in Of(r, pr, p) /\ n \in Of(r, pr, p) /\ n # Null
      BY <1>0, <1>1, <1>2 DEF Headed, Of
    <3> QED BY <2>3, <3>1, <1>5, <1>6
  <2> QED BY <2>1, <2>2, <2>3
<1>10. Single(d, pr)
  <2> SUFFICES ASSUME NEW z \in Prios, NEW S \in SUBSET Of(d, pr, z), S # {}, Closed(d, S)
               PROVE  S = Of(d, pr, z)
    BY DEF Single
  <2>0. S \subseteq Threads \ {t}
    BY <1>1, <1>5 DEF Of
  <2>1. CASE l \notin S
    <3>1. S \in SUBSET Of(r, pr, z)
      BY <1>6
    <3>2. Closed(r, S)
      BY <2>0, <2>1, <1>4 DEF Closed
    <3>3. S = Of(r, pr, z)
      BY <3>1, <3>2, <1>0 DEF Single
    <3> QED BY <3>3, <2>0, <1>6
  <2>2. CASE l \in S
    <3> DEFINE V == S \cup {t}
    <3>1. z = p
      BY <2>2, <1>2 DEF Of
    <3>2. V \in SUBSET Of(r, pr, p)
      BY <3>1, <1>6 DEF Of
    <3>3. Closed(r, V)
      <4> SUFFICES ASSUME NEW x \in V PROVE r.next[x] \in V
        BY DEF Closed
      <4>1. CASE x = t
        <5>1. l \in Threads \ {t} /\ d.next[l] = n /\ d.next[l] \in S
          BY <2>0, <2>2, <1>4 DEF Closed
        <5> QED BY <4>1, <5>1 DEF n
      <4>2. CASE x = l
        BY <4>2, <1>2
      <4>3. CASE x # t /\ x # l
        BY <4>3, <2>0, <1>4 DEF Closed
      <4> QED BY <4>1, <4>2, <4>3
    <3>4. V = Of(r, pr, p)
      BY <3>2, <3>3, <1>0, <1>1 DEF Single
    <3> QED BY <3>1, <3>4, <2>0, <1>6
  <2> QED BY <2>1, <2>2
<1>11. Covered(d, pr)
  BY <1>0, <1>5 DEF Covered
<1> QED BY <1>8, <1>9, <1>10, <1>11 DEF QueueOK

\* dequeue keeps the queue in order.
LEMMA DequeueOK ==
  ASSUME NEW pr \in [Threads -> Prios], NEW r, QueueOK(r, pr), NEW t \in Threads
  PROVE  LET d == dequeue(r, pr[t], t)
         IN QueueOK(d, pr) /\ d.in = r.in \ {t} /\ d.max = r.max
<1> DEFINE p == pr[t]
           n == r.next[t]
           l == r.prev[t]
           d == dequeue(r, p, t)
<1>1. CASE t \notin r.in
  BY <1>1 DEF dequeue
<1>2. CASE t \in r.in
  <2>1. r \in Queues /\ p \in Prios /\ n \in r.in /\ l \in r.in
    BY <1>2 DEF QueueOK, Woven
  <2>2. /\ r.head \in [Prios -> Threads \cup {Null}] /\ r.next \in Links /\ r.prev \in Links
        /\ r.in \in SUBSET Threads /\ r.max \in Prios \cup {-1}
    BY <2>1 DEF Queues
  <2>3. /\ d.next = [r.next EXCEPT ![l] = n, ![t] = Null]
        /\ d.prev = [r.prev EXCEPT ![n] = l, ![t] = Null]
        /\ d.in = r.in \ {t} /\ d.max = r.max
    BY <2>1, <1>2 DEF dequeue, DequeueList, Queues
  <2>4. d.head = IF n = t THEN [r.head EXCEPT ![p] = Null]
                 ELSE IF r.head[p] = t THEN [r.head EXCEPT ![p] = n] ELSE r.head
    BY <2>1, <1>2 DEF dequeue, DequeueList, Queues
  <2>5. d = [head |-> d.head, next |-> d.next, prev |-> d.prev, in |-> d.in, max |-> d.max]
    BY <2>1, <1>2 DEF dequeue, DequeueList, Queues
  <2> HIDE DEF d
  <2>6. d.next \in Links /\ d.prev \in Links
    BY <2>1, <2>2, <2>3 DEF Links
  <2>7. d \in Queues
    BY <2>1, <2>2, <2>3, <2>4, <2>5, <2>6 DEF Queues
  <2>8. /\ \A x \in Threads \ {t} : d.next[x] = IF x = l THEN n ELSE r.next[x]
        /\ \A x \in Threads \ {t} : d.prev[x] = IF x = n THEN l ELSE r.prev[x]
    BY <2>1, <2>2, <2>3 DEF Links
  <2>9. Unlinking(r, pr, t, d)
    BY <2>1, <2>2, <2>3, <2>4, <2>8 DEF Unlinking
  <2>10. QueueOK(d, pr)
    BY <2>7, <2>9, <1>2, UnlinkingOK
  <2> QED BY <2>3, <2>10 DEF d
<1> QED BY <1>1, <1>2

\* A ring may have any of its threads as its head.
LEMMA HeadOK ==
  ASSUME NEW pr \in [Threads -> Prios], NEW r, QueueOK(r, pr), NEW t \in r.in
  PROVE  QueueOK([r EXCEPT !.head[pr[t]] = t], pr)
<1> DEFINE p == pr[t]
           m == [r EXCEPT !.head[p] = t]
<1>0. r \in Queues /\ Woven(r, pr) /\ Headed(r, pr) /\ Single(r, pr) /\ Covered(r, pr)
  BY DEF QueueOK
<1>1. t \in Threads /\ p \in Prios /\ Null \notin Threads
  BY <1>0, RunQueueAssumption DEF Queues
<1>2. /\ m \in Queues /\ m.next = r.next /\ m.prev = r.prev /\ m.in = r.in /\ m.max = r.max
      /\ m.head = [r.head EXCEPT ![p] = t]
  BY <1>0, <1>1 DEF Queues
<1> HIDE DEF m
<1>3. \A z \in Prios : Of(m, pr, z) = Of(r, pr, z)
  BY <1>2 DEF Of
<1>4. Headed(m, pr)
  <2>1. \A z \in Prios : m.head[z] = IF z = p THEN t ELSE r.head[z]
    BY <1>0, <1>2 DEF Queues
  <2>2. t \in Of(r, pr, p) /\ t # Null
    BY <1>1 DEF Of
  <2> QED BY <2>1, <2>2, <1>0, <1>3 DEF Headed
<1>5. Woven(m, pr) /\ Covered(m, pr)
  BY <1>0, <1>2 DEF Woven, Covered
<1>6. Single(m, pr)
  BY <1>0, <1>2, <1>3 DEF Single, Closed
<1> QED BY <1>2, <1>4, <1>5, <1>6 DEF QueueOK, m

\* The queue does not depend on the priority of a thread that is not in it.
LEMMA OtherPrioOK ==
  ASSUME NEW pr \in [Threads -> Prios], NEW r, QueueOK(r, pr),
         NEW after \in [Threads -> Prios], \A x \in r.in : after[x] = pr[x]
  PROVE  QueueOK(r, after)
<1>0. r \in Queues /\ Woven(r, pr) /\ Headed(r, pr) /\ Single(r, pr) /\ Covered(r, pr)
  BY DEF QueueOK
<1>1. \A z \in Prios : Of(r, after, z) = Of(r, pr, z)
  BY DEF Of
<1>2. Woven(r, after) /\ Covered(r, after)
  BY <1>0 DEF Woven, Covered
<1>3. Headed(r, after)
  BY <1>0, <1>1 DEF Headed
<1>4. Single(r, after)
  BY <1>0, <1>1 DEF Single
<1> QED BY <1>0, <1>2, <1>3, <1>4 DEF QueueOK
-----------------------------------------------------------------------------
(* find_next_thread *)

Searches == [q : Queues, p : Prios \cup {-1}, x : Threads \cup {Idle, Null}]

\* The state v of a search of the queue r: the queue is in order and has lost threads
\* that cannot run and are not below the present ring, none is queued above it, and
\* what was found is right.
FindOK(r, pr, run, v) ==
  /\ v \in Searches /\ QueueOK(v.q, pr)
  /\ v.q.in \subseteq r.in
  /\ \A t \in r.in \ v.q.in : t \notin run /\ pr[t] >= v.p
  /\ \A t \in v.q.in : pr[t] <= v.p
  /\ v.x = Idle => v.q.in = {}
  /\ v.x \in Threads => v.x \in v.q.in /\ v.x \in run /\ pr[v.x] = v.p

\* A queue whose hint is changed stays in order if the new one covers its threads.
LEMMA HintOK ==
  ASSUME NEW pr \in [Threads -> Prios], NEW r, QueueOK(r, pr), NEW m \in Prios \cup {-1},
         \A t \in r.in : pr[t] <= m
  PROVE  QueueOK([r EXCEPT !.max = m], pr) /\ [r EXCEPT !.max = m].in = r.in
<1> DEFINE e == [r EXCEPT !.max = m]
<1>0. r \in Queues /\ Woven(r, pr) /\ Headed(r, pr) /\ Single(r, pr)
  BY DEF QueueOK
<1>1. /\ e \in Queues /\ e.next = r.next /\ e.prev = r.prev /\ e.in = r.in
      /\ e.head = r.head /\ e.max = m
  BY <1>0 DEF Queues
<1> HIDE DEF e
<1>2. \A z \in Prios : Of(e, pr, z) = Of(r, pr, z)
  BY <1>1 DEF Of
<1>3. Woven(e, pr) /\ Covered(e, pr)
  BY <1>0, <1>1 DEF Woven, Covered
<1>4. Headed(e, pr)
  BY <1>0, <1>1, <1>2 DEF Headed
<1>5. Single(e, pr)
  BY <1>0, <1>1, <1>2 DEF Single, Closed
<1> QED BY <1>1, <1>3, <1>4, <1>5 DEF QueueOK, e

\* One round of the search.
LEMMA FindRoundOK ==
  ASSUME NEW pr \in [Threads -> Prios], NEW r, QueueOK(r, pr), NEW run,
         NEW v, FindOK(r, pr, run, v)
  PROVE  FindOK(r, pr, run, FindRound(v, pr, run))
<1> DEFINE w == FindRound(v, pr, run)
           t == v.q.head[v.p]
<1>0. /\ v \in Searches /\ QueueOK(v.q, pr) /\ v.q \in Queues /\ Headed(v.q, pr)
      /\ v.p \in Prios \cup {-1}
  BY DEF FindOK, QueueOK, Searches
<1>1. /\ Idle \notin Threads /\ Null \notin Threads /\ Null # Idle
      /\ Prios \subseteq Nat /\ MaxPrio \in Nat
      /\ v.q.in \subseteq Threads /\ r.in \subseteq Threads
  BY <1>0, RunQueueAssumption DEF Prios, Queues, QueueOK
<1>2. \A x \in Threads : pr[x] \in Nat
  BY <1>1
<1>3. CASE v.x # Null
  BY <1>3 DEF FindRound
<1>4. CASE v.x = Null /\ v.p < 0
  <2>1. w = [v EXCEPT !.x = Idle, !.q.max = -1]
    BY <1>4 DEF FindRound
  <2>2. v.p = -1
    <3>1. \A k \in Prios \cup {-1} : k < 0 => k = -1
      BY DEF Prios
    <3> QED BY <3>1, <1>0, <1>4
  <2>3. v.q.in = {}
    BY <2>2, <1>1, <1>2 DEF FindOK
  <2>4. w.q = [v.q EXCEPT !.max = -1] /\ w.p = v.p /\ w.x = Idle
    BY <2>1, <1>0 DEF Searches
  <2>5. QueueOK(w.q, pr) /\ w.q.in = {}
    BY <2>3, <2>4, <1>0, HintOK
  <2>6. w \in Searches
    BY <2>1, <2>4, <2>5, <1>0 DEF Searches, QueueOK
  <2> QED BY <2>3, <2>4, <2>5, <2>6, <1>1 DEF FindOK
<1>5. CASE v.x = Null /\ ~(v.p < 0) /\ t = Null
  <2>1. w = [v EXCEPT !.p = @ - 1]
    BY <1>5 DEF FindRound
  <2>2. v.p \in Prios /\ Of(v.q, pr, v.p) = {}
    BY <1>0, <1>5 DEF Headed
  <2>3. w.q = v.q /\ w.p = v.p - 1 /\ w.x = Null /\ w \in Searches
    BY <2>1, <2>2, <1>0, <1>1, <1>5 DEF Searches, Prios
  <2>a. \A j, k \in Prios : (j <= k /\ j # k => j <= k - 1) /\ (j >= k => j >= k - 1)
    BY DEF Prios
  <2>b. \A x \in r.in : x \in Threads /\ pr[x] \in Prios
    BY <1>1
  <2>c. \A x \in v.q.in : x \in r.in /\ pr[x] <= v.p /\ pr[x] # v.p
    BY <2>2 DEF FindOK, Of
  <2>4. \A x \in v.q.in : pr[x] <= v.p - 1
    BY <2>2, <2>a, <2>b, <2>c
  <2>d. \A x \in r.in \ v.q.in : x \notin run /\ pr[x] >= v.p
    BY DEF FindOK
  <2>5. \A x \in r.in \ v.q.in : x \notin run /\ pr[x] >= v.p - 1
    BY <2>2, <2>a, <2>b, <2>d
  <2> QED BY <2>3, <2>4, <2>5, <1>0, <1>1 DEF FindOK
<1>6. CASE v.x = Null /\ ~(v.p < 0) /\ t # Null
  <2>1. v.p \in Prios /\ t \in Of(v.q, pr, v.p)
    BY <1>0, <1>6 DEF Headed
  <2>2. t \in v.q.in /\ t \in Threads /\ pr[t] = v.p
    BY <2>1, <1>1 DEF Of
  <2>3. CASE t \in run
    <3>1. w = [v EXCEPT !.x = t, !.q.max = v.p]
      BY <2>3, <1>6 DEF FindRound
    <3>2. w.q = [v.q EXCEPT !.max = v.p] /\ w.p = v.p /\ w.x = t
      BY <3>1, <1>0 DEF Searches
    <3>3. \A x \in v.q.in : pr[x] <= v.p
      BY DEF FindOK
    <3>4. QueueOK(w.q, pr) /\ w.q.in = v.q.in
      BY <3>2, <3>3, <2>1, <1>0, HintOK
    <3>5. w \in Searches
      BY <3>1, <3>2, <3>4, <2>2, <1>0 DEF Searches, QueueOK
    <3> QED BY <2>2, <2>3, <3>2, <3>4, <3>5, <1>1 DEF FindOK
  <2>4. CASE t \notin run
    <3>1. w = [v EXCEPT !.q = dequeue(@, pr[t], t)]
      BY <2>4, <1>6 DEF FindRound
    <3>2. w.q = dequeue(v.q, pr[t], t) /\ w.p = v.p /\ w.x = Null
      BY <3>1, <1>0, <1>6 DEF Searches
    <3>3. QueueOK(w.q, pr) /\ w.q.in = v.q.in \ {t}
      BY <3>2, <2>2, <1>0, DequeueOK
    <3>4. w \in Searches
      BY <3>1, <3>2, <3>3, <1>0 DEF Searches, QueueOK
    <3>5. \A x \in r.in \ w.q.in : x \notin run /\ pr[x] >= v.p
      BY <3>3, <2>2, <2>4, <1>1, <1>2 DEF FindOK
    <3> QED BY <3>2, <3>3, <3>4, <3>5, <1>1 DEF FindOK
  <2> QED BY <2>3, <2>4
<1> QED BY <1>3, <1>4, <1>5, <1>6

\* The whole search.
LEMMA FindNextOK ==
  ASSUME NEW pr \in [Threads -> Prios], NEW r, QueueOK(r, pr), NEW run
  PROVE  FindOK(r, pr, run, find_next_thread(r, pr, run))
<1> DEFINE rounds == MaxPrio + Cardinality(Threads) + 3
           start == {[q |-> r, p |-> r.max, x |-> Null]}
           D == {{v} : v \in {w \in Searches : FindOK(r, pr, run, w)}}
           Walk(f) == [n \in 0 .. rounds |-> IF n = 0 THEN start
                                              ELSE {FindRound(s, pr, run) : s \in f[n - 1]}]
           G == [kx \in (1 .. rounds) \X D |-> {FindRound(s, pr, run) : s \in kx[2]}]
<1>1. rounds \in Nat
  BY RunQueueAssumption, FS_CardinalityType
<1>2. start \in D
  <2> DEFINE v == [q |-> r, p |-> r.max, x |-> Null]
  <2>1. v \in Searches /\ r \in Queues /\ Covered(r, pr)
    BY DEF Searches, QueueOK, Queues
  <2>2. FindOK(r, pr, run, v)
    BY <2>1, RunQueueAssumption DEF FindOK, Covered
  <2> QED BY <2>1, <2>2
<1>3. \A X \in D : {FindRound(s, pr, run) : s \in X} \in D
  <2> SUFFICES ASSUME NEW v \in Searches, FindOK(r, pr, run, v)
               PROVE  {FindRound(s, pr, run) : s \in {v}} \in D
    OBVIOUS
  <2>1. FindOK(r, pr, run, FindRound(v, pr, run))
    BY FindRoundOK
  <2>2. FindRound(v, pr, run) \in Searches
    BY <2>1 DEF FindOK
  <2> QED BY <2>1, <2>2
<1>4. G \in [(1 .. rounds) \X D -> D]
  BY <1>3
<1> HIDE DEF D, start, rounds, G
<1>5. PICK f : Iterates(f, rounds, start, G, D)
  BY <1>1, <1>2, <1>4, IterationExists
<1>6. f = Walk(f)
  <2>1. \A n \in 0 .. rounds : n # 0 => n \in 1 .. rounds /\ n - 1 \in 0 .. rounds
    BY <1>1
  <2>2. f \in [0 .. rounds -> D] /\ f[0] = start
    BY <1>5 DEF Iterates
  <2>3. \A n \in 1 .. rounds : f[n] = G[<<n, f[n - 1]>>]
    BY <1>5 DEF Iterates
  <2>4. ASSUME NEW n \in 1 .. rounds PROVE f[n] = {FindRound(s, pr, run) : s \in f[n - 1]}
    <3>1. f[n - 1] \in D
      <4>1. n - 1 \in 0 .. rounds
        BY <1>1
      <4> QED BY <4>1, <2>2
    <3>2. <<n, f[n - 1]>> \in (1 .. rounds) \X D
      BY <3>1
    <3>3. G[<<n, f[n - 1]>>] = {FindRound(s, pr, run) : s \in f[n - 1]}
      BY <3>2 DEF G
    <3> QED BY <3>3, <2>3
  <2>5. \A n \in 0 .. rounds : f[n] = Walk(f)[n]
    BY <2>1, <2>2, <2>4
  <2> QED BY <2>2, <2>5
<1> DEFINE S == CHOOSE g : g = Walk(g)
<1>7. S = Walk(S)
  <2> HIDE DEF Walk
  <2> QED BY <1>6
<1>8. find_next_thread(r, pr, run) = CHOOSE s \in S[rounds] : TRUE
  BY DEF find_next_thread, rounds, start
<1> HIDE DEF S
<1>9. S[0] \in D
  BY <1>1, <1>2, <1>7
<1>10. \A n \in 1 .. rounds : S[n - 1] \in D => S[n] \in D
  <2> SUFFICES ASSUME NEW n \in 1 .. rounds, S[n - 1] \in D PROVE S[n] \in D
    OBVIOUS
  <2>1. n \in 0 .. rounds /\ n # 0
    BY <1>1
  <2>2. S[n] = {FindRound(s, pr, run) : s \in S[n - 1]}
    BY <2>1, <1>7
  <2> QED BY <2>2, <1>3
<1>11. \A k \in 0 .. rounds : S[k] \in D
  BY <1>1, <1>9, <1>10, Induction
<1>12. S[rounds] \in D
  BY <1>1, <1>11
<1>13. PICK v \in Searches : S[rounds] = {v} /\ FindOK(r, pr, run, v)
  BY <1>12 DEF D
<1>14. find_next_thread(r, pr, run) = v
  BY <1>8, <1>13
<1> QED BY <1>13, <1>14
-----------------------------------------------------------------------------
(* parse_wakeup_queues *)

\* The threads that a tick wakes are blocked.
LEMMA OrderOK ==
  ASSUME NEW order \in SetToAllKPermutations(blocked) \cup {<< >>}
  PROVE  /\ order \in Seq(blocked)
         /\ ToSet(order) = {order[i] : i \in 1 .. Len(order)}
         /\ ToSet(order) \subseteq blocked
<1>1. order \in Seq(blocked)
  <2>1. CASE order = << >>
    BY <2>1
  <2>2. CASE order \in SetToAllKPermutations(blocked)
    <3>1. PICK s \in SUBSET blocked : order \in SetToSeqs(s)
      BY <2>2 DEF SetToAllKPermutations
    <3>2. Cardinality(s) \in Nat
      BY <3>1, RunQueueAssumption, FS_Subset, FS_CardinalityType DEF blocked
    <3>3. order \in [1 .. Cardinality(s) -> s]
      BY <3>1 DEF SetToSeqs
    <3> QED BY <3>1, <3>2, <3>3
  <2> QED BY <2>1, <2>2
<1>2. ToSet(order) = {order[i] : i \in 1 .. Len(order)}
  BY DEF ToSet
<1>3. \A i \in 1 .. Len(order) : order[i] \in blocked
  BY <1>1
<1> QED BY <1>1, <1>2, <1>3

\* Queueing them keeps the queue in order.
LEMMA WokenQueueOK ==
  ASSUME prio \in [Threads -> Prios], QueueOK(q, prio), NEW order \in Seq(Threads)
  PROVE  /\ QueueOK(WokenQueue(order), prio)
         /\ WokenQueue(order).in = q.in \cup {order[i] : i \in 1 .. Len(order)}
<1> DEFINE n == Len(order)
           D == {r \in Queues : QueueOK(r, prio)}
           Walk(f) == [k \in 0 .. n |-> IF k = 0 THEN q ELSE Enq(f[k - 1], order[k], FALSE)]
           G == [kx \in (1 .. n) \X D |-> Enq(kx[2], order[kx[1]], FALSE)]
<1>1. n \in Nat /\ \A k \in 1 .. n : order[k] \in Threads
  OBVIOUS
<1>2. q \in D
  BY DEF QueueOK
<1>3. ASSUME NEW r \in D, NEW t \in Threads
      PROVE  Enq(r, t, FALSE) \in D /\ Enq(r, t, FALSE).in = r.in \cup {t}
  BY EnqOK DEF QueueOK
<1>4. G \in [(1 .. n) \X D -> D]
  BY <1>1, <1>3
<1> HIDE DEF D, G, n
<1>5. PICK f : Iterates(f, n, q, G, D)
  BY <1>1, <1>2, <1>4, IterationExists
<1>6. f = Walk(f)
  <2>1. \A k \in 0 .. n : k # 0 => k \in 1 .. n
    BY <1>1
  <2>2. f \in [0 .. n -> D] /\ f[0] = q
    BY <1>5 DEF Iterates
  <2>3. ASSUME NEW k \in 1 .. n PROVE f[k] = Enq(f[k - 1], order[k], FALSE)
    <3>1. k - 1 \in 0 .. n
      BY <1>1
    <3>2. <<k, f[k - 1]>> \in (1 .. n) \X D
      BY <3>1, <2>2
    <3>3. f[k] = G[<<k, f[k - 1]>>]
      BY <1>5 DEF Iterates
    <3> QED BY <3>2, <3>3 DEF G
  <2>4. \A k \in 0 .. n : f[k] = Walk(f)[k]
    BY <2>1, <2>2, <2>3
  <2> QED BY <2>2, <2>4
<1> DEFINE W == CHOOSE g : g = Walk(g)
<1>7. W = Walk(W)
  <2> HIDE DEF Walk
  <2> QED BY <1>6
<1>8. WokenQueue(order) = W[n]
  BY DEF WokenQueue, n
<1> HIDE DEF W
<1> DEFINE Upto(k) == {order[i] : i \in 1 .. k}
           F == [k \in 0 .. n |-> <<k, W[k]>>]
           E == {kr \in (0 .. n) \X D : kr[2].in = q.in \cup Upto(kr[1])}
<1>9. F[0] \in E
  <2>1. W[0] = q /\ Upto(0) = {} /\ 0 \in 0 .. n
    BY <1>1, <1>7
  <2> QED BY <2>1, <1>2
<1>10. ASSUME NEW k \in 1 .. n, F[k - 1] \in E PROVE F[k] \in E
  <2>1. k \in 0 .. n /\ k - 1 \in 0 .. n /\ k # 0
    BY <1>1
  <2>2. W[k - 1] \in D /\ W[k - 1].in = q.in \cup Upto(k - 1)
    BY <2>1, <1>10
  <2>3. W[k] = Enq(W[k - 1], order[k], FALSE)
    BY <2>1, <1>7
  <2>4. W[k] \in D /\ W[k].in = q.in \cup Upto(k - 1) \cup {order[k]}
    <3>1. Enq(W[k - 1], order[k], FALSE).in = W[k - 1].in \cup {order[k]}
      BY <2>2, <1>1, <1>3
    <3>2. Enq(W[k - 1], order[k], FALSE) \in D
      BY <2>2, <1>1, <1>3
    <3> QED BY <2>2, <2>3, <3>1, <3>2
  <2>5. Upto(k) = Upto(k - 1) \cup {order[k]}
    <3>1. 1 .. k = (1 .. k - 1) \cup {k}
      BY <1>1
    <3> QED BY <3>1
  <2> QED BY <2>1, <2>4, <2>5
<1> HIDE DEF F, E
<1>11. \A k \in 0 .. n : F[k] \in E
  BY <1>1, <1>9, <1>10, Induction
<1>12. F[n] \in E /\ F[n] = <<n, W[n]>>
  BY <1>1, <1>11 DEF F
<1> QED BY <1>8, <1>12 DEF E, D, n

\* check_dispatch_thread prefers threads of higher priority only.
LEMMA DispatchesUpwards ==
  ASSUME prio \in [Threads -> Prios], sens \in [Threads -> Prios], delay \in [Threads -> Nat],
         \A t \in Threads : prio[t] <= sens[t],
         NEW c \in Threads, NEW t \in Threads, check_dispatch_thread(c, t)
  PROVE  prio[c] < prio[t]
BY RunQueueAssumption DEF check_dispatch_thread, delay_preemption, Prios

\* A woken thread replaces the current one only if it has a higher priority.
LEMMA HighestWakeupOK ==
  ASSUME prio \in [Threads -> Prios], sens \in [Threads -> Prios], delay \in [Threads -> Nat],
         \A t \in Threads : prio[t] <= sens[t],
         current \in Threads, NEW order \in Seq(Threads)
  PROVE  LET w == HighestWakeup(order)
         IN w = current \/ /\ w \in {order[i] : i \in 1 .. Len(order)}
                           /\ prio[current] < prio[w]
<1> DEFINE n == Len(order)
           D == {t \in {current} \cup {order[i] : i \in 1 .. n} :
                   t = current \/ prio[current] < prio[t]}
           Step(c, t) == IF check_dispatch_thread(c, t) THEN t ELSE c
           Walk(f) == [k \in 0 .. n |-> IF k = 0 THEN current ELSE Step(f[k - 1], order[k])]
           G == [kx \in (1 .. n) \X D |-> Step(kx[2], order[kx[1]])]
<1>1. n \in Nat /\ \A k \in 1 .. n : order[k] \in Threads
  OBVIOUS
<1>2. \A c, t \in Threads : check_dispatch_thread(c, t) => prio[c] < prio[t]
  BY DispatchesUpwards
<1>3. ASSUME NEW c \in D, NEW k \in 1 .. n PROVE Step(c, order[k]) \in D
  <2>1. c \in Threads /\ order[k] \in Threads
    BY <1>1
  <2>2. prio[current] \in Int /\ prio[c] \in Int /\ prio[order[k]] \in Int
    BY <2>1, RunQueueAssumption DEF Prios
  <2>3. prio[current] <= prio[c]
    BY <2>2
  <2>4. check_dispatch_thread(c, order[k]) => prio[current] < prio[order[k]]
    BY <2>1, <2>2, <2>3, <1>2
  <2> QED BY <2>4
<1>4. G \in [(1 .. n) \X D -> D]
  BY <1>3
<1>a. current \in D
  OBVIOUS
<1> HIDE DEF D, G, n, Step
<1>5. PICK f : Iterates(f, n, current, G, D)
  BY <1>1, <1>4, <1>a, IterationExists
<1>6. f = Walk(f)
  <2>1. \A k \in 0 .. n : k # 0 => k \in 1 .. n
    BY <1>1
  <2>2. f \in [0 .. n -> D] /\ f[0] = current
    BY <1>5 DEF Iterates
  <2>3. ASSUME NEW k \in 1 .. n PROVE f[k] = Step(f[k - 1], order[k])
    <3>1. k - 1 \in 0 .. n
      BY <1>1
    <3>2. <<k, f[k - 1]>> \in (1 .. n) \X D
      BY <3>1, <2>2
    <3>3. f[k] = G[<<k, f[k - 1]>>]
      BY <1>5 DEF Iterates
    <3> QED BY <3>2, <3>3 DEF G
  <2>4. \A k \in 0 .. n : f[k] = Walk(f)[k]
    BY <2>1, <2>2, <2>3
  <2> QED BY <2>2, <2>4
<1> DEFINE H == CHOOSE g : g = Walk(g)
<1>7. H = Walk(H)
  <2> HIDE DEF Walk
  <2> QED BY <1>6
<1>8. HighestWakeup(order) = H[n]
  BY DEF HighestWakeup, n, Step
<1> HIDE DEF H
<1>9. H[0] \in D
  BY <1>1, <1>7, <1>a
<1>10. ASSUME NEW k \in 1 .. n, H[k - 1] \in D PROVE H[k] \in D
  <2>1. k \in 0 .. n /\ k # 0
    BY <1>1
  <2>2. H[k] = Step(H[k - 1], order[k])
    BY <2>1, <1>7
  <2> QED BY <2>2, <1>3, <1>10
<1>11. \A k \in 0 .. n : H[k] \in D
  BY <1>1, <1>9, <1>10, Induction
<1>12. H[n] \in D
  BY <1>1, <1>11
<1> QED BY <1>8, <1>12 DEF D, n
-----------------------------------------------------------------------------
(* The inductive invariant *)

\* Nobody schedules a thread that has no pager yet.
NoInactiveSchedule == \A t \in Threads : ~Does("inactive", t)

\* delay_preemption looks at the sensitive priority only, which is not below the priority.
SensAbove == \A t \in Threads : prio[t] <= sens[t]

\* A queued thread exists and is active.
QueuedActive == \A t \in q.in : state[t] \in {"blocked", "running"}

\* The current thread can run.
CurrentRuns == current # Idle => state[current] = "running"

RunQueueInv == TypeOK /\ QueueOK(q, prio) /\ SensAbove /\ QueuedActive /\ CurrentRuns

\* The invariant, taken apart.
LEMMA InvFacts ==
  ASSUME RunQueueInv
  PROVE  /\ current \in Threads \cup {Idle} /\ state \in [Threads -> States]
         /\ q \in Queues /\ q.in \subseteq Threads
         /\ prio \in [Threads -> Prios] /\ sens \in [Threads -> Prios]
         /\ len \in [Threads -> Nat] /\ slice \in [Threads -> Int] /\ pslice \in Int
         /\ maxdelay \in [Threads -> Nat] /\ delay \in [Threads -> Nat]
         /\ delayed \subseteq Threads
         /\ QueueOK(q, prio) /\ SensAbove /\ QueuedActive /\ CurrentRuns
         /\ Idle \notin Threads /\ Prios \subseteq Nat
BY RunQueueAssumption DEF RunQueueInv, TypeOK, QueueOK, Prios

\* The queue has the type that TypeOK gives it.
LEMMA QueueTyped ==
  ASSUME NEW r \in Queues
  PROVE  /\ r.head \in [Prios -> Threads \cup {Null}]
         /\ r.next \in [Threads -> Threads \cup {Null}]
         /\ r.prev \in [Threads -> Threads \cup {Null}]
         /\ r.in \subseteq Threads /\ r.max \in Prios \cup {-1}
BY DEF Queues, Links

\* set() in end_of_timeslice: the ring moves on, and stays a ring.
LEMMA RotatedOK ==
  ASSUME prio \in [Threads -> Prios], NEW r, QueueOK(r, prio), NEW c \in Threads
  PROVE  /\ QueueOK(Rotated(r, c), prio)
         /\ Rotated(r, c).in = r.in \cup {c}
         /\ Rotated(r, c).head[prio[c]] \in Threads
<1> DEFINE e == Enq(r, c, TRUE)
           n == e.next[c]
<1>1. QueueOK(e, prio) /\ e.in = r.in \cup {c}
  BY EnqOK
<1>2. Rotated(r, c) = [e EXCEPT !.head[prio[c]] = n]
  BY DEF Rotated
<1> HIDE DEF e
<1>3. c \in e.in
  BY <1>1
<1>4. e \in Queues /\ e.in \subseteq Threads /\ n \in e.in /\ prio[n] = prio[c]
  BY <1>1, <1>3 DEF QueueOK, Woven, Queues
<1>5. QueueOK([e EXCEPT !.head[prio[c]] = n], prio)
  <2>1. QueueOK([e EXCEPT !.head[prio[n]] = n], prio)
    BY <1>1, <1>4, HeadOK
  <2> QED BY <2>1, <1>4
<1>6. /\ [e EXCEPT !.head[prio[c]] = n].in = e.in
      /\ [e EXCEPT !.head[prio[c]] = n].head[prio[c]] = n
  BY <1>4 DEF Queues
<1> QED BY <1>1, <1>2, <1>4, <1>5, <1>6

\* A scheduling decision is one of the ready set's.
LEMMA ScheduleOK ==
  ASSUME prio \in [Threads -> Prios], current \in Threads \cup {Idle},
         NEW r, QueueOK(r, prio), NEW st, schedule(r, st)
  PROVE  /\ QueueOK(q', prio)
         /\ current' \in Threads \cup {Idle}
         /\ current' # Idle => current' \in st
         /\ q'.in \subseteq r.in \cup ({current} \ {Idle})
         /\ \E rest \in SUBSET r.in :
              /\ Set!Choice(r.in, st, current', rest)
              /\ q'.in = IF current' # current THEN rest \cup ({current} \ {Idle}) ELSE rest
<1> DEFINE f == find_next_thread(r, prio, st)
<1>1. /\ f.x # Null /\ current' = f.x
      /\ q' = IF f.x # current /\ current # Idle THEN Enq(f.q, current, FALSE) ELSE f.q
  BY DEF schedule
<1>2. FindOK(r, prio, st, f)
  BY FindNextOK
<1> HIDE DEF f
<1>3. /\ f.x \in Threads \cup {Idle} /\ f.p \in Prios \cup {-1} /\ QueueOK(f.q, prio)
      /\ f.q.in \subseteq r.in /\ r.in \subseteq Threads
  BY <1>1, <1>2 DEF FindOK, Searches, QueueOK, Queues
<1>4. /\ f.x = Idle => f.q.in = {}
      /\ f.x \in Threads => f.x \in f.q.in /\ f.x \in st /\ prio[f.x] = f.p
      /\ \A y \in f.q.in : prio[y] <= f.p
      /\ \A y \in r.in \ f.q.in : y \notin st /\ prio[y] >= f.p
  BY <1>2 DEF FindOK
<1>5. Set!Choice(r.in, st, f.x, f.q.in)
  <2>1. CASE f.x = Idle
    BY <2>1, <1>4 DEF Set!Choice
  <2>2. CASE f.x \in Threads
    <3>1. f.x \in r.in \cap st
      BY <2>2, <1>3, <1>4
    <3>2. \A y \in r.in \cap st : prio[y] <= prio[f.x]
      BY <2>2, <1>4
    <3>3. r.in \ f.q.in \subseteq {y \in r.in \ st : prio[y] >= prio[f.x]}
      BY <2>2, <1>4
    <3>4. \A y \in f.q.in : prio[y] <= prio[f.x]
      BY <2>2, <1>4
    <3> QED BY <3>1, <3>2, <3>3, <3>4 DEF Set!Choice
  <2> QED BY <2>1, <2>2, <1>3
<1>6. CASE f.x # current /\ current # Idle
  <2>1. QueueOK(q', prio) /\ q'.in = f.q.in \cup {current}
    BY <1>1, <1>3, <1>6, EnqOK
  <2> QED BY <2>1, <1>1, <1>3, <1>4, <1>5, <1>6
<1>7. CASE f.x = current
  BY <1>1, <1>3, <1>4, <1>5, <1>7
<1>8. CASE f.x # current /\ current = Idle
  BY <1>1, <1>3, <1>4, <1>5, <1>8
<1> QED BY <1>6, <1>7, <1>8
-----------------------------------------------------------------------------
(* One lemma per action: it keeps the invariant and is a step of the ready set. *)

\* Block
LEMMA BlockStep ==
  ASSUME RunQueueInv, Block
  PROVE  RunQueueInv' /\ [Set!Next]_(Set!vars)
<1>1. current \in Threads /\ state[current] = "running" /\ current \in runnable
  BY InvFacts DEF Block, CurrentRuns, runnable
<1>2. /\ current' = Idle /\ q' = q /\ prio' = prio
      /\ state' = [state EXCEPT ![current] = "blocked"]
  BY DEF Block, params
<1>3. TypeOK'
  BY <1>1, InvFacts, QueueTyped DEF Block, TypeOK, States, params
<1>4. QueueOK(q', prio') /\ SensAbove' /\ QueuedActive' /\ CurrentRuns'
  BY <1>2, InvFacts DEF Block, SensAbove, QueuedActive, CurrentRuns, params
<1>5. runnable' = runnable \ {current}
  BY <1>1, <1>2, InvFacts DEF runnable
<1>6. Set!Block(Idle)
  BY <1>1, <1>2, <1>5 DEF Set!Block
<1> QED BY <1>3, <1>4, <1>6 DEF RunQueueInv, Set!Next

\* Handoff
LEMMA HandoffStep ==
  ASSUME RunQueueInv, NEW d \in Threads, Handoff(d)
  PROVE  RunQueueInv' /\ [Set!Next]_(Set!vars)
<1>1. /\ current \in Threads /\ state[current] = "running" /\ current \in runnable
      /\ d # current /\ state[d] = "blocked" /\ d \notin runnable /\ d # Idle
  BY InvFacts DEF Handoff, CurrentRuns, runnable, blocked
<1>2. /\ current' = d /\ q' = q /\ prio' = prio
      /\ state' = [state EXCEPT ![current] = "blocked", ![d] = "running"]
  BY DEF Handoff, params
<1>3. TypeOK'
  BY <1>1, InvFacts, QueueTyped DEF Handoff, TypeOK, States, params
<1>4. QueueOK(q', prio') /\ SensAbove' /\ QueuedActive' /\ CurrentRuns'
  BY <1>1, <1>2, InvFacts DEF Handoff, SensAbove, QueuedActive, CurrentRuns, params
<1>5. runnable' = (runnable \ {current}) \cup {d}
  BY <1>1, <1>2, InvFacts DEF runnable
<1>6. Set!Block(d)
  BY <1>1, <1>2, <1>5 DEF Set!Block
<1> QED BY <1>1, <1>3, <1>4, <1>6 DEF RunQueueInv, Set!Next

\* Stop
LEMMA StopStep ==
  ASSUME RunQueueInv, NEW d \in Threads, Stop(d)
  PROVE  RunQueueInv' /\ [Set!Next]_(Set!vars)
<1>1. /\ d # current /\ current' = current /\ q' = q /\ prio' = prio
      /\ state' = [state EXCEPT ![d] = "blocked"]
  BY DEF Stop, params
<1>2. TypeOK'
  BY <1>1, InvFacts, QueueTyped DEF Stop, TypeOK, States, params
<1>3. QueueOK(q', prio') /\ SensAbove' /\ QueuedActive' /\ CurrentRuns'
  BY <1>1, InvFacts DEF Stop, SensAbove, QueuedActive, CurrentRuns, params
<1>4. runnable' = runnable \ {d}
  BY <1>1, InvFacts DEF runnable
<1>5. Set!Stop(d)
  BY <1>1, <1>4 DEF Set!Stop
<1> QED BY <1>2, <1>3, <1>5 DEF RunQueueInv, Set!Next

\* SetDelayed
LEMMA SetDelayedStep ==
  ASSUME RunQueueInv, SetDelayed
  PROVE  RunQueueInv' /\ [Set!Next]_(Set!vars)
<1>1. TypeOK'
  BY InvFacts, QueueTyped DEF SetDelayed, TypeOK, params
<1>2. QueueOK(q', prio') /\ SensAbove' /\ QueuedActive' /\ CurrentRuns'
  BY InvFacts DEF SetDelayed, SensAbove, QueuedActive, CurrentRuns, params
<1>3. UNCHANGED Set!vars
  BY DEF SetDelayed, Set!vars, runnable, params
<1> QED BY <1>1, <1>2, <1>3 DEF RunQueueInv

\* Activate
LEMMA ActivateStep ==
  ASSUME RunQueueInv, NEW t \in Threads, Activate(t)
  PROVE  RunQueueInv' /\ [Set!Next]_(Set!vars)
<1>1. /\ current' = current /\ q' = q /\ prio' = prio
      /\ state[t] = "inactive" /\ state' = [state EXCEPT ![t] = "blocked"]
  BY DEF Activate, params
<1>2. TypeOK'
  BY <1>1, InvFacts, QueueTyped DEF Activate, TypeOK, States, params
<1>3. QueueOK(q', prio') /\ SensAbove' /\ QueuedActive' /\ CurrentRuns'
  BY <1>1, InvFacts DEF Activate, SensAbove, QueuedActive, CurrentRuns, params
<1>4. UNCHANGED Set!vars
  BY <1>1, InvFacts DEF Set!vars, runnable
<1> QED BY <1>2, <1>3, <1>4 DEF RunQueueInv

\* SchedulePreemption
LEMMA SchedulePreemptionStep ==
  ASSUME RunQueueInv, NEW d \in Threads, NEW m \in Delays, NEW p \in Prios,
         SchedulePreemption(d, m, p)
  PROVE  RunQueueInv' /\ [Set!Next]_(Set!vars)
<1>1. m \in Nat
  BY RunQueueAssumption
<1>2. TypeOK'
  BY <1>1, InvFacts, QueueTyped DEF SchedulePreemption, TypeOK
<1>3. QueueOK(q', prio') /\ SensAbove' /\ QueuedActive' /\ CurrentRuns'
  BY InvFacts DEF SchedulePreemption, SensAbove, QueuedActive, CurrentRuns, Prios
<1>4. UNCHANGED Set!vars
  BY DEF SchedulePreemption, Set!vars, runnable
<1> QED BY <1>2, <1>3, <1>4 DEF RunQueueInv

\* Donate
LEMMA DonateStep ==
  ASSUME RunQueueInv, NEW d \in Threads, Donate(d)
  PROVE  RunQueueInv' /\ [Set!Next]_(Set!vars)
<1>1. /\ current \in Threads /\ state[current] = "running"
      /\ d \in runnable /\ state[d] = "running"
  BY InvFacts DEF Donate, CurrentRuns, runnable
<1>2. /\ current' = d /\ state' = state /\ prio' = prio
      /\ QueueOK(q', prio) /\ q'.in = q.in \cup {current}
  BY <1>1, InvFacts, EnqOK DEF Donate, params
<1>3. TypeOK'
  BY <1>1, <1>2, InvFacts, QueueTyped DEF Donate, TypeOK, params, QueueOK
<1>4. QueueOK(q', prio') /\ SensAbove' /\ QueuedActive' /\ CurrentRuns'
  BY <1>1, <1>2, InvFacts DEF Donate, SensAbove, QueuedActive, CurrentRuns, params
<1>5. Set!Donate(d)
  BY <1>1, <1>2 DEF Set!Donate, runnable
<1> QED BY <1>3, <1>4, <1>5 DEF RunQueueInv, Set!Next

\* Send
LEMMA SendStep ==
  ASSUME RunQueueInv, NEW d \in Threads, Send(d)
  PROVE  RunQueueInv' /\ [Set!Next]_(Set!vars)
<1>1. /\ current \in Threads /\ state[current] = "running"
      /\ d # current /\ state[d] = "blocked" /\ {d} \in SUBSET (Threads \ runnable)
  BY InvFacts DEF Send, CurrentRuns, runnable, blocked
<1>2. /\ prio' = prio /\ state' = [state EXCEPT ![d] = "running"]
      /\ runnable' = runnable \cup {d}
  BY InvFacts DEF Send, params, runnable
<1>3. QueueOK(q', prio) /\ q'.in \subseteq q.in \cup {current, d} /\ current' \in {current, d}
  <2>1. /\ QueueOK(Enq(q, current, FALSE), prio) /\ Enq(q, current, FALSE).in = q.in \cup {current}
        /\ QueueOK(Enq(q, d, FALSE), prio) /\ Enq(q, d, FALSE).in = q.in \cup {d}
    BY <1>1, InvFacts, EnqOK
  <2>2. q' \in {Enq(q, current, FALSE), Enq(q, d, FALSE)} /\ current' \in {current, d}
    BY DEF Send
  <2> QED BY <2>1, <2>2
<1>4. TypeOK'
  BY <1>1, <1>2, <1>3, InvFacts, QueueTyped DEF Send, TypeOK, States, params, QueueOK
<1>5. QueueOK(q', prio') /\ SensAbove' /\ QueuedActive' /\ CurrentRuns'
  BY <1>1, <1>2, <1>3, InvFacts DEF Send, SensAbove, QueuedActive, CurrentRuns, params
<1>6. CASE check_dispatch_thread(current, d)
  <2>1. prio[current] < prio[d]
    <3>1. \A t \in Threads : prio[t] <= sens[t]
      BY InvFacts DEF SensAbove
    <3>2. prio \in [Threads -> Prios] /\ sens \in [Threads -> Prios] /\ delay \in [Threads -> Nat]
      BY InvFacts
    <3> QED BY <1>1, <1>6, <3>1, <3>2, DispatchesUpwards
  <2>2. current' = d /\ q'.in = q.in \cup ({d} \ {d}) \cup {current}
    <3>1. Enq(q, current, FALSE).in = q.in \cup {current}
      BY <1>1, InvFacts, EnqOK
    <3> QED BY <3>1, <1>6 DEF Send
  <2>3. Set!Preempt({d}, d)
    BY <2>1, <2>2, <1>1, <1>2 DEF Set!Preempt
  <2> QED BY <2>3, <1>1, <1>4, <1>5 DEF RunQueueInv, Set!Next
<1>7. CASE ~check_dispatch_thread(current, d)
  <2>1. current' = current /\ q'.in = q.in \cup {d}
    BY <1>7, InvFacts, EnqOK DEF Send
  <2>2. Set!Wake({d})
    BY <2>1, <1>2 DEF Set!Wake
  <2> QED BY <2>2, <1>1, <1>4, <1>5 DEF RunQueueInv, Set!Next
<1> QED BY <1>6, <1>7

\* IdleSchedule
LEMMA IdleScheduleStep ==
  ASSUME RunQueueInv, IdleSchedule
  PROVE  RunQueueInv' /\ [Set!Next]_(Set!vars)
<1>1. /\ current = Idle /\ state' = state /\ prio' = prio /\ runnable' = runnable
      /\ schedule(q, runnable)
  BY DEF IdleSchedule, params, runnable
<1>2. /\ prio \in [Threads -> Prios] /\ current \in Threads \cup {Idle} /\ QueueOK(q, prio)
  BY InvFacts
<1>3. /\ QueueOK(q', prio) /\ current' \in Threads \cup {Idle}
      /\ current' # Idle => current' \in runnable
      /\ q'.in \subseteq q.in
      /\ \E rest \in SUBSET q.in :
           /\ Set!Choice(q.in, runnable, current', rest)
           /\ q'.in = IF current' # current THEN rest \cup ({current} \ {Idle}) ELSE rest
  BY <1>1, <1>2, ScheduleOK
<1>4. TypeOK'
  BY <1>1, <1>3, InvFacts, QueueTyped DEF IdleSchedule, TypeOK, params, QueueOK
<1>5. QueueOK(q', prio') /\ SensAbove' /\ QueuedActive' /\ CurrentRuns'
  BY <1>1, <1>3, InvFacts DEF IdleSchedule, SensAbove, QueuedActive, CurrentRuns, params, runnable
<1>6. Set!Decide({})
  <2>1. q.in \cup {} \cup ({current} \ {Idle}) = q.in /\ runnable \cup {} = runnable
    BY <1>1
  <2>2. PICK rest \in SUBSET q.in :
           /\ Set!Choice(q.in, runnable, current', rest)
           /\ q'.in = IF current' # current THEN rest \cup ({current} \ {Idle}) ELSE rest
    BY <1>3
  <2>3. Set!Choice(q.in \cup {} \cup ({current} \ {Idle}), runnable \cup {}, current', rest)
    BY <2>1, <2>2
  <2> QED BY <2>1, <2>2, <2>3, <1>1, <1>3 DEF Set!Decide
<1>7. {} \in SUBSET (Threads \ runnable)
  OBVIOUS
<1> QED BY <1>4, <1>5, <1>6, <1>7 DEF RunQueueInv, Set!Next

\* Yield
LEMMA YieldStep ==
  ASSUME RunQueueInv, Yield
  PROVE  RunQueueInv' /\ [Set!Next]_(Set!vars)
<1> DEFINE r == Enq(q, current, FALSE)
           s == Rotated(r, current)
<1>1. /\ current \in Threads /\ state' = state /\ prio' = prio /\ runnable' = runnable
      /\ current \in runnable /\ schedule(s, runnable)
      /\ slice' = [slice EXCEPT ![current] = 0 + len[current]]
      /\ pslice' = slice'[s.head[prio[current]]]
      /\ delay' = [delay EXCEPT ![current] = maxdelay[current]]
  BY InvFacts DEF Yield, end_of_timeslice, params, runnable, CurrentRuns
<1>2. /\ prio \in [Threads -> Prios] /\ current \in Threads \cup {Idle} /\ QueueOK(q, prio)
  BY InvFacts
<1>3. QueueOK(r, prio) /\ r.in = q.in \cup {current}
  BY <1>1, <1>2, EnqOK
<1> HIDE DEF r
<1>4. QueueOK(s, prio) /\ s.in = q.in \cup {current} /\ s.head[prio[current]] \in Threads
  <2>1. /\ QueueOK(s, prio) /\ s.in = r.in \cup {current} /\ s.head[prio[current]] \in Threads
    BY <1>1, <1>2, <1>3, RotatedOK
  <2> QED BY <2>1, <1>3
<1> HIDE DEF s
<1>5. /\ QueueOK(q', prio) /\ current' \in Threads \cup {Idle}
      /\ current' # Idle => current' \in runnable
      /\ q'.in \subseteq s.in \cup ({current} \ {Idle})
      /\ \E rest \in SUBSET s.in :
           /\ Set!Choice(s.in, runnable, current', rest)
           /\ q'.in = IF current' # current THEN rest \cup ({current} \ {Idle}) ELSE rest
  BY <1>1, <1>2, <1>4, ScheduleOK
<1>6. slice' \in [Threads -> Int] /\ pslice' \in Int /\ delay' \in [Threads -> Nat]
  BY <1>1, <1>4, InvFacts
<1>7. TypeOK'
  BY <1>1, <1>5, <1>6, InvFacts, QueueTyped DEF Yield, TypeOK, params, QueueOK
<1>8. QueueOK(q', prio') /\ SensAbove' /\ QueuedActive' /\ CurrentRuns'
  BY <1>1, <1>4, <1>5, InvFacts DEF Yield, SensAbove, QueuedActive, CurrentRuns, params, runnable
<1>9. Set!Decide({})
  <2>1. q.in \cup {} \cup ({current} \ {Idle}) = s.in /\ runnable \cup {} = runnable
    BY <1>1, <1>4, InvFacts
  <2>2. PICK rest \in SUBSET s.in :
           /\ Set!Choice(s.in, runnable, current', rest)
           /\ q'.in = IF current' # current THEN rest \cup ({current} \ {Idle}) ELSE rest
    BY <1>5
  <2>3. Set!Choice(q.in \cup {} \cup ({current} \ {Idle}), runnable \cup {}, current', rest)
    BY <2>1, <2>2
  <2> QED BY <2>1, <2>2, <2>3, <1>1, <1>5 DEF Set!Decide
<1>10. {} \in SUBSET (Threads \ runnable)
  OBVIOUS
<1> QED BY <1>7, <1>8, <1>9, <1>10 DEF RunQueueInv, Set!Next

\* ScheduleTime
LEMMA ScheduleTimeStep ==
  ASSUME RunQueueInv, NoInactiveSchedule, NEW d \in Threads, ScheduleTime(d)
  PROVE  RunQueueInv' /\ [Set!Next]_(Set!vars)
<1>1. /\ current' = current /\ state' = state /\ prio' = prio /\ sens' = sens
      /\ pslice' = pslice /\ maxdelay' = maxdelay /\ delay' = delay /\ delayed' = delayed
      /\ runnable' = runnable /\ state[d] \in {"running", "blocked"}
  BY DEF ScheduleTime, MaySchedule, NoInactiveSchedule, runnable
<1>2. /\ QueueOK(q', prio) /\ q'.in \in {q.in, q.in \cup {d}}
      /\ len' \in [Threads -> Nat] /\ slice' \in [Threads -> Int]
  <2>1. CASE q' = Enq(q, d, FALSE) /\ slice' = [slice EXCEPT ![d] = len[d]] /\ UNCHANGED len
    <3>1. QueueOK(q', prio) /\ q'.in = q.in \cup {d}
      BY <2>1, InvFacts, EnqOK
    <3>2. len \in [Threads -> Nat] /\ slice \in [Threads -> Int]
      BY InvFacts
    <3>3. slice' \in [Threads -> Int] /\ len' \in [Threads -> Nat]
      BY <2>1, <3>2
    <3> QED BY <3>1, <3>3
  <2>2. CASE \E l \in Lengths : /\ len' = [len EXCEPT ![d] = l]
                                /\ slice' = [slice EXCEPT ![d] = l]
                                /\ UNCHANGED q
    <3>1. PICK l \in Lengths : /\ len' = [len EXCEPT ![d] = l]
                               /\ slice' = [slice EXCEPT ![d] = l]
                               /\ UNCHANGED q
      BY <2>2
    <3>2. l \in Nat
      BY RunQueueAssumption
    <3> QED BY <3>1, <3>2, InvFacts
  <2> QED BY <2>1, <2>2 DEF ScheduleTime
<1>3. TypeOK'
  BY <1>1, <1>2, InvFacts, QueueTyped DEF TypeOK, QueueOK
<1>4. QueueOK(q', prio') /\ SensAbove' /\ QueuedActive' /\ CurrentRuns'
  BY <1>1, <1>2, InvFacts DEF SensAbove, QueuedActive, CurrentRuns
<1>5. prio' = [prio EXCEPT ![d] = prio'[d]] /\ prio'[d] \in Nat
  BY <1>1, InvFacts
<1>6. Set!SetPrio(d)
  BY <1>1, <1>2, <1>5 DEF Set!SetPrio
<1> QED BY <1>3, <1>4, <1>6 DEF RunQueueInv, Set!Next

\* SchedulePrio
LEMMA SchedulePrioStep ==
  ASSUME RunQueueInv, NoInactiveSchedule, NEW d \in Threads, NEW p \in Prios, SchedulePrio(d, p)
  PROVE  RunQueueInv' /\ [Set!Next]_(Set!vars)
<1> DEFINE r == dequeue(q, prio[d], d)
<1>1. /\ current' = current /\ state' = state /\ prio' = [prio EXCEPT ![d] = p]
      /\ sens' = SensAtLeast(d, p) /\ len' = len /\ slice' = slice
      /\ pslice' = pslice /\ maxdelay' = maxdelay /\ delay' = delay /\ delayed' = delayed
      /\ runnable' = runnable /\ state[d] \in {"running", "blocked"}
  BY DEF SchedulePrio, MaySchedule, NoInactiveSchedule, runnable
<1>2. prio' \in [Threads -> Prios] /\ prio'[d] = p /\ p \in Nat
  BY <1>1, InvFacts
<1>3. QueueOK(r, prio) /\ r.in = q.in \ {d}
  BY InvFacts, DequeueOK
<1>4. q' = enqueue(r, p, d, FALSE)
  BY DEF SchedulePrio, Requeued
<1> HIDE DEF r
<1>5. QueueOK(r, prio')
  <2>1. prio \in [Threads -> Prios] /\ \A x \in r.in : prio'[x] = prio[x]
    BY <1>1, <1>3, InvFacts
  <2> QED BY <2>1, <1>2, <1>3, OtherPrioOK
<1>6. QueueOK(q', prio') /\ q'.in = q.in \cup {d}
  <2>1. \A first \in BOOLEAN : LET e == enqueue(r, prio'[d], d, first)
                               IN QueueOK(e, prio') /\ e.in = r.in \cup {d}
    BY <1>2, <1>5, EnqueueOK
  <2>2. /\ QueueOK(enqueue(r, prio'[d], d, FALSE), prio')
        /\ enqueue(r, prio'[d], d, FALSE).in = r.in \cup {d}
    BY <2>1
  <2> QED BY <2>2, <1>2, <1>3, <1>4
<1>7. sens' \in [Threads -> Prios] /\ SensAbove'
  BY <1>1, InvFacts DEF SensAtLeast, SensAbove, Prios
<1>8. TypeOK'
  BY <1>1, <1>2, <1>6, <1>7, InvFacts, QueueTyped DEF TypeOK, QueueOK
<1>9. QueuedActive' /\ CurrentRuns'
  BY <1>1, <1>6, InvFacts DEF QueuedActive, CurrentRuns
<1>10. Set!SetPrio(d)
  BY <1>1, <1>2, <1>6 DEF Set!SetPrio
<1> QED BY <1>6, <1>7, <1>8, <1>9, <1>10 DEF RunQueueInv, Set!Next

\* Create
LEMMA CreateStep ==
  ASSUME RunQueueInv, NEW t \in Threads, Create(t)
  PROVE  RunQueueInv' /\ [Set!Next]_(Set!vars)
<1>1. state[t] = "none" /\ t \notin q.in /\ t # current
  BY InvFacts DEF Create, QueuedActive, CurrentRuns
<1>2. q' = q
  <2>1. q' = [q EXCEPT !.in = q.in \ {t}] /\ q.in \ {t} = q.in
    BY <1>1 DEF Create
  <2> QED BY <2>1, InvFacts DEF Queues
<1>3. /\ current' = current /\ state' = [state EXCEPT ![t] = "inactive"]
      /\ prio' = [prio EXCEPT ![t] = DefaultPrio] /\ sens' = [sens EXCEPT ![t] = DefaultPrio]
      /\ DefaultPrio \in Prios
  BY RunQueueAssumption DEF Create
<1>4. prio' \in [Threads -> Prios] /\ sens' \in [Threads -> Prios]
  BY <1>3, InvFacts
<1>5. TypeOK'
  BY <1>2, <1>3, <1>4, InvFacts, QueueTyped, RunQueueAssumption DEF Create, TypeOK, States
<1>6. QueueOK(q', prio')
  <2>1. prio \in [Threads -> Prios] /\ QueueOK(q, prio) /\ \A x \in q.in : prio'[x] = prio[x]
    BY <1>1, <1>3, InvFacts
  <2> QED BY <2>1, <1>2, <1>4, OtherPrioOK
<1>7. SensAbove' /\ QueuedActive' /\ CurrentRuns'
  BY <1>1, <1>2, <1>3, InvFacts DEF SensAbove, QueuedActive, CurrentRuns
<1>8. runnable' = runnable
  BY <1>1, <1>3, InvFacts DEF runnable
<1>9. prio' = [prio EXCEPT ![t] = prio'[t]] /\ prio'[t] \in Nat
  BY <1>3, InvFacts
<1>10. Set!SetPrio(t)
  BY <1>2, <1>3, <1>8, <1>9 DEF Set!SetPrio
<1> QED BY <1>5, <1>6, <1>7, <1>10 DEF RunQueueInv, Set!Next

\* Delete
LEMMA DeleteStep ==
  ASSUME RunQueueInv, NEW t \in Threads, Delete(t)
  PROVE  RunQueueInv' /\ [Set!Next]_(Set!vars)
<1>1. /\ t # current /\ current' = current /\ prio' = prio
      /\ state' = [state EXCEPT ![t] = "none"] /\ q' = DeletedFrom(t)
  BY DEF Delete, params
<1>2. QueueOK(q', prio) /\ q'.in = q.in \ {t}
  <2>1. CASE state[t] = "inactive"
    BY <2>1, <1>1, InvFacts DEF DeletedFrom, QueuedActive
  <2>2. CASE state[t] # "inactive"
    BY <2>2, <1>1, InvFacts, DequeueOK DEF DeletedFrom
  <2> QED BY <2>1, <2>2
<1>3. TypeOK'
  BY <1>1, <1>2, InvFacts, QueueTyped DEF Delete, TypeOK, States, params, QueueOK
<1>4. QueueOK(q', prio') /\ SensAbove' /\ QueuedActive' /\ CurrentRuns'
  BY <1>1, <1>2, InvFacts DEF Delete, SensAbove, QueuedActive, CurrentRuns, params
<1>5. runnable' = runnable \ {t}
  BY <1>1, InvFacts DEF runnable
<1>6. Set!Stop(t)
  BY <1>1, <1>2, <1>5 DEF Set!Stop
<1> QED BY <1>3, <1>4, <1>6 DEF RunQueueInv, Set!Next

\* What waking threads does to their states.
LEMMA WokenStates ==
  ASSUME RunQueueInv, NEW order, ToSet(order) \subseteq blocked, state' = Woken(order)
  PROVE  /\ state' \in [Threads -> States]
         /\ runnable' = runnable \cup ToSet(order)
         /\ ToSet(order) \in SUBSET (Threads \ runnable)
         /\ \A t \in Threads : state[t] = "running" => state'[t] = "running"
         /\ \A t \in Threads : state[t] = "blocked" => state'[t] \in {"blocked", "running"}
         /\ \A t \in ToSet(order) : state'[t] = "running"
<1>1. /\ state \in [Threads -> States]
      /\ \A t \in Threads : state'[t] = IF t \in ToSet(order) THEN "running" ELSE state[t]
  BY InvFacts DEF Woken
<1>2. \A t \in ToSet(order) : t \in Threads /\ state[t] = "blocked"
  BY DEF blocked
<1>3. state' \in [Threads -> States]
  BY <1>1 DEF Woken, States
<1> QED BY <1>1, <1>2, <1>3 DEF runnable

\* TimerIdle
LEMMA TimerIdleStep ==
  ASSUME RunQueueInv, NEW order \in SetToAllKPermutations(blocked) \cup {<< >>}, TimerIdle(order)
  PROVE  RunQueueInv' /\ [Set!Next]_(Set!vars)
<1> DEFINE W == ToSet(order)
<1>1. /\ order \in Seq(Threads) /\ W = {order[i] : i \in 1 .. Len(order)} /\ W \subseteq blocked
  <2>1. order \in Seq(blocked) /\ blocked \subseteq Threads
    BY OrderOK DEF blocked
  <2> QED BY <2>1, OrderOK
<1>2. /\ current = Idle /\ current' = current /\ prio' = prio
      /\ state' = Woken(order) /\ q' = WokenQueue(order)
  BY DEF TimerIdle, params
<1>3. QueueOK(q', prio) /\ q'.in = q.in \cup W
  BY <1>1, <1>2, InvFacts, WokenQueueOK
<1> HIDE DEF W
<1>4. /\ state' \in [Threads -> States] /\ runnable' = runnable \cup W
      /\ W \in SUBSET (Threads \ runnable)
      /\ \A t \in Threads : state[t] = "running" => state'[t] = "running"
      /\ \A t \in Threads : state[t] = "blocked" => state'[t] \in {"blocked", "running"}
      /\ \A t \in W : state'[t] = "running"
  BY <1>1, <1>2, WokenStates DEF W
<1>5. TypeOK'
  BY <1>2, <1>3, <1>4, InvFacts, QueueTyped DEF TimerIdle, TypeOK, params, QueueOK
<1>6. QueueOK(q', prio') /\ SensAbove' /\ QueuedActive' /\ CurrentRuns'
  BY <1>2, <1>3, <1>4, InvFacts DEF TimerIdle, SensAbove, QueuedActive, CurrentRuns, params
<1>7. Set!Wake(W)
  BY <1>2, <1>3, <1>4 DEF Set!Wake
<1> QED BY <1>4, <1>5, <1>6, <1>7 DEF RunQueueInv, Set!Next

\* Timer
LEMMA TimerStep ==
  ASSUME RunQueueInv, NEW order \in SetToAllKPermutations(blocked) \cup {<< >>}, Timer(order)
  PROVE  RunQueueInv' /\ [Set!Next]_(Set!vars)
<1> DEFINE W == ToSet(order)
           w == HighestWakeup(order)
           r == WokenQueue(order)
           p == IF len[current] # 0 /\ pslice > -MaxDebt THEN pslice - 1 ELSE pslice
           expired == len[current] # 0 /\ p <= 0
           extend == expired /\ current \in delayed /\ delay_preemption(current, w)
           left == IF extend THEN p + delay[current] ELSE p
           s == Rotated(r, current)
           st == {t \in Threads : state'[t] = "running"}
<1>1. /\ order \in Seq(Threads) /\ W = {order[i] : i \in 1 .. Len(order)} /\ W \subseteq blocked
  <2>1. order \in Seq(blocked) /\ blocked \subseteq Threads
    BY OrderOK DEF blocked
  <2> QED BY <2>1, OrderOK
<1>2. current \in Threads /\ current \in runnable
  BY InvFacts DEF Timer, CurrentRuns, runnable
<1>3. /\ state' = Woken(order) /\ prio' = prio /\ sens' = sens /\ len' = len
      /\ maxdelay' = maxdelay /\ delayed' = delayed
      /\ delay' = IF extend THEN UsedUp(current) ELSE delay
  BY DEF Timer, params
<1>4. \/ end_of_timeslice(r, current, p) /\ schedule(s, st)
      \/ w = current /\ pslice' = left /\ q' = r /\ current' = current /\ slice' = slice
      \/ w # current /\ preempt_thread(current, w, r, left)
  BY DEF Timer
<1>5. QueueOK(r, prio) /\ r.in = q.in \cup W
  BY <1>1, InvFacts, WokenQueueOK
<1>6. w = current \/ (w \in W /\ prio[current] < prio[w])
  <2>1. /\ prio \in [Threads -> Prios] /\ sens \in [Threads -> Prios] /\ delay \in [Threads -> Nat]
        /\ \A t \in Threads : prio[t] <= sens[t]
    BY InvFacts DEF SensAbove
  <2> QED BY <2>1, <1>1, <1>2, HighestWakeupOK
<1>7. /\ p \in Int /\ left \in Int /\ delay' \in [Threads -> Nat]
  <2>1. p \in Int /\ delay[current] \in Int
    BY <1>2, InvFacts
  <2>2. UsedUp(current) \in [Threads -> Nat]
    BY <1>2, InvFacts DEF UsedUp
  <2> HIDE DEF extend, p
  <2>3. left \in Int
    BY <2>1
  <2> QED BY <2>1, <2>2, <2>3, <1>3, InvFacts
<1> HIDE DEF W, w, r, left, extend, p
<1>8. /\ state' \in [Threads -> States] /\ runnable' = runnable \cup W
      /\ W \in SUBSET (Threads \ runnable)
      /\ \A t \in Threads : state[t] = "running" => state'[t] = "running"
      /\ \A t \in Threads : state[t] = "blocked" => state'[t] \in {"blocked", "running"}
      /\ \A t \in W : state'[t] = "running"
  BY <1>1, <1>3, WokenStates DEF W
<1>9. W \subseteq Threads /\ current \notin W /\ current # Idle
  BY <1>2, <1>8, InvFacts
<1>10. ASSUME current' \in Threads \cup {Idle}, current' # Idle => state'[current'] = "running",
              slice' \in [Threads -> Int], pslice' \in Int, QueueOK(q', prio),
              q'.in \subseteq q.in \cup W \cup {current}
       PROVE  RunQueueInv'
  <2>1. TypeOK'
    BY <1>3, <1>7, <1>8, <1>10, InvFacts, QueueTyped DEF TypeOK, QueueOK
  <2>2. QueueOK(q', prio') /\ SensAbove' /\ CurrentRuns'
    BY <1>3, <1>10, InvFacts DEF SensAbove, CurrentRuns
  <2>3. QueuedActive'
    <3>1. \A t \in q.in : t \in Threads /\ state[t] \in {"blocked", "running"}
      BY InvFacts DEF QueuedActive
    <3>2. state'[current] = "running"
      BY <1>2, <1>8 DEF runnable
    <3> QED BY <3>1, <3>2, <1>8, <1>10 DEF QueuedActive
  <2> QED BY <2>1, <2>2, <2>3 DEF RunQueueInv
<1>11. CASE end_of_timeslice(r, current, p) /\ schedule(s, st)
  <2>1. QueueOK(s, prio) /\ s.in = q.in \cup W \cup {current} /\ s.head[prio[current]] \in Threads
    <3>1. QueueOK(s, prio) /\ s.in = r.in \cup {current} /\ s.head[prio[current]] \in Threads
      BY <1>2, <1>5, InvFacts, RotatedOK
    <3> QED BY <3>1, <1>5
  <2>2. /\ slice' = [slice EXCEPT ![current] = p + len[current]]
        /\ pslice' = slice'[s.head[prio[current]]]
    BY <1>11 DEF end_of_timeslice
  <2>3. slice' \in [Threads -> Int] /\ pslice' \in Int
    <3>1. p + len[current] \in Int
      BY <1>2, <1>7, InvFacts
    <3>2. slice' \in [Threads -> Int]
      BY <3>1, <2>2, InvFacts
    <3> QED BY <3>2, <2>1, <2>2
  <2>4. st = runnable \cup W /\ s.in = q.in \cup W \cup ({current} \ {Idle})
    BY <2>1, <1>8, <1>9 DEF runnable
  <2> HIDE DEF s, st
  <2>5. /\ QueueOK(q', prio) /\ current' \in Threads \cup {Idle}
        /\ current' # Idle => current' \in st
        /\ q'.in \subseteq s.in \cup ({current} \ {Idle})
        /\ \E rest \in SUBSET s.in :
             /\ Set!Choice(s.in, st, current', rest)
             /\ q'.in = IF current' # current THEN rest \cup ({current} \ {Idle}) ELSE rest
    <3>1. prio \in [Threads -> Prios] /\ current \in Threads \cup {Idle} /\ schedule(s, st)
      BY <1>11, InvFacts
    <3>2. PICK z : z = st
      OBVIOUS
    <3>3. schedule(s, z) /\ QueueOK(s, prio)
      BY <3>1, <3>2, <2>1
    <3>4. /\ QueueOK(q', prio) /\ current' \in Threads \cup {Idle}
          /\ current' # Idle => current' \in z
          /\ q'.in \subseteq s.in \cup ({current} \ {Idle})
          /\ \E rest \in SUBSET s.in :
               /\ Set!Choice(s.in, z, current', rest)
               /\ q'.in = IF current' # current THEN rest \cup ({current} \ {Idle}) ELSE rest
      BY <3>1, <3>3, ScheduleOK
    <3> QED BY <3>2, <3>4
  <2>6. RunQueueInv'
    <3>1. current' # Idle => state'[current'] = "running"
      BY <2>5 DEF st
    <3>2. q'.in \subseteq q.in \cup W \cup {current}
      BY <2>1, <2>5
    <3> QED BY <3>1, <3>2, <2>3, <2>5, <1>10
  <2>7. Set!Decide(W)
    <3>1. PICK rest \in SUBSET s.in :
            /\ Set!Choice(s.in, st, current', rest)
            /\ q'.in = IF current' # current THEN rest \cup ({current} \ {Idle}) ELSE rest
      BY <2>5
    <3>2. /\ rest \in SUBSET (q.in \cup W \cup ({current} \ {Idle}))
          /\ Set!Choice(q.in \cup W \cup ({current} \ {Idle}), runnable \cup W, current', rest)
      BY <3>1, <2>4
    <3> QED BY <3>1, <3>2, <2>5, <1>3, <1>8 DEF Set!Decide
  <2> QED BY <2>6, <2>7, <1>8 DEF Set!Next
<1>12. CASE w = current /\ pslice' = left /\ q' = r /\ current' = current /\ slice' = slice
  <2>1. RunQueueInv'
    <3>1. state'[current'] = "running" /\ current' \in Threads \cup {Idle}
      BY <1>2, <1>8, <1>12 DEF runnable
    <3>2. /\ QueueOK(q', prio) /\ q'.in \subseteq q.in \cup W \cup {current}
          /\ slice' \in [Threads -> Int] /\ pslice' \in Int
      BY <1>5, <1>7, <1>12, InvFacts
    <3> QED BY <3>1, <3>2, <1>10
  <2>2. Set!Wake(W)
    BY <1>3, <1>5, <1>8, <1>12 DEF Set!Wake
  <2> QED BY <2>1, <2>2, <1>8 DEF Set!Next
<1>13. CASE w # current /\ preempt_thread(current, w, r, left)
  <2>1. /\ slice' = [slice EXCEPT ![current] = left] /\ q' = Enq(r, current, TRUE)
        /\ pslice' = slice'[w] /\ current' = w
    BY <1>13 DEF preempt_thread
  <2>2. w \in W /\ w \in Threads /\ prio[current] < prio[w]
    BY <1>6, <1>9, <1>13
  <2>3. QueueOK(q', prio) /\ q'.in = q.in \cup W \cup {current}
    <3>1. QueueOK(q', prio) /\ q'.in = r.in \cup {current}
      BY <2>1, <1>2, <1>5, InvFacts, EnqOK
    <3> QED BY <3>1, <1>5
  <2>4. slice' \in [Threads -> Int] /\ pslice' \in Int
    <3>1. slice' \in [Threads -> Int]
      BY <2>1, <1>7, InvFacts
    <3> QED BY <3>1, <2>1, <2>2
  <2>5. RunQueueInv'
    <3>1. state'[current'] = "running" /\ current' \in Threads \cup {Idle}
      BY <2>1, <2>2, <1>8
    <3> QED BY <3>1, <2>3, <2>4, <1>10
  <2>6. Set!Preempt(W, w)
    BY <2>1, <2>2, <2>3, <1>2, <1>3, <1>8 DEF Set!Preempt
  <2> QED BY <2>2, <2>5, <2>6, <1>8 DEF Set!Next
<1> QED BY <1>4, <1>11, <1>12, <1>13
-----------------------------------------------------------------------------
(* The rings, walked *)

\* n steps from the head of ring p, for n up to N, are the steps of one walk in the ring.
LEMMA WalkExists ==
  ASSUME NEW pr \in [Threads -> Prios], NEW r, QueueOK(r, pr), NEW p \in Prios,
         r.head[p] # Null, NEW N \in Nat
  PROVE  \E f \in [0 .. N -> Of(r, pr, p)] :
           /\ \A n \in 0 .. N : Nth(r, p, n) = f[n]
           /\ \A n \in 1 .. N : f[n] = r.next[f[n - 1]]
<1> DEFINE D == Of(r, pr, p)
           G == [kx \in (1 .. N) \X D |-> r.next[kx[2]]]
<1>1. r.head[p] \in D
  BY DEF QueueOK, Headed
<1>2. \A t \in D : r.next[t] \in D
  BY DEF QueueOK, Woven, Of
<1>3. G \in [(1 .. N) \X D -> D]
  BY <1>2
<1> HIDE DEF D, G
<1>4. PICK f : Iterates(f, N, r.head[p], G, D)
  BY <1>1, <1>3, IterationExists
<1>5. f \in [0 .. N -> D] /\ f[0] = r.head[p]
  BY <1>4 DEF Iterates
<1>6. ASSUME NEW n \in 1 .. N PROVE f[n] = r.next[f[n - 1]]
  <2>1. f[n] = G[<<n, f[n - 1]>>] /\ n - 1 \in 0 .. N
    BY <1>4 DEF Iterates
  <2>2. <<n, f[n - 1]>> \in (1 .. N) \X D
    BY <2>1, <1>5
  <2> QED BY <2>1, <2>2 DEF G
<1>7. ASSUME NEW n \in 0 .. N PROVE Nth(r, p, n) = f[n]
  <2> DEFINE Walk(g) == [k \in 0 .. n |-> IF k = 0 THEN r.head[p] ELSE r.next[g[k - 1]]]
             h == [k \in 0 .. n |-> f[k]]
             W == CHOOSE g : g = Walk(g)
  <2>1. n \in Nat /\ 0 \in 0 .. n /\ n \in 0 .. n
    OBVIOUS
  <2>2. \A k \in 0 .. n : k # 0 => k \in 1 .. N /\ k \in 1 .. n /\ k - 1 \in 0 .. n
    OBVIOUS
  <2>3. \A k \in 0 .. n : h[k] = Walk(h)[k]
    BY <2>2, <1>5, <1>6
  <2>4. h = Walk(h)
    BY <2>3
  <2>5. W = Walk(W)
    <3> HIDE DEF Walk, h
    <3> QED BY <2>4
  <2>6. Nth(r, p, n) = W[n]
    BY DEF Nth
  <2> HIDE DEF W
  <2> DEFINE F == [k \in 0 .. n |-> <<W[k], f[k]>>]
             E == {<<x, x>> : x \in D}
  <2>7. F[0] \in E
    BY <2>1, <2>5, <1>1, <1>5
  <2>8. ASSUME NEW k \in 1 .. n, F[k - 1] \in E PROVE F[k] \in E
    <3>1. k \in 0 .. n /\ k - 1 \in 0 .. n /\ k # 0 /\ k \in 1 .. N
      OBVIOUS
    <3>2. W[k - 1] = f[k - 1] /\ f[k - 1] \in D
      BY <3>1, <2>8
    <3>3. W[k] = r.next[W[k - 1]]
      BY <3>1, <2>5
    <3>4. f[k] = r.next[f[k - 1]]
      BY <3>1, <1>6
    <3> QED BY <3>1, <3>2, <3>3, <3>4, <1>2
  <2> HIDE DEF F, E
  <2>9. \A k \in 0 .. n : F[k] \in E
    BY <2>1, <2>7, <2>8, Induction
  <2>10. <<W[n], f[n]>> \in E
    BY <2>1, <2>9 DEF F
  <2> QED BY <2>6, <2>10 DEF E
<1> QED BY <1>5, <1>6, <1>7 DEF D

\* A ring, walked from its head, meets exactly the queued threads of its priority.
LEMMA RingIsWhole ==
  ASSUME NEW pr \in [Threads -> Prios], NEW r, QueueOK(r, pr), NEW p \in Prios
  PROVE  Ring(r, p) = Of(r, pr, p)
<1> DEFINE N == Cardinality(Threads)
           D == Of(r, pr, p)
<1>0. N \in Nat /\ IsFiniteSet(Threads)
  BY RunQueueAssumption, FS_CardinalityType
<1> HIDE DEF N
<1>1. CASE r.head[p] = Null
  BY <1>1 DEF Ring, QueueOK, Headed
<1>2. CASE r.head[p] # Null
  <2>1. PICK f \in [0 .. N -> D] : /\ \A n \in 0 .. N : Nth(r, p, n) = f[n]
                                   /\ \A n \in 1 .. N : f[n] = r.next[f[n - 1]]
    BY <1>0, <1>2, WalkExists
  <2>2. D \subseteq Threads
    BY DEF Of, QueueOK, Queues
  <2>3. PICK a, b \in 0 .. N : a # b /\ f[a] = f[b]
    <3>1. IsFiniteSet(0 .. N) /\ Cardinality(0 .. N) = N + 1
      BY <1>0, FS_Interval
    <3>2. f \in [0 .. N -> Threads]
      BY <2>1, <2>2
    <3>3. Cardinality(Threads) < Cardinality(0 .. N)
      BY <3>1, <1>0 DEF N
    <3> QED BY <3>1, <3>2, <3>3, <1>0, FS_PigeonHole
  <2>4. PICK i, j \in 0 .. N : i < j /\ f[i] = f[j]
    BY <2>3, <1>0
  <2> DEFINE C == {f[k] : k \in 0 .. j - 1}
             X == {Nth(r, p, k) : k \in 0 .. N - 1}
  <2>5. C \in SUBSET D /\ C # {}
    <3>1. \A k \in 0 .. j - 1 : k \in 0 .. N
      BY <1>0
    <3>2. 0 \in 0 .. j - 1
      BY <2>4, <1>0
    <3> QED BY <3>1, <3>2, <2>1
  <2>6. Closed(r, C)
    <3> SUFFICES ASSUME NEW k \in 0 .. j - 1 PROVE r.next[f[k]] \in C
      BY DEF Closed
    <3>1. k + 1 \in 1 .. N /\ (k + 1) - 1 = k
      BY <1>0
    <3>2. r.next[f[k]] = f[k + 1]
      BY <3>1, <2>1
    <3>3. CASE k + 1 = j
      <4>1. i \in 0 .. j - 1
        BY <2>4, <1>0
      <4> QED BY <4>1, <3>2, <3>3, <2>4
    <3>4. CASE k + 1 # j
      <4>1. k + 1 \in 0 .. j - 1
        BY <3>4, <1>0
      <4> QED BY <4>1, <3>2
    <3> QED BY <3>3, <3>4
  <2>7. C = D
    BY <2>5, <2>6 DEF QueueOK, Single
  <2>8. C \subseteq X /\ X \subseteq D
    <3>1. \A k \in 0 .. j - 1 : k \in 0 .. N - 1 /\ k \in 0 .. N
      BY <2>4, <1>0
    <3>2. \A k \in 0 .. N - 1 : k \in 0 .. N
      BY <1>0
    <3> QED BY <3>1, <3>2, <2>1
  <2>9. Ring(r, p) = X
    BY <1>2 DEF Ring, N
  <2> QED BY <2>7, <2>8, <2>9
<1> QED BY <1>1, <1>2
-----------------------------------------------------------------------------
(* The theorems *)

\* Every step keeps the invariant and is a step of the ready set.
LEMMA StepOK ==
  ASSUME RunQueueInv, NoInactiveSchedule, [Next]_vars
  PROVE  RunQueueInv' /\ [Set!Next]_(Set!vars)
<1>1. CASE UNCHANGED vars
  <2>1. RunQueueInv'
    BY <1>1, InvFacts, QueueTyped
    DEF vars, RunQueueInv, TypeOK, SensAbove, QueuedActive, CurrentRuns
  <2>2. UNCHANGED Set!vars
    BY <1>1 DEF vars, Set!vars, runnable
  <2> QED BY <2>1, <2>2
<1>2. CASE Ticks
  BY <1>2, TimerStep, TimerIdleStep DEF Ticks
<1>3. CASE Next /\ ~Ticks
  BY <1>3, IdleScheduleStep, BlockStep, SetDelayedStep, YieldStep, HandoffStep, SendStep,
     StopStep, DonateStep, ScheduleTimeStep, SchedulePrioStep, SchedulePreemptionStep,
     CreateStep, ActivateStep, DeleteStep DEF Next
<1> QED BY <1>1, <1>2, <1>3

\* The initial state satisfies the invariant and is one of the ready set's.
LEMMA InitOK ==
  ASSUME Init
  PROVE  RunQueueInv /\ Set!Init
<1>1. DefaultPrio \in Prios /\ DefaultPrio \in Nat /\ DefaultLen \in Nat
  BY RunQueueAssumption DEF Prios
<1>2. prio \in [Threads -> Prios] /\ q = EmptyQueue /\ q.in = {}
  BY <1>1 DEF Init, EmptyQueue
<1>3. QueueOK(q, prio)
  BY <1>2, EmptyQueueOK
<1>4. TypeOK
  BY <1>1, <1>2, <1>3, QueueTyped DEF Init, TypeOK, States, QueueOK
<1>5. SensAbove /\ QueuedActive /\ CurrentRuns
  BY <1>1, <1>2 DEF Init, SensAbove, QueuedActive, CurrentRuns
<1>6. Set!Init
  BY <1>1, <1>2 DEF Init, Set!Init, runnable
<1> QED BY <1>3, <1>4, <1>5, <1>6 DEF RunQueueInv

\* RunQueueInv is an invariant.
LEMMA InvAlways ==
  ASSUME NoInactiveSchedule
  PROVE  Spec => []RunQueueInv
<1>1. Init => RunQueueInv
  BY InitOK
<1>2. RunQueueInv /\ [Next]_vars => RunQueueInv'
  BY StepOK
<1> QED BY <1>1, <1>2, PTL DEF Spec

(***************************************************************************)
(* The ring of every priority, walked from its head, meets exactly the      *)
(* queued threads of that priority, and the links undo each other, for any  *)
(* number of threads and priorities: ENQUEUE_LIST_*, DEQUEUE_LIST and set() *)
(* never tear a ring apart, as long as SYS_SCHEDULE is not applied to a     *)
(* thread without a pager.                                                  *)
(***************************************************************************)
THEOREM RingsAreExact ==
  ASSUME NoInactiveSchedule
  PROVE  Spec => []RingsExact
<1>1. RunQueueInv => RingsExact
  <2> SUFFICES ASSUME RunQueueInv PROVE RingsExact
    OBVIOUS
  <2>1. \A p \in Prios : Ring(q, p) = {t \in q.in : prio[t] = p}
    BY InvFacts, RingIsWhole DEF Of
  <2>2. \A t \in q.in : q.next[q.prev[t]] = t /\ q.prev[q.next[t]] = t
    BY InvFacts DEF QueueOK, Woven
  <2> QED BY <2>1, <2>2 DEF RingsExact
<1> QED BY <1>1, InvAlways, PTL

(***************************************************************************)
(* max_prio is never below a queued thread, so that find_next_thread, which *)
(* starts there, sees every ring that has one.                              *)
(***************************************************************************)
THEOREM HintsCover ==
  ASSUME NoInactiveSchedule
  PROVE  Spec => []HintCovers
<1>1. RunQueueInv => HintCovers
  BY InvFacts DEF HintCovers, QueueOK, Covered
<1> QED BY <1>1, InvAlways, PTL

(***************************************************************************)
(* The rings, hints and time slices of the scheduler implement the ready    *)
(* set that the rest of the kernel is modelled with: a decision takes a     *)
(* runnable thread of the highest priority and drops blocked threads only.  *)
(***************************************************************************)
THEOREM RunQueueImplementsReadySet ==
  ASSUME NoInactiveSchedule
  PROVE  Spec => ImplementsReadySet
<1>1. Init => Set!Init
  BY InitOK
<1>2. RunQueueInv /\ [Next]_vars => [Set!Next]_(Set!vars)
  BY StepOK
<1> QED BY <1>1, <1>2, InvAlways, PTL DEF Spec, ImplementsReadySet, Set!Spec

(***************************************************************************)
(* No runnable thread is ever lost: it is the current one or it is queued,  *)
(* whatever is woken, preempted, stopped or taken out of a ring.            *)
(***************************************************************************)
THEOREM NoThreadIsLost ==
  ASSUME NoInactiveSchedule
  PROVE  Spec => []Set!NoLost
<1>1. Set!Init => Set!NoLost
  BY DEF Set!Init, Set!NoLost
<1>2. Set!NoLost /\ [Set!Next]_(Set!vars) => Set!NoLost'
  <2> SUFFICES ASSUME Set!NoLost, [Set!Next]_(Set!vars) PROVE Set!NoLost'
    OBVIOUS
  <2>1. CASE UNCHANGED Set!vars
    BY <2>1 DEF Set!vars, Set!NoLost
  <2>2. ASSUME NEW W \in SUBSET (Threads \ runnable), Set!Wake(W) PROVE Set!NoLost'
    BY <2>2 DEF Set!Wake, Set!NoLost
  <2>3. ASSUME NEW W \in SUBSET (Threads \ runnable), Set!Decide(W) PROVE Set!NoLost'
    <3> DEFINE rs == q.in \cup W \cup ({current} \ {Idle})
               st == runnable \cup W
    <3>1. PICK x \in Threads \cup {Idle}, rest \in SUBSET rs :
            /\ Set!Choice(rs, st, x, rest)
            /\ current' = x
            /\ q'.in = IF x # current THEN rest \cup ({current} \ {Idle}) ELSE rest
      BY <2>3 DEF Set!Decide
    <3>2. runnable' = st /\ st \subseteq rs \cup {Idle} /\ Idle \notin st
      BY <2>3, RunQueueAssumption DEF Set!Decide, Set!NoLost, runnable
    <3> HIDE DEF rs, st
    <3>3. \A t \in rs \cap st : t \in rest
      BY <3>1 DEF Set!Choice
    <3>4. st \subseteq q'.in \cup {current'}
      BY <3>1, <3>2, <3>3
    <3> QED BY <3>2, <3>4 DEF Set!NoLost
  <2>4. ASSUME NEW W \in SUBSET (Threads \ runnable), NEW x \in W, Set!Preempt(W, x)
        PROVE  Set!NoLost'
    BY <2>4 DEF Set!Preempt, Set!NoLost
  <2>5. ASSUME NEW x \in Threads, Set!Donate(x) \/ Set!Stop(x) \/ Set!SetPrio(x)
        PROVE  Set!NoLost'
    BY <2>5 DEF Set!Donate, Set!Stop, Set!SetPrio, Set!NoLost
  <2>6. ASSUME NEW x \in (Threads \ runnable) \cup {Idle}, Set!Block(x) PROVE Set!NoLost'
    BY <2>6 DEF Set!Block, Set!NoLost
  <2> QED BY <2>1, <2>2, <2>3, <2>4, <2>5, <2>6 DEF Set!Next
<1> QED BY <1>1, <1>2, RunQueueImplementsReadySet, PTL DEF ImplementsReadySet, Set!Spec
=============================================================================
