------------------------------- MODULE MCWalker -------------------------------
(***************************************************************************)
(* Page tables of four entries and a directory of three.  The first two     *)
(* entries of the directory are any of a few: nothing, a large page, a page *)
(* table with holes, or an empty one; the third one is the page table that  *)
(* has a page of KIP or UTCB area.  The receiver has pages of its own and   *)
(* pages it got from the sender before, without the right to write.  The    *)
(* fpages have one page to more than the user area.                         *)
(***************************************************************************)
EXTENDS Walker, TLC

MCKernel == {9}

Dir(kind, at, shared) == [kind |-> kind, at |-> at, shared |-> shared]
Sent == {Dir("none", {}, {}), Dir("page", {}, {}), Dir("tree", {0, 3}, {}),
         Dir("tree", {2}, {}), Dir("tree", {}, {})}
Had  == {Dir("none", {}, {}), Dir("page", {}, {}), Dir("page", {}, {0}),
         Dir("tree", {0, 1, 3}, {0, 3})}
Last == Dir("tree", {0, 3}, {})

\* The page table of a space whose own pages have the frames from t on.
Table(e, t) ==
  LET page(a) == IF (a % Width) \in e[a \div Width].shared THEN Page(a, FALSE) ELSE Page(t + a, TRUE)
  IN [dir |-> [s \in 0 .. Slots - 1 |->
                 CASE e[s].kind = "none" -> None [] e[s].kind = "tree" -> Tree
                   [] e[s].kind = "page" -> page(s * Width)],
      tab |-> [a \in Addrs |-> IF a \in Kernel THEN Page(40 + t, TRUE)
                               ELSE IF (a % Width) \in e[a \div Width].at THEN page(a) ELSE None]]

Senders   == {Table((0 :> d) @@ (1 :> e) @@ (2 :> Last), 0)  : d, e \in Sent}
Receivers == {Table((0 :> d) @@ (1 :> e) @@ (2 :> Last), 20) : d, e \in Had}

Fpages == {[at |-> f[1], size |-> f[2]] :
             f \in {<<7, 1>>, <<9, 1>>, <<2, 2>>, <<4, 4>>, <<8, 4>>, <<0, 8>>, <<0, 16>>}}

MCMaps ==
  [op : {"map"}, snd : Fpages, w : {TRUE}, rcv : Fpages, base : {0, 6}, grant : BOOLEAN,
   sigma0 : {FALSE}, src : Senders, dst : Receivers]
MCSigma0 ==
  [op : {"map"}, snd : Fpages, w : BOOLEAN, rcv : Fpages, base : {0, 6}, grant : {FALSE},
   sigma0 : {TRUE}, src : {Table([s \in 0 .. 2 |-> Last], 0)}, dst : Receivers]
MCUnmaps ==
  [op : {"unmap"}, snd : Fpages, flush : BOOLEAN, all : BOOLEAN, unmap_all : BOOLEAN,
   src : {Table([s \in 0 .. 2 |-> Last], 0)}, dst : Senders \cup Receivers]
MCCalls == {MCMaps, MCSigma0, MCUnmaps}

\* The fpage of a page table that is empty.
MCEmpty ==
  {{c \in [op : {"map"}, snd : {[at |-> 0, size |-> 4]}, w : {TRUE}, rcv : Fpages, base : {0},
           grant : {FALSE}, sigma0 : {FALSE}, src : Senders, dst : Receivers] :
      c.src.dir[0] = Tree /\ \A a \in 0 .. 3 : c.src.tab[a] = None}}
=============================================================================
