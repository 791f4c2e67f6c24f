-------------------------------- MODULE Walker --------------------------------
(***************************************************************************)
(* map_fpage and unmap_fpage (linear_ptab_walker.cc): the loops that walk    *)
(* page tables of two levels, as on ia32, without recursion: they keep the  *)
(* entries to return to in arrays of one element.  One pass of a loop is a  *)
(* step.  Addresses and sizes are counted in small pages; what the mapping  *)
(* database does with an entry is in MapDb.                                 *)
(***************************************************************************)
EXTENDS Integers, FiniteSets

CONSTANTS Width,   \* page_table_size: entries of a page table
          Slots,   \* entries of a page directory
          Kernel,  \* the pages of KIP and UTCB area, of the same place in both spaces
          Calls,   \* sets of calls: fpages, arguments and the page tables they find
          Env      \* "all": also the calls that are not regular

ASSUME WalkerAssumption == Width \in Nat \ {0, 1} /\ Slots \in Nat \ {0}

VARIABLES src,   \* page table of the sender: directory and page tables
          dst,   \* of the receiver, or of the space unmapped from
          l,     \* the local variables of the call
          call   \* history: the call, with the page tables it found

vars == <<src, dst, l, call>>

\* The user area.
Addrs == 0 .. Slots * Width - 1
page_size(size) == IF size = 1 THEN Width ELSE 1

\* Page table entries, and pointers to them: a size and a number.
None       == [kind |-> "none", frame |-> 0, w |-> FALSE]
Tree       == [kind |-> "tree", frame |-> 0, w |-> TRUE]
Page(f, w) == [kind |-> "page", frame |-> f, w |-> w]

Entry(t, pg) == IF pg[1] = 1 THEN t.dir[pg[2]] ELSE t.tab[pg[2]]
Set(t, pg, e) == IF pg[1] = 1 THEN [t EXCEPT !.dir[pg[2]] = e] ELSE [t EXCEPT !.tab[pg[2]] = e]
is_valid(t, pg)   == Entry(t, pg).kind # "none"
is_subtree(t, pg) == Entry(t, pg).kind = "tree"
next(pg, n)       == <<pg[1], pg[2] + n>>
subtree(pg)       == <<0, pg[2] * Width>>
pgent(addr)       == <<1, addr \div Width>>
Under(pg)         == pg[2] * Width .. (pg[2] + 1) * Width - 1
remove_subtree(t, pg) == [dir |-> [t.dir EXCEPT ![pg[2]] = None],
                          tab |-> [j \in Addrs |-> IF j \in Under(pg) THEN None ELSE t.tab[j]]]

is_mappable(addr) == addr \notin Kernel

(***************************************************************************)
(* lookup_mapping: the page an address is mapped by.                        *)
(***************************************************************************)
lookup(t, addr) == IF is_subtree(t, pgent(addr)) THEN t.tab[addr]
                   ELSE LET e == Entry(t, pgent(addr))
                        IN IF e.kind = "none" THEN e
                           ELSE [e EXCEPT !.frame = @ + (addr % Width)]

(***************************************************************************)
(* The calls: fpages are aligned to their size, and of two sizes one divides*)
(* the other (powers of two); a page table that is not there has no entries,*)
(* as a new one has none; no large page is mapped over the KIP or UTCB area,*)
(* which the kernel maps by small pages when it makes the space.            *)
(***************************************************************************)
Entries == {None} \cup [kind : {"page"}, frame : Nat, w : BOOLEAN]
IsTable(t) ==
  /\ t \in [dir : [0 .. Slots - 1 -> Entries \cup {Tree}], tab : [Addrs -> Entries]]
  /\ \A a \in Addrs : t.dir[a \div Width].kind # "tree" => t.tab[a] = None
  /\ \A a \in Kernel \cap Addrs : t.dir[a \div Width].kind # "page"
Divides(m, n) == n % m = 0
IsFpage(f) == /\ f.at \in Nat /\ f.size \in Nat \ {0} /\ Divides(f.size, f.at)
              /\ Divides(f.size, Width) \/ Divides(Width, f.size)
IsCall(c) ==
  /\ IsFpage(c.snd) /\ IsTable(c.src) /\ IsTable(c.dst)
  /\ \/ /\ c.op = "map" /\ IsFpage(c.rcv) /\ c.base \in Nat
        /\ Divides(c.snd.size, c.rcv.size) \/ Divides(c.rcv.size, c.snd.size)
        /\ {c.w, c.grant, c.sigma0} \subseteq BOOLEAN
     \/ c.op = "unmap" /\ {c.flush, c.all, c.unmap_all} \subseteq BOOLEAN

ASSUME CallsAssumption == \A cs \in Calls : \A c \in cs : IsCall(c)
-----------------------------------------------------------------------------
(***************************************************************************)
(* map_fpage: send and receive address, the page size to use and the number *)
(* of pages to map.                                                         *)
(***************************************************************************)
Count(c)  == IF c.snd.size <= c.rcv.size THEN c.snd.size ELSE c.rcv.size
Offset(c) == LET big == IF c.snd.size <= c.rcv.size THEN c.rcv.size ELSE c.snd.size
             IN (c.base % big) - (c.base % Count(c))
From(c)   == IF c.snd.size <= c.rcv.size THEN c.snd.at ELSE c.snd.at + Offset(c)
To(c)     == IF c.snd.size <= c.rcv.size THEN c.rcv.at + Offset(c) ELSE c.rcv.at
PageSize(n) == IF n >= Width THEN 1 ELSE 0

MapInit(c) ==
  LET n == Count(c)
      z == PageSize(n)
  IN l = [running |-> TRUE, pgsize |-> z, f_size |-> 1, t_size |-> 1,
          f_num |-> n \div page_size(z), t_num |-> n \div page_size(z),
          f_addr |-> From(c), t_addr |-> To(c), f_off |-> 0,
          fpg |-> pgent(From(c)), tpg |-> pgent(To(c)),
          r_fpg |-> <<0, 0>>, r_fnum |-> 0, r_tpg |-> <<0, 0>>, r_tnum |-> 0]

\* The while condition.
Loop(x) == [x EXCEPT !.running = x.f_num # 0 \/ x.t_num # 0]

\* Next_sender_entry
ReceiverUp(x) == [x EXCEPT !.tpg = x.r_tpg, !.t_num = x.r_tnum, !.t_size = 1]
Next_sender_entry(x) ==
  LET y == [x EXCEPT !.f_addr = @ + page_size(x.f_size), !.f_off = 0, !.f_num = @ - 1]
      up == [y EXCEPT !.fpg = y.r_fpg, !.f_num = y.r_fnum, !.f_size = 1]
  IN Loop(CASE y.f_num # 0 -> IF call.sigma0 THEN y ELSE [y EXCEPT !.fpg = next(@, 1)]
            [] y.f_num = 0 /\ y.f_size < y.pgsize ->
                 IF up.t_size = 0 /\ up.t_num = 0 THEN ReceiverUp(up) ELSE up
            [] y.f_num = 0 /\ y.f_size >= y.pgsize -> [y EXCEPT !.t_num = 0])

\* Next_receiver_entry
Next_receiver_entry(x) ==
  LET y == [x EXCEPT !.t_addr = @ + page_size(x.t_size), !.t_num = @ - 1]
      off == [y EXCEPT !.f_off = @ + page_size(y.t_size)]
  IN CASE y.t_num # 0 ->
            IF y.t_size < y.f_size THEN Loop([off EXCEPT !.tpg = next(@, 1)])
                                   ELSE Next_sender_entry([y EXCEPT !.tpg = next(@, 1)])
       [] y.t_num = 0 /\ y.t_size < y.f_size /\ y.f_size <= y.pgsize ->
            Next_sender_entry(ReceiverUp(off))
       [] y.t_num = 0 /\ y.t_size > y.f_size ->
            Next_sender_entry([y EXCEPT !.f_addr = @ + page_size(y.t_size) - page_size(y.f_size),
                                        !.f_num = 1])
       [] OTHER -> Next_sender_entry(y)

sigma0   == call.sigma0
UserArea == (sigma0 \/ l.f_addr \in Addrs) /\ l.t_addr \in Addrs
Mapping  == call.op = "map" /\ l.running /\ UserArea

\* The loop ends where the kernel's area begins.
KernelArea ==
  /\ call.op = "map" /\ l.running /\ ~UserArea
  /\ l' = [l EXCEPT !.running = FALSE]
  /\ UNCHANGED <<src, dst, call>>

\* The sender has no mapping here: on to the next entry on both sides.
SenderInvalid ==
  /\ Mapping /\ ~sigma0 /\ ~is_valid(src, l.fpg)
  /\ LET x == IF l.t_size < l.f_size
              THEN ReceiverUp([l EXCEPT !.f_off = @ + page_size(l.t_size)]) ELSE l
     IN l' = IF x.t_size = x.f_size THEN Next_receiver_entry(x) ELSE Next_sender_entry(x)
  /\ UNCHANGED <<src, dst, call>>

\* A page table of the sender: into it, at the address or through all its entries.
SenderDown ==
  /\ Mapping /\ ~sigma0 /\ is_valid(src, l.fpg) /\ is_subtree(src, l.fpg)
  /\ l' = IF l.f_size > l.pgsize
          THEN [l EXCEPT !.f_size = 0, !.fpg = next(subtree(l.fpg), l.f_addr % Width)]
          ELSE [l EXCEPT !.f_size = 0, !.r_fpg = next(l.fpg, 1), !.r_fnum = l.f_num - 1,
                         !.fpg = subtree(l.fpg), !.f_num = Width]
  /\ UNCHANGED <<src, dst, call>>

\* The sender's page is found; a larger one is mapped in parts.
Sending == Mapping /\ (sigma0 \/ (is_valid(src, l.fpg) /\ ~is_subtree(src, l.fpg)))
Sender  == IF sigma0 THEN [l EXCEPT !.f_size = l.pgsize]
           ELSE IF l.f_size > l.pgsize THEN [l EXCEPT !.f_num = 1] ELSE l

\* The receiver's page is too large: into its page table, made if need be; or on
\* to the next entry if a larger page is mapped there.
TooLarge(x) == x.t_size > x.f_size \/ x.t_size > x.pgsize
ReceiverDown ==
  /\ Sending /\ TooLarge(Sender)
  /\ LET x == [Sender EXCEPT !.t_size = 0, !.r_tpg = next(l.tpg, 1), !.r_tnum = l.t_num - 1]
         i == x.f_addr % Width
     IN IF is_valid(dst, l.tpg) /\ ~is_subtree(dst, l.tpg)
        THEN l' = Next_receiver_entry(x) /\ UNCHANGED dst
        ELSE /\ dst' = IF is_valid(dst, l.tpg) THEN dst ELSE Set(dst, l.tpg, Tree)
             /\ l' = IF x.pgsize = 0
                     THEN [x EXCEPT !.tpg = next(subtree(l.tpg), x.t_addr % Width)]
                     ELSE [x EXCEPT !.tpg = next(subtree(l.tpg), i), !.t_num = Width - i,
                                    !.t_addr = @ + i]
  /\ UNCHANGED <<src, call>>

(***************************************************************************)
(* The receiver's entry is of the size of the sender's, or smaller.  What   *)
(* is mapped there by pages of this size or smaller ones is removed first   *)
(* (overmapping) if it is not what the sender maps; KIP and UTCB area are   *)
(* not flushed, but go with the page table they are in.                     *)
(***************************************************************************)
Phys(x) == IF sigma0 THEN x.f_addr ELSE Entry(src, x.fpg).frame

MutLargeOnly(x) == is_valid(dst, x.tpg) /\ is_subtree(dst, x.tpg)
Overmaps(x) ==
  /\ is_valid(dst, x.tpg) /\ x.t_size = x.f_size /\ x.f_size <= x.pgsize
  /\ ~(x.t_addr .. x.t_addr + page_size(x.t_size) - 1 \subseteq Kernel)
  /\ is_subtree(dst, x.tpg) \/ Entry(dst, x.tpg).frame # Phys(x)

\* mdb_flush of the entry that is overmapped.  Here and in Revoked below it changes
\* that entry only; the mappings derived from it are the subject of MapDb.
Overmapped(x) == IF is_subtree(dst, x.tpg) THEN remove_subtree(dst, x.tpg)
                 ELSE IF is_mappable(x.t_addr) THEN Set(dst, x.tpg, None) ELSE dst

\* A page table of the receiver for a large page that is mapped already.
IntoTree(x) == is_valid(dst, x.tpg) /\ is_subtree(dst, x.tpg) /\ ~Overmaps(x)
Placed(x) == IF IntoTree(x)
             THEN [x EXCEPT !.t_size = 0, !.r_tpg = next(x.tpg, 1), !.r_tnum = x.t_num - 1,
                            !.tpg = subtree(x.tpg), !.t_num = Width]
             ELSE x

\* The part of the sender's page, and the rights.
PartOf(x)  == (IF x.t_size < x.f_size THEN x.f_addr % Width ELSE 0) + x.f_off
Allowed(x) == call.w /\ Entry(src, x.fpg).w

\* The entry is changed: the right to write is added to a mapping of the same page
\* (another mapping stays as it is), or the page is mapped; a grant takes it away.
MapEntry ==
  /\ Sending /\ ~TooLarge(Sender)
  /\ LET x == Placed(Sender)
         t == IF Overmaps(Sender) THEN Overmapped(Sender) ELSE dst
         e == Entry(t, x.tpg)
         skip == (~sigma0 /\ ~is_mappable(x.f_addr)) \/ ~is_mappable(x.t_addr)
     IN /\ dst' = CASE skip -> t
                    [] ~skip /\ e.kind # "none" ->
                         IF e.frame = Phys(x) + PartOf(x) - x.f_off /\ Allowed(x)
                         THEN Set(t, x.tpg, [e EXCEPT !.w = TRUE]) ELSE t
                    [] ~skip /\ e.kind = "none" ->
                         Set(t, x.tpg, Page(Phys(x) + PartOf(x), IF sigma0 THEN call.w ELSE Allowed(x)))
        /\ src' = IF call.grant /\ ~sigma0 /\ ~skip /\ e.kind = "none"
                  THEN Set(src, x.fpg, None) ELSE src
        /\ l' = Next_receiver_entry(x)
  /\ UNCHANGED call

-----------------------------------------------------------------------------
(***************************************************************************)
(* unmap_fpage.  done: the small pages whose mappings mdb_flush has treated.*)
(***************************************************************************)
UnmapInit(c) ==
  LET z == PageSize(c.snd.size)
  IN l = [running |-> TRUE, pgsize |-> z, size |-> 1, num |-> c.snd.size \div page_size(z),
          vaddr |-> c.snd.at, pg |-> pgent(c.snd.at),
          r_pg |-> <<0, 0>>, r_num |-> 0, done |-> {}]

Unmapping == call.op = "unmap" /\ l.running /\ l.vaddr \in Addrs
TooBig    == l.size > l.pgsize
Flushes   == call.flush /\ call.all   \* flush && fpage.is_rwx ()

\* break: the kernel's area, nothing mapped, or a part of a page to be flushed
UnmapBreak ==
  /\ call.op = "unmap" /\ l.running
  /\ \/ l.vaddr \notin Addrs
     \/ TooBig /\ ~is_valid(dst, l.pg)
     \/ TooBig /\ is_valid(dst, l.pg) /\ ~is_subtree(dst, l.pg) /\ Flushes
  /\ l' = [l EXCEPT !.running = FALSE]
  /\ UNCHANGED <<src, dst, call>>

\* Into a page table: to the address, or through all its entries.
UnmapDown ==
  /\ Unmapping /\ is_subtree(dst, l.pg)
  /\ l' = IF TooBig
          THEN [l EXCEPT !.size = 0, !.pg = next(subtree(l.pg), l.vaddr % Width)]
          ELSE [l EXCEPT !.size = 0, !.r_pg = l.pg, !.r_num = l.num - 1,
                         !.pg = subtree(l.pg), !.num = Width]
  /\ UNCHANGED <<src, dst, call>>

\* Next_entry.  The page table that was walked is removed if that was a flush;
\* is_mappable (fp) is asked of an fpage made with an undefined shift.
AtEnd(x) == x.num = 0 /\ x.size < x.pgsize
Next_entry(x, t) ==
  LET y    == [x EXCEPT !.pg = next(@, 1), !.vaddr = @ + page_size(x.size), !.num = @ - 1]
      up   == [y EXCEPT !.pg = next(y.r_pg, 1), !.num = y.r_num, !.size = 1]
      z    == IF AtEnd(y) THEN up ELSE y
  IN /\ l' = [z EXCEPT !.running = z.num # 0]
     /\ \/ dst' = t /\ ~(AtEnd(y) /\ Flushes /\ call.unmap_all)
        \/ dst' = remove_subtree(t, y.r_pg) /\ AtEnd(y) /\ Flushes

\* The mapping of a page: what mdb_flush does with it, or, for KIP and UTCB area,
\* what unmap_all asks for.
Revoked(e) == CASE Flushes                  -> None
                [] call.flush /\ ~call.all  -> [e EXCEPT !.w = FALSE]
                [] ~call.flush              -> e
MutWholePage(x) == x.vaddr .. x.vaddr + page_size(x.size) - 1
Covered(x) == x.vaddr .. x.vaddr + page_size(IF x.size < x.pgsize THEN x.size ELSE x.pgsize) - 1

UnmapEntry ==
  /\ Unmapping /\ ~is_subtree(dst, l.pg)
  /\ TooBig => is_valid(dst, l.pg) /\ ~Flushes
  /\ IF is_valid(dst, l.pg) /\ is_mappable(l.vaddr)
     THEN Next_entry([l EXCEPT !.done = @ \cup Covered(l)],
                     Set(dst, l.pg, Revoked(Entry(dst, l.pg))))
     ELSE Next_entry(l, IF is_valid(dst, l.pg) /\ call.unmap_all THEN Set(dst, l.pg, None) ELSE dst)
  /\ UNCHANGED <<src, call>>
-----------------------------------------------------------------------------
(***************************************************************************)
(* What a call is for, address by address: the page of the sender that goes *)
(* to an address of the receiver, and the sizes of the pages they are in.   *)
(***************************************************************************)
Fpage(at, n) == at .. at + n - 1
Window(c)    == Fpage(To(c), Count(c))
Origin(c, a) == From(c) + (a - To(c))
Source(c, a) == IF c.sigma0 THEN Page(Origin(c, a), TRUE)
                ELSE IF Origin(c, a) \in Addrs THEN lookup(c.src, Origin(c, a)) ELSE None

Large(t, a)       == a \in Addrs /\ Entry(t, pgent(a)).kind = "page"
SenderLarge(c, a) == IF c.sigma0 THEN Count(c) >= Width ELSE Large(c.src, Origin(c, a))

\* The larger page there is kept, or the right to write is added to the same page.
Blocked(c, a) == Large(c.dst, a) /\ ~SenderLarge(c, a)
Extends(c, a) == /\ lookup(c.dst, a).kind = "page"
                 /\ lookup(c.dst, a).frame = Source(c, a).frame
                 /\ Large(c.dst, a) = SenderLarge(c, a)
Maps(c, a)    == /\ a \in Window(c) /\ is_mappable(a) /\ Source(c, a).kind = "page"
                 /\ ~Blocked(c, a) /\ ~Extends(c, a)

(***************************************************************************)
(* The calls for which the loops do what they are for.  The others:         *)
(*   - several small pages of which the sender does not have the first: the *)
(*     receiver's side is not advanced, or both leave the fpages;           *)
(*   - a page table with nothing in it: the receiver's side is not advanced,*)
(*     and the loop goes on with what follows;                              *)
(*   - several small pages into a large page of the receiver;               *)
(*   - parts of a large page to where something is mapped, or granted;      *)
(*   - a large page over a page table with pages of KIP and UTCB area, or   *)
(*     the flush of that page table: they go with the page table;           *)
(*   - rights of a part of a large page, in one way or another.             *)
(***************************************************************************)
Regular(c) ==
  IF c.op = "map"
  THEN LET n == Count(c)
           dirOf(a) == c.src.dir[Origin(c, a) \div Width]
       IN \A a \in Window(c) \cap Addrs :
            /\ ~c.sigma0 /\ Origin(c, a) \in Addrs =>
                 /\ n \in 2 .. Width - 1 => Source(c, To(c)).kind = "page"
                 /\ n >= Width /\ dirOf(a).kind = "tree" =>
                      \E b \in Under(pgent(Origin(c, a))) : c.src.tab[b].kind # "none"
                 /\ n < Width /\ SenderLarge(c, a) =>
                      ~c.grant /\ \A b \in Window(c) : lookup(c.dst, b).kind = "none"
            /\ Blocked(c, a) => n = 1
            /\ SenderLarge(c, a) /\ n >= Width => Under(pgent(a)) \cap Kernel = {}
  ELSE \A a \in Fpage(c.snd.at, c.snd.size) \cap Addrs :
         /\ Large(c.dst, a) /\ c.snd.size < Width => (c.flush => c.all) /\ (c.flush \/ c.snd.size = 1)
         /\ c.snd.size >= Width /\ c.flush /\ c.all => c.unmap_all \/ Under(pgent(a)) \cap Kernel = {}
-----------------------------------------------------------------------------
Init ==
  /\ \E cs \in Calls : call \in cs
  /\ Regular(call) \/ "all" \in Env
  /\ src = call.src /\ dst = call.dst
  /\ IF call.op = "map" THEN MapInit(call) ELSE UnmapInit(call)

Done == ~l.running /\ UNCHANGED vars

Next == \/ KernelArea \/ SenderInvalid \/ SenderDown \/ ReceiverDown \/ MapEntry
        \/ UnmapBreak \/ UnmapDown \/ UnmapEntry \/ Done

Spec == Init /\ [][Next]_vars
-----------------------------------------------------------------------------
\* What map_fpage has to show at an address of the receiver, and a grant has to take away.
Shows(t, a) ==
  LET new == Source(call, a)
      old == lookup(call.dst, a)
      w   == new.w /\ call.w
      got == lookup(t, a)
  IN CASE Maps(call, a) ->
            got = IF sigma0 \/ is_mappable(Origin(call, a)) THEN Page(new.frame, w) ELSE None
       [] ~Maps(call, a) /\ a \in Window(call) /\ Extends(call, a) ->
            got \in {old, [old EXCEPT !.w = @ \/ w]} /\ (got = old => sigma0 \/ ~is_mappable(a)
                                 \/ ~is_mappable(Origin(call, a)) \/ old.w \/ ~w)
       [] OTHER -> got = old
Granted(s, a) ==
  Maps(call, a) /\ call.grant /\ ~sigma0 /\ is_mappable(Origin(call, a))
    => lookup(s, Origin(call, a)) = None

(***************************************************************************)
(* When map_fpage is done, each page of the receive window shows what the   *)
(* sender has at the corresponding address, with the rights both allow; a   *)
(* grant takes it from the sender; and nothing else has changed: not the    *)
(* pages of KIP and UTCB area, not what is outside of the window, and not   *)
(* what is there where the sender has nothing, whatever mixture of large    *)
(* pages, page tables and holes the loop has to go down and up through on   *)
(* the two sides.                                                           *)
(***************************************************************************)
MapExact ==
  call.op = "map" /\ ~l.running => \A a \in Addrs : Shows(dst, a) /\ Granted(src, a)

\* The pages whose mappings unmap_fpage has to revoke, but for a part of a large page
\* to be flushed; and what it has to leave at an address.
Unmapped == Fpage(call.snd.at, call.snd.size)
Treated  == {a \in Unmapped \cap Addrs :
               /\ lookup(call.dst, a).kind = "page" /\ is_mappable(a)
               /\ ~(Flushes /\ call.snd.size < Width /\ Large(call.dst, a))}
Left(a)  == CASE a \in Treated -> Revoked(lookup(call.dst, a))
              [] a \in Unmapped \ Treated /\ ~is_mappable(a) /\ call.unmap_all -> None
              [] OTHER -> lookup(call.dst, a)

(***************************************************************************)
(* When unmap_fpage is done, the mappings of exactly the pages of the fpage *)
(* have been revoked, also those derived in other spaces (mdb_flush was     *)
(* called for them): they are gone after a flush of all rights, and in      *)
(* place otherwise.  KIP and UTCB area go only if the caller asks for it.   *)
(***************************************************************************)
UnmapExact ==
  call.op = "unmap" /\ ~l.running =>
    l.done = Treated /\ \A a \in Addrs : lookup(dst, a) = Left(a)
=============================================================================
