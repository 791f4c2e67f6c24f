----------------------------- MODULE WalkerProofs -----------------------------
(***************************************************************************)
(* Proofs about the walks of map_fpage and unmap_fpage, for page tables of  *)
(* every width and every regular call.                                      *)
(***************************************************************************)
EXTENDS Walker, TLAPS

(***************************************************************************)
(* Addresses, directory entries and offsets.                                *)
(***************************************************************************)
\* An address is its directory entry and an offset.
LEMMA Split ==
  ASSUME NEW a \in Nat
  PROVE  /\ a \div Width \in Nat /\ (a % Width) \in 0 .. Width - 1
         /\ a = (a \div Width) * Width + (a % Width)
BY WalkerAssumption

\* and only one pair is.
LEMMA SplitUnique ==
  ASSUME NEW q \in Nat, NEW r \in 0 .. Width - 1
  PROVE  (q * Width + r) \div Width = q /\ (q * Width + r) % Width = r
BY WalkerAssumption

\* The multiples of Width begin a directory entry.
LEMMA Aligned ==
  ASSUME NEW q \in Nat
  PROVE  (q * Width) \div Width = q /\ (q * Width) % Width = 0 /\ q * Width \in Nat
<1>1. 0 \in 0 .. Width - 1 /\ q * Width + 0 = q * Width /\ q * Width \in Nat
  BY WalkerAssumption
<1> QED BY <1>1, SplitUnique

\* The addresses under a directory entry.
LEMMA UnderIs ==
  ASSUME NEW a \in Nat, NEW q \in Nat
  PROVE  /\ a \in q * Width .. (q + 1) * Width - 1 <=> a \div Width = q
         /\ a < q * Width <=> a \div Width < q
BY WalkerAssumption

\* The user area is the addresses under the directory entries.
LEMMA InDirectory ==
  ASSUME NEW a \in Nat
  PROVE  a \in Addrs <=> a \div Width \in 0 .. Slots - 1
BY WalkerAssumption DEF Addrs

\* Addresses are numbers.
LEMMA AddrNat == Addrs \subseteq Nat
BY DEF Addrs

\* An address and its successor, within a page table and at the end of one.
LEMMA Successor ==
  ASSUME NEW a \in Nat
  PROVE  /\ (a % Width) < Width - 1 =>
              (a + 1) \div Width = a \div Width /\ (a + 1) % Width = (a % Width) + 1
         /\ (a % Width) = Width - 1 =>
              a + 1 = (a \div Width + 1) * Width /\ (a + 1) \div Width = a \div Width + 1
                /\ (a + 1) % Width = 0
<1>1. /\ a \div Width \in Nat /\ (a % Width) \in 0 .. Width - 1
      /\ a = (a \div Width) * Width + (a % Width)
  BY Split
<1> DEFINE q == a \div Width
           r == a % Width
<1>2. ASSUME r < Width - 1
      PROVE  (a + 1) \div Width = q /\ (a + 1) % Width = r + 1
  <2>1. r + 1 \in 0 .. Width - 1 /\ a + 1 = q * Width + (r + 1)
    <3>1. q * Width \in Nat
      BY <1>1, Aligned
    <3> HIDE DEF q
    <3> QED BY <1>1, <1>2, <3>1, WalkerAssumption DEF q
  <2> QED BY <2>1, <1>1, <1>2, SplitUnique
<1>3. ASSUME r = Width - 1
      PROVE  a + 1 = (q + 1) * Width /\ (a + 1) \div Width = q + 1 /\ (a + 1) % Width = 0
  <2>1. a + 1 = (q + 1) * Width /\ q + 1 \in Nat
    BY <1>1, <1>3, WalkerAssumption
  <2> QED BY <2>1, <1>3, Aligned
<1> QED BY <1>2, <1>3

\* Products in another order,
LEMMA Associative ==
  ASSUME NEW i \in Int, NEW j \in Int, NEW k \in Int
  PROVE  i * (j * k) = (i * j) * k /\ i * (j * k) = (j * i) * k
OBVIOUS

\* and of sums.
LEMMA Distributive ==
  ASSUME NEW i \in Int, NEW j \in Int, NEW k \in Int
  PROVE  (i - j) * k = i * k - j * k /\ (i + j) * k = i * k + j * k
OBVIOUS

\* A multiple of a divisor.
LEMMA Multiple ==
  ASSUME NEW m \in Nat \ {0}, NEW n \in Nat, Divides(m, n)
  PROVE  \E k \in Nat : n = k * m
<1>1. n \div m \in Nat /\ n = (n \div m) * m
  BY DEF Divides
<1> QED BY <1>1

\* A multiple of s that is smaller than another one is so by s.
LEMMA Fits ==
  ASSUME NEW s \in Nat \ {0}, NEW m \in Nat, NEW j \in Int, j * s < m * s
  PROVE  j * s + s <= m * s
<1>1. j < m
  <2>1. SUFFICES ASSUME j >= m PROVE FALSE
    OBVIOUS
  <2>2. j * s >= m * s
    BY <2>1
  <2>3. j * s \in Int /\ m * s \in Int
    OBVIOUS
  <2> QED BY <2>2, <2>3
<1>2. m = j + 1 + (m - j - 1) /\ m - j - 1 \in Nat
  BY <1>1
<1>3. \A k \in Nat : (j + 1 + k) * s = j * s + s + k * s /\ k * s \in Nat
  OBVIOUS
<1>4. m * s = j * s + s + (m - j - 1) * s /\ (m - j - 1) * s \in Nat
  BY <1>2, <1>3
<1>5. j * s \in Int /\ m * s \in Int
  OBVIOUS
<1> QED BY <1>4, <1>5

\* An fpage smaller than a page table is in one; the others are made of whole ones.
LEMMA FpagePlace ==
  ASSUME NEW f, IsFpage(f)
  PROVE  /\ f.size < Width => (f.at % Width) + f.size <= Width
         /\ f.size >= Width => Divides(Width, f.size) /\ Divides(Width, f.at)
<1> DEFINE s == f.size
<1>0. s \in Nat \ {0} /\ f.at \in Nat /\ Divides(s, f.at)
      /\ (Divides(s, Width) \/ Divides(Width, s)) /\ Width \in Nat \ {0}
  BY WalkerAssumption DEF IsFpage
<1> HIDE DEF s
<1>1. PICK q \in Nat : f.at = q * s
  BY <1>0, Multiple
<1>2. ASSUME s < Width PROVE (f.at % Width) + s <= Width
  <2>1. Divides(s, Width)
    <3>1. CASE Divides(Width, s)
      <4>1. PICK k \in Nat : s = k * Width
        BY <3>1, <1>0, Multiple
      <4>2. k = 0 \/ k >= 1
        OBVIOUS
      <4> QED BY <4>1, <4>2, <1>2, <1>0
    <3> QED BY <3>1, <1>0
  <2>2. PICK m \in Nat : Width = m * s
    BY <2>1, <1>0, Multiple
  <2>3. f.at \div Width \in Nat /\ (f.at % Width) \in 0 .. Width - 1
        /\ f.at = (f.at \div Width) * Width + (f.at % Width)
    BY <1>0, Split
  <2>4. PICK p \in Nat : f.at = p * Width + (f.at % Width)
    BY <2>3
  <2>5. p * Width = (m * p) * s /\ m * p \in Nat
    BY <2>2, <1>0, Associative
  <2>6. (q - m * p) * s = q * s - (m * p) * s /\ q * s \in Int /\ (m * p) * s \in Int
    BY <2>5, <1>0, Distributive
  <2>7. (q - m * p) * s = f.at % Width /\ q - m * p \in Int
    BY <1>1, <2>3, <2>4, <2>5, <2>6
  <2>8. (q - m * p) * s < m * s
    BY <2>7, <2>3, <2>2
  <2> QED BY <2>8, <2>7, <2>2, <1>0, Fits
<1>3. ASSUME s >= Width PROVE Divides(Width, s) /\ Divides(Width, f.at)
  <2>1. Divides(Width, s)
    <3>1. CASE Divides(s, Width)
      <4>1. PICK k \in Nat : Width = k * s
        BY <3>1, <1>0, Multiple
      <4>2. k = 0 \/ k = 1 \/ k >= 2
        OBVIOUS
      <4>3. CASE k >= 2
        <5>1. k * s >= 2 * s
          BY <4>3, <1>0
        <5> QED BY <5>1, <4>1, <1>3, <1>0
      <4>4. k = 0 => FALSE
        BY <4>1, <1>0
      <4>5. k = 1 => Width = s
        BY <4>1, <1>0
      <4> QED BY <4>2, <4>3, <4>4, <4>5, <1>0 DEF Divides
    <3> QED BY <3>1, <1>0
  <2>2. PICK k \in Nat : s = k * Width
    BY <2>1, <1>0, Multiple
  <2>3. f.at = (q * k) * Width /\ q * k \in Nat
    BY <1>1, <2>2, <1>0, Associative
  <2>4. Divides(Width, f.at)
    BY <2>3, Aligned DEF Divides
  <2> QED BY <2>1, <2>4
<1> QED BY <1>2, <1>3 DEF s
-----------------------------------------------------------------------------
(***************************************************************************)
(* Page tables.                                                             *)
(***************************************************************************)
IsDir(t) == t \in [dir : [0 .. Slots - 1 -> Entries \cup {Tree}], tab : [Addrs -> Entries]]

\* The directory entry an address is under.
SlotOf(v) == v \div Width

\* What is known of an entry by its kind.
LEMMA EntryKinds ==
  /\ None \in Entries /\ None.kind = "none" /\ Tree.kind = "tree"
  /\ \A e \in Entries : e.kind \in {"none", "page"} /\ (e.kind = "none" => e = None)
  /\ \A e \in Entries : e.kind = "page" =>
       e \in [kind : {"page"}, frame : Nat, w : BOOLEAN] /\ e = Page(e.frame, e.w)
  /\ \A f \in Nat, w \in BOOLEAN :
       Page(f, w) \in Entries /\ Page(f, w).kind = "page" /\ Page(f, w).frame = f /\ Page(f, w).w = w
  /\ \A e \in Entries \cup {Tree} : e.kind = "tree" => e = Tree
  /\ \A e \in Entries \cup {Tree} : e.kind # "tree" => e \in Entries
BY DEF None, Tree, Page, Entries

\* What an address is mapped by, under a page table, a large page and nothing.
LEMMA LookupIs ==
  ASSUME NEW t, IsDir(t), NEW a \in Addrs
  PROVE  /\ SlotOf(a) \in 0 .. Slots - 1 /\ t.dir[SlotOf(a)] \in Entries \cup {Tree} /\ t.tab[a] \in Entries
         /\ t.dir[SlotOf(a)].kind = "tree" => lookup(t, a) = t.tab[a]
         /\ t.dir[SlotOf(a)].kind = "none" => lookup(t, a) = None
         /\ t.dir[SlotOf(a)].kind = "page" =>
              lookup(t, a) = Page(t.dir[SlotOf(a)].frame + (a % Width), t.dir[SlotOf(a)].w)
         /\ lookup(t, a) \in Entries
<1> DEFINE e == t.dir[SlotOf(a)]
<1>1. SlotOf(a) \in 0 .. Slots - 1 /\ a \in Nat /\ (a % Width) \in Nat
  BY AddrNat, InDirectory, Split DEF SlotOf
<1>2. e \in Entries \cup {Tree} /\ t.tab[a] \in Entries
  BY <1>1 DEF IsDir
<1>3. /\ e.kind = "tree" => lookup(t, a) = t.tab[a]
      /\ e.kind = "none" => lookup(t, a) = e
      /\ e.kind = "page" => lookup(t, a) = [e EXCEPT !.frame = @ + (a % Width)]
  BY DEF lookup, is_subtree, Entry, pgent, SlotOf
<1> HIDE DEF e
<1>4. e.kind = "none" => e = None
  BY <1>2, EntryKinds
<1>5. e.kind = "page" => /\ lookup(t, a) = Page(e.frame + (a % Width), e.w)
                         /\ Page(e.frame + (a % Width), e.w) \in Entries
  <2> SUFFICES ASSUME e.kind = "page" PROVE  /\ lookup(t, a) = Page(e.frame + (a % Width), e.w)
                         /\ Page(e.frame + (a % Width), e.w) \in Entries
    OBVIOUS
  <2>1. e \in [kind : {"page"}, frame : Nat, w : BOOLEAN]
    BY <1>2, EntryKinds
  <2>2. [e EXCEPT !.frame = @ + (a % Width)] = Page(e.frame + (a % Width), e.w)
    BY <2>1 DEF Page
  <2>3. e.frame + (a % Width) \in Nat /\ e.w \in BOOLEAN
    BY <2>1, <1>1
  <2>4. Page(e.frame + (a % Width), e.w) \in Entries
    BY <2>3, EntryKinds
  <2> QED BY <2>2, <2>4, <1>3
<1>6. e.kind \in {"none", "page", "tree"}
  BY <1>2, EntryKinds
<1>7. lookup(t, a) \in Entries
  BY <1>2, <1>3, <1>4, <1>5, <1>6, EntryKinds
<1> QED BY <1>1, <1>2, <1>3, <1>4, <1>5, <1>7 DEF e

\* Two page tables that agree on an address map it by the same page.
LEMMA LookupSame ==
  ASSUME NEW t, NEW t2, NEW a \in Addrs, t.dir[SlotOf(a)] = t2.dir[SlotOf(a)],
         t.dir[SlotOf(a)].kind = "tree" => t.tab[a] = t2.tab[a]
  PROVE  lookup(t, a) = lookup(t2, a)
BY DEF lookup, is_subtree, Entry, pgent, SlotOf

\* A changed entry of a page table
LEMMA SetTab ==
  ASSUME NEW t, IsDir(t), NEW v \in Addrs, NEW e \in Entries
  PROVE  LET t2 == Set(t, <<0, v>>, e) IN
         /\ IsDir(t2) /\ t2.dir = t.dir /\ t2.tab = [t.tab EXCEPT ![v] = e]
         /\ \A a \in Addrs : a # v => lookup(t2, a) = lookup(t, a)
         /\ t.dir[SlotOf(v)].kind = "tree" => lookup(t2, v) = e
<1> DEFINE t2 == Set(t, <<0, v>>, e)
<1>1. t2 = [t EXCEPT !.tab[v] = e]
  BY DEF Set
<1>2. IsDir(t2) /\ t2.dir = t.dir /\ t2.tab = [t.tab EXCEPT ![v] = e]
  BY <1>1 DEF IsDir
<1> HIDE DEF t2
<1>3. ASSUME NEW a \in Addrs, a # v PROVE lookup(t2, a) = lookup(t, a)
  <2>1. t2.tab[a] = t.tab[a]
    BY <1>2, <1>3 DEF IsDir
  <2> QED BY <2>1, <1>2, LookupSame
<1>4. t2.tab[v] = e
  BY <1>2 DEF IsDir
<1> QED BY <1>2, <1>3, <1>4, LookupIs DEF t2

\* and of a directory.
LEMMA SetDir ==
  ASSUME NEW t, IsDir(t), NEW s \in 0 .. Slots - 1, NEW e \in Entries \cup {Tree}
  PROVE  LET t2 == Set(t, <<1, s>>, e) IN
         /\ IsDir(t2) /\ t2.dir = [t.dir EXCEPT ![s] = e] /\ t2.tab = t.tab
         /\ \A a \in Addrs : SlotOf(a) # s => lookup(t2, a) = lookup(t, a)
<1> DEFINE t2 == Set(t, <<1, s>>, e)
<1>1. t2 = [t EXCEPT !.dir[s] = e]
  BY DEF Set
<1>2. IsDir(t2) /\ t2.dir = [t.dir EXCEPT ![s] = e] /\ t2.tab = t.tab
  BY <1>1 DEF IsDir
<1> HIDE DEF t2
<1>3. ASSUME NEW a \in Addrs, SlotOf(a) # s PROVE lookup(t2, a) = lookup(t, a)
  <2>1. SlotOf(a) \in 0 .. Slots - 1
    BY LookupIs
  <2>2. t2.dir[SlotOf(a)] = t.dir[SlotOf(a)]
    BY <1>2, <1>3, <2>1 DEF IsDir
  <2> QED BY <2>2, <1>2, LookupSame
<1> QED BY <1>2, <1>3 DEF t2

\* A page table that is removed.
LEMMA Removed ==
  ASSUME NEW t, IsDir(t), NEW s \in 0 .. Slots - 1
  PROVE  LET t2 == remove_subtree(t, <<1, s>>) IN
         /\ IsDir(t2) /\ t2.dir = [t.dir EXCEPT ![s] = None]
         /\ \A a \in Addrs : t2.tab[a] = IF SlotOf(a) = s THEN None ELSE t.tab[a]
         /\ \A a \in Addrs : lookup(t2, a) = IF SlotOf(a) = s THEN None ELSE lookup(t, a)
<1> DEFINE t2 == remove_subtree(t, <<1, s>>)
<1>1. t2 = [dir |-> [t.dir EXCEPT ![s] = None],
            tab |-> [j \in Addrs |-> IF j \in Under(<<1, s>>) THEN None ELSE t.tab[j]]]
  BY DEF remove_subtree
<1>2. \A a \in Addrs : a \in Under(<<1, s>>) <=> SlotOf(a) = s
  BY AddrNat, UnderIs DEF Under, SlotOf
<1>3. IsDir(t2) /\ t2.dir = [t.dir EXCEPT ![s] = None]
  <2> DEFINE d == [t.dir EXCEPT ![s] = None]
             g == [j \in Addrs |-> IF j \in Under(<<1, s>>) THEN None ELSE t.tab[j]]
  <2>1. d \in [0 .. Slots - 1 -> Entries \cup {Tree}]
    BY EntryKinds DEF IsDir
  <2>2. g \in [Addrs -> Entries]
    BY EntryKinds DEF IsDir
  <2>3. t2 = [dir |-> d, tab |-> g]
    BY <1>1
  <2> HIDE DEF d, g, t2
  <2>4. IsDir(t2) /\ t2.dir = d
    BY <2>1, <2>2, <2>3 DEF IsDir
  <2> QED BY <2>4 DEF d
<1>4. \A a \in Addrs : t2.tab[a] = IF SlotOf(a) = s THEN None ELSE t.tab[a]
  BY <1>1, <1>2
<1> HIDE DEF t2
<1>5. ASSUME NEW a \in Addrs PROVE lookup(t2, a) = IF SlotOf(a) = s THEN None ELSE lookup(t, a)
  <2>1. SlotOf(a) \in 0 .. Slots - 1
    BY <1>3, LookupIs
  <2>2. CASE SlotOf(a) = s
    <3>1. t2.dir[SlotOf(a)] = None
      BY <1>3, <2>1, <2>2 DEF IsDir
    <3> QED BY <3>1, <1>3, <2>2, LookupIs, EntryKinds
  <2>3. CASE SlotOf(a) # s
    <3>1. t2.dir[SlotOf(a)] = t.dir[SlotOf(a)] /\ t2.tab[a] = t.tab[a]
      BY <1>3, <1>4, <2>1, <2>3 DEF IsDir
    <3> QED BY <3>1, <2>3, LookupSame
  <2> QED BY <2>2, <2>3
<1> QED BY <1>3, <1>4, <1>5 DEF t2
-----------------------------------------------------------------------------
(***************************************************************************)
(* unmap_fpage.  Below vaddr everything is as it has to be, and what is left*)
(* of the page tables from there on is what the call found.                 *)
(***************************************************************************)
UnmapLocals ==
  [running : BOOLEAN, pgsize : {0, 1}, size : {0, 1}, num : Nat, vaddr : Nat,
   pg : {0, 1} \X Nat, r_pg : {0, 1} \X Nat, r_num : Nat, done : SUBSET Nat]

Reached(t, done, v) ==
  /\ done = {a \in Treated : a < v}
  /\ \A a \in Addrs : lookup(t, a) = IF a < v THEN Left(a) ELSE lookup(call.dst, a)

Ahead(t, v) ==
  /\ \A s \in 0 .. Slots - 1 : v <= s * Width => t.dir[s] = call.dst.dir[s]
  /\ \A a \in Addrs : v <= a => t.tab[a] = call.dst.tab[a]

UnmapEnd == call.snd.at + call.snd.size

\* At the directory entry of a part of it, and at one of several.
AtPart(x, t) ==
  /\ x.size = 1 /\ x.pgsize = 0 /\ x.vaddr = call.snd.at /\ x.num = call.snd.size
  /\ x.pg = <<1, SlotOf(x.vaddr)>>
  /\ x.vaddr \in Addrs => t.dir[SlotOf(x.vaddr)] = call.dst.dir[SlotOf(x.vaddr)]
AtEntry(x) ==
  /\ x.size = 1 /\ x.pgsize = 1 /\ (x.vaddr % Width) = 0 /\ x.pg = <<1, SlotOf(x.vaddr)>>
  /\ x.vaddr + x.num * Width = UnmapEnd

\* In the page table of a part, and in one to be walked through.
InTable(x, t) ==
  /\ x.size = 0 /\ x.pg = <<0, x.vaddr>> /\ x.vaddr \in Addrs
  /\ t.dir[SlotOf(x.vaddr)].kind = "tree" /\ call.dst.dir[SlotOf(x.vaddr)].kind = "tree"
InPart(x, t) == x.pgsize = 0 /\ InTable(x, t) /\ x.vaddr + x.num = UnmapEnd
InEntry(x, t) ==
  /\ x.pgsize = 1 /\ InTable(x, t) /\ x.num = Width - (x.vaddr % Width)
  /\ x.r_pg = <<1, SlotOf(x.vaddr)>>
  /\ call.snd.at <= SlotOf(x.vaddr) * Width
  /\ (SlotOf(x.vaddr) + 1) * Width + x.r_num * Width = UnmapEnd

Walking(x, t) ==
  /\ x.num >= 1 /\ call.snd.at <= x.vaddr
  /\ Reached(t, x.done, x.vaddr) /\ Ahead(t, x.vaddr)
  /\ AtPart(x, t) \/ AtEntry(x) \/ InPart(x, t) \/ InEntry(x, t)
Walked(x, t) == x.done = Treated /\ \A a \in Addrs : lookup(t, a) = Left(a)

UnmapInv(x, t) ==
  /\ x \in UnmapLocals /\ IsDir(t) /\ x.pgsize = PageSize(call.snd.size)
  /\ x.running => Walking(x, t)
  /\ ~x.running => Walked(x, t)

\* What the proofs use of a regular call.
UnmapCall ==
  /\ call.snd.at \in Nat /\ call.snd.size \in Nat \ {0}
  /\ call.flush \in BOOLEAN /\ call.all \in BOOLEAN /\ call.unmap_all \in BOOLEAN
  /\ IsDir(call.dst)
  /\ \A a \in Addrs : a \in Kernel => call.dst.dir[SlotOf(a)].kind # "page"
  /\ call.snd.size < Width => (call.snd.at % Width) + call.snd.size <= Width
  /\ call.snd.size >= Width => Divides(Width, call.snd.size) /\ Divides(Width, call.snd.at)
  /\ \A a \in Unmapped \cap Addrs :
       /\ Large(call.dst, a) /\ call.snd.size < Width =>
            (call.flush => call.all) /\ (call.flush \/ call.snd.size = 1)
       /\ call.snd.size >= Width /\ call.flush /\ call.all =>
            call.unmap_all \/ Under(pgent(a)) \cap Kernel = {}

\* What the proofs use of a regular call of unmap_fpage holds of each.
LEMMA RegularUnmap ==
  ASSUME IsCall(call), Regular(call), call.op = "unmap"
  PROVE  UnmapCall
<1>1. IsFpage(call.snd) /\ IsTable(call.dst)
  BY DEF IsCall
<1>2. {call.flush, call.all, call.unmap_all} \subseteq BOOLEAN
  BY DEF IsCall
<1>3. \A a \in Unmapped \cap Addrs :
       /\ Large(call.dst, a) /\ call.snd.size < Width =>
            (call.flush => call.all) /\ (call.flush \/ call.snd.size = 1)
       /\ call.snd.size >= Width /\ call.flush /\ call.all =>
            call.unmap_all \/ Under(pgent(a)) \cap Kernel = {}
  BY DEF Regular, Unmapped
<1>4. /\ call.snd.size < Width => (call.snd.at % Width) + call.snd.size <= Width
      /\ call.snd.size >= Width => Divides(Width, call.snd.size) /\ Divides(Width, call.snd.at)
  BY <1>1, FpagePlace
<1>5. IsDir(call.dst) /\ \A a \in Addrs : a \in Kernel => call.dst.dir[SlotOf(a)].kind # "page"
  BY <1>1 DEF IsTable, IsDir, SlotOf
<1>6. call.snd.at \in Nat /\ call.snd.size \in Nat \ {0}
  BY <1>1 DEF IsFpage
<1> QED BY <1>2, <1>3, <1>4, <1>5, <1>6 DEF UnmapCall

\* Large pages, as a directory entry.
LEMMA LargeIs ==
  ASSUME NEW t, NEW a \in Addrs
  PROVE  Large(t, a) <=> t.dir[SlotOf(a)].kind = "page"
BY DEF Large, Entry, pgent, SlotOf

\* A revoked mapping is gone, or it is a mapping of the same page.
LEMMA RevokedIs ==
  ASSUME UnmapCall, NEW f \in Nat, NEW w \in BOOLEAN
  PROVE  /\ Flushes => Revoked(Page(f, w)) = None
         /\ ~Flushes => \E w2 \in BOOLEAN : \A g \in Nat : Revoked(Page(g, w)) = Page(g, w2)
<1>0. call.flush \in BOOLEAN /\ call.all \in BOOLEAN
  BY DEF UnmapCall
<1>1. CASE Flushes
  BY <1>1, <1>0 DEF Revoked, Flushes
<1>2. CASE ~Flushes /\ call.flush
  <2>1. \A g \in Nat : Revoked(Page(g, w)) = Page(g, FALSE)
    BY <1>2, <1>0 DEF Revoked, Flushes, Page
  <2>2. \E w2 \in BOOLEAN : \A g \in Nat : Revoked(Page(g, w)) = Page(g, w2)
    BY <2>1, Zenon
  <2> QED BY <2>2, <1>2
<1>3. CASE ~call.flush
  <2>1. \A g \in Nat : Revoked(Page(g, w)) = Page(g, w)
    BY <1>3, <1>0 DEF Revoked, Flushes
  <2>2. ~Flushes
    BY <1>3 DEF Flushes
  <2> QED BY <2>1, <2>2
<1> QED BY <1>1, <1>2, <1>3, <1>0

\* It stays an entry.
LEMMA RevokedEntry ==
  ASSUME UnmapCall, NEW e \in Entries, e.kind = "page"
  PROVE  Revoked(e) \in Entries
<1>1. e.frame \in Nat /\ e.w \in BOOLEAN /\ e = Page(e.frame, e.w)
  BY EntryKinds
<1>2. CASE Flushes
  BY <1>1, <1>2, RevokedIs, EntryKinds
<1>3. CASE ~Flushes
  <2>1. PICK w2 \in BOOLEAN : \A g \in Nat : Revoked(Page(g, e.w)) = Page(g, w2)
    BY <1>1, <1>3, RevokedIs
  <2> QED BY <2>1, <1>1, EntryKinds
<1> QED BY <1>2, <1>3

\* What is outside of the fpage is left as it is.
LEMMA LeftOutside ==
  ASSUME NEW a \in Addrs, a \notin Unmapped
  PROVE  Left(a) = lookup(call.dst, a) /\ a \notin Treated
BY DEF Left, Treated

\* What has to be left where the call found nothing, or a page.
LEMMA LeftIs ==
  ASSUME UnmapCall, NEW a \in Unmapped \cap Addrs
  PROVE  /\ lookup(call.dst, a).kind = "none" => a \notin Treated /\ Left(a) = None
         /\ lookup(call.dst, a).kind = "page" /\ a \notin Kernel
              /\ ~(Flushes /\ call.snd.size < Width /\ Large(call.dst, a)) =>
              a \in Treated /\ Left(a) = Revoked(lookup(call.dst, a))
         /\ a \in Kernel => /\ a \notin Treated
                            /\ Left(a) = IF call.unmap_all THEN None ELSE lookup(call.dst, a)
<1>1. lookup(call.dst, a) \in Entries
  BY LookupIs DEF UnmapCall
<1>2. lookup(call.dst, a).kind = "none" => lookup(call.dst, a) = None
  BY <1>1, EntryKinds
<1> QED BY <1>2 DEF Left, Treated, is_mappable

\* An entry of a page table is treated.
LEMMA TableStep ==
  ASSUME UnmapCall, NEW t, IsDir(t), NEW done, NEW v \in Unmapped \cap Addrs,
         Reached(t, done, v), Ahead(t, v),
         t.dir[SlotOf(v)].kind = "tree", call.dst.dir[SlotOf(v)].kind = "tree",
         NEW t2, NEW done2,
         IF is_valid(t, <<0, v>>) /\ is_mappable(v)
         THEN t2 = Set(t, <<0, v>>, Revoked(Entry(t, <<0, v>>))) /\ done2 = done \cup {v}
         ELSE /\ t2 = IF is_valid(t, <<0, v>>) /\ call.unmap_all THEN Set(t, <<0, v>>, None) ELSE t
              /\ done2 = done
  PROVE  IsDir(t2) /\ Reached(t2, done2, v + 1) /\ Ahead(t2, v + 1) /\ t2.dir = t.dir
<1> DEFINE e == t.tab[v]
<1>1. v \in Nat /\ e \in Entries /\ e = lookup(call.dst, v) /\ Entry(t, <<0, v>>) = e /\ e = lookup(t, v)
  <2>1. v \in Nat /\ IsDir(call.dst)
    BY AddrNat DEF UnmapCall
  <2>2. t.tab[v] = call.dst.tab[v]
    BY <2>1 DEF Ahead
  <2> QED BY <2>1, <2>2, LookupIs DEF Entry
<1>2. ~Large(call.dst, v)
  BY LargeIs
<1>3. PICK e2 \in Entries : /\ t2 = Set(t, <<0, v>>, e2) \/ (t2 = t /\ e2 = e)
                            /\ e2 = Left(v)
                            /\ done2 = IF v \in Treated THEN done \cup {v} ELSE done
  <2>1. CASE e.kind = "none"
    <3>1. t2 = t /\ done2 = done
      BY <2>1, <1>1 DEF is_valid
    <3>2. Left(v) = None /\ e = None /\ v \notin Treated
      BY <2>1, <1>1, LeftIs, EntryKinds
    <3> QED BY <3>1, <3>2, <1>1
  <2>2. CASE e.kind # "none" /\ v \notin Kernel
    <3>1. e.kind = "page"
      BY <2>2, <1>1, EntryKinds
    <3>2. t2 = Set(t, <<0, v>>, Revoked(e)) /\ done2 = done \cup {v}
      BY <2>2, <1>1 DEF is_valid, is_mappable
    <3>3. v \in Treated /\ Left(v) = Revoked(e)
      BY <3>1, <2>2, <1>1, <1>2, LeftIs
    <3>4. Revoked(e) \in Entries
      BY <3>1, <1>1, RevokedEntry
    <3> QED BY <3>2, <3>3, <3>4
  <2>3. CASE e.kind # "none" /\ v \in Kernel
    <3>1. t2 = (IF call.unmap_all THEN Set(t, <<0, v>>, None) ELSE t) /\ done2 = done
      BY <2>3, <1>1 DEF is_valid, is_mappable
    <3>2. v \notin Treated /\ Left(v) = IF call.unmap_all THEN None ELSE e
      BY <2>3, <1>1, LeftIs
    <3>3. CASE call.unmap_all
      BY <3>1, <3>2, <3>3, EntryKinds
    <3>4. CASE ~call.unmap_all
      BY <3>1, <3>2, <3>4, <1>1
    <3> QED BY <3>3, <3>4
  <2> QED BY <2>1, <2>2, <2>3
<1> HIDE DEF e
<1>4. /\ IsDir(t2) /\ t2.dir = t.dir
      /\ \A a \in Addrs : a # v => lookup(t2, a) = lookup(t, a) /\ t2.tab[a] = t.tab[a]
      /\ lookup(t2, v) = e2
  <2>1. CASE t2 = Set(t, <<0, v>>, e2)
    <3>1. /\ IsDir(t2) /\ t2.dir = t.dir /\ t2.tab = [t.tab EXCEPT ![v] = e2]
          /\ \A a \in Addrs : a # v => lookup(t2, a) = lookup(t, a)
          /\ lookup(t2, v) = e2
      BY <2>1, SetTab
    <3>2. \A a \in Addrs : a # v => t2.tab[a] = t.tab[a]
      BY <3>1 DEF IsDir
    <3> QED BY <3>1, <3>2
  <2>2. CASE t2 = t /\ e2 = e
    BY <2>2, <1>1
  <2> QED BY <2>1, <2>2, <1>3
<1>5. Ahead(t2, v + 1)
  <2>1. ASSUME NEW s \in 0 .. Slots - 1, v + 1 <= s * Width PROVE t2.dir[s] = call.dst.dir[s]
    <3>1. s * Width \in Nat
      BY Aligned
    <3>2. v <= s * Width
      BY <2>1, <3>1, <1>1
    <3> QED BY <3>2, <1>4 DEF Ahead
  <2>2. ASSUME NEW a \in Addrs, v + 1 <= a PROVE t2.tab[a] = call.dst.tab[a]
    <3>1. a \in Nat /\ a # v /\ v <= a
      BY <2>2, <1>1, AddrNat
    <3> QED BY <3>1, <1>4 DEF Ahead
  <2> QED BY <2>1, <2>2 DEF Ahead
<1>6. \A a \in Addrs : lookup(t2, a) = IF a < v + 1 THEN Left(a) ELSE lookup(call.dst, a)
  <2> TAKE a \in Addrs
  <2>1. a \in Nat /\ lookup(t, a) = IF a < v THEN Left(a) ELSE lookup(call.dst, a)
    BY AddrNat DEF Reached
  <2>2. CASE a = v
    BY <2>2, <1>1, <1>3, <1>4
  <2>3. CASE a # v
    BY <2>1, <2>3, <1>1, <1>4
  <2> QED BY <2>2, <2>3
<1>7. done2 = {a \in Treated : a < v + 1}
  <2>1. done = {a \in Treated : a < v}
    BY DEF Reached
  <2>2. \A a \in Treated : a \in Nat
    BY AddrNat DEF Treated
  <2>3. \A a : a \in done2 <=> a \in Treated /\ a < v + 1
    BY <2>1, <2>2, <1>1, <1>3
  <2> QED BY <2>3
<1> QED BY <1>4, <1>5, <1>6, <1>7 DEF Reached

\* The pages under a directory entry between two addresses of it.
LEMMA UnderEntry ==
  ASSUME NEW v \in Nat, (v % Width) = 0, NEW a \in Nat
  PROVE  /\ SlotOf(a) = SlotOf(v) <=> v <= a /\ a < v + Width
         /\ SlotOf(v + Width) = SlotOf(v) + 1 /\ (v + Width) % Width = 0
         /\ v = SlotOf(v) * Width /\ v + Width = (SlotOf(v) + 1) * Width
<1>1. SlotOf(v) \in Nat /\ v = SlotOf(v) * Width
  BY Split, WalkerAssumption DEF SlotOf
<1>2. v + Width = (SlotOf(v) + 1) * Width /\ SlotOf(v) + 1 \in Nat
  <2>1. (SlotOf(v) + 1) * Width = SlotOf(v) * Width + 1 * Width
    BY <1>1, Distributive, WalkerAssumption
  <2> HIDE DEF SlotOf
  <2> QED BY <1>1, <2>1, WalkerAssumption
<1>3. a \in SlotOf(v) * Width .. (SlotOf(v) + 1) * Width - 1 <=> SlotOf(a) = SlotOf(v)
  BY <1>1, UnderIs DEF SlotOf
<1>4. SlotOf(v + Width) = SlotOf(v) + 1 /\ (v + Width) % Width = 0
  BY <1>2, Aligned DEF SlotOf
<1> HIDE DEF SlotOf
<1>5. SlotOf(a) = SlotOf(v) <=> v <= a /\ a < v + Width
  BY <1>1, <1>2, <1>3, WalkerAssumption
<1> QED BY <1>1, <1>2, <1>4, <1>5

\* A directory entry is treated.
LEMMA EntryStep ==
  ASSUME UnmapCall, call.snd.size >= Width, NEW t, IsDir(t), NEW done, NEW v \in Addrs,
         (v % Width) = 0, v .. v + Width - 1 \subseteq Unmapped,
         Reached(t, done, v), Ahead(t, v), t.dir[SlotOf(v)].kind # "tree",
         NEW t2, NEW done2,
         IF is_valid(t, <<1, SlotOf(v)>>) /\ is_mappable(v)
         THEN /\ t2 = Set(t, <<1, SlotOf(v)>>, Revoked(Entry(t, <<1, SlotOf(v)>>)))
              /\ done2 = done \cup (v .. v + Width - 1)
         ELSE /\ t2 = IF is_valid(t, <<1, SlotOf(v)>>) /\ call.unmap_all
                      THEN Set(t, <<1, SlotOf(v)>>, None) ELSE t
              /\ done2 = done
  PROVE  IsDir(t2) /\ Reached(t2, done2, v + Width) /\ Ahead(t2, v + Width)
<1> DEFINE s == SlotOf(v)
           e == t.dir[s]
<1>1. v \in Nat /\ s \in 0 .. Slots - 1 /\ IsDir(call.dst) /\ v = s * Width
  BY AddrNat, LookupIs, UnderEntry DEF UnmapCall
<1>2. \A a \in Addrs : SlotOf(a) = s <=> v <= a /\ a < v + Width
  BY <1>1, AddrNat, UnderEntry
<1>3. e = call.dst.dir[s] /\ e \in Entries /\ Entry(t, <<1, s>>) = e
  <2>1. e = call.dst.dir[s]
    BY <1>1 DEF Ahead
  <2>2. e \in Entries \cup {Tree}
    BY LookupIs
  <2> QED BY <2>1, <2>2, EntryKinds DEF Entry
<1>4. \A a \in Addrs : SlotOf(a) = s => a \in Unmapped
  BY <1>2, AddrNat, WalkerAssumption
<1> HIDE DEF s, e
<1>5. /\ IsDir(t2) /\ t2.tab = t.tab
      /\ \A k \in 0 .. Slots - 1 : k # s => t2.dir[k] = t.dir[k]
      /\ \A a \in Addrs : SlotOf(a) # s => lookup(t2, a) = lookup(t, a)
      /\ \A a \in Addrs : SlotOf(a) = s => lookup(t2, a) = Left(a)
      /\ \A a : a \in done2 <=> a \in done \/ (a \in Treated /\ SlotOf(a) = s)
  <2>1. CASE e.kind = "none"
    <3>1. t2 = t /\ done2 = done
      BY <2>1, <1>3 DEF is_valid, s
    <3>2. ASSUME NEW a \in Addrs, SlotOf(a) = s PROVE lookup(t2, a) = Left(a) /\ a \notin Treated
      <4>1. lookup(t, a) = None /\ lookup(call.dst, a) = None
        BY <2>1, <3>2, <1>1, <1>3, LookupIs DEF e
      <4>2. a \in Unmapped /\ None.kind = "none"
        BY <1>4, <3>2, EntryKinds
      <4> QED BY <4>1, <4>2, <3>1, LeftIs
    <3>3. \A a : a \in Treated => a \in Addrs
      BY DEF Treated
    <3> QED BY <3>1, <3>2, <3>3
  <2>2. CASE e.kind # "none"
    <3>1. e.kind = "page" /\ e.frame \in Nat /\ e.w \in BOOLEAN /\ e = Page(e.frame, e.w)
      BY <2>2, <1>3, EntryKinds
    <3>2. \A a \in Addrs : SlotOf(a) = s => a \notin Kernel /\ Large(call.dst, a)
      BY <3>1, <1>3, LargeIs DEF UnmapCall
    <3>3. v \notin Kernel
      BY <3>2 DEF s
    <3>4. t2 = Set(t, <<1, s>>, Revoked(e)) /\ done2 = done \cup (v .. v + Width - 1)
      BY <3>3, <2>2, <1>3 DEF is_valid, is_mappable, s
    <3>5. Revoked(e) \in Entries
      BY <3>1, <1>3, RevokedEntry
    <3>6. /\ IsDir(t2) /\ t2.dir = [t.dir EXCEPT ![s] = Revoked(e)] /\ t2.tab = t.tab
          /\ \A a \in Addrs : SlotOf(a) # s => lookup(t2, a) = lookup(t, a)
      BY <3>4, <3>5, <1>1, SetDir
    <3>7. /\ t2.dir[s] = Revoked(e)
          /\ \A k \in 0 .. Slots - 1 : k # s => t2.dir[k] = t.dir[k]
      BY <3>6, <1>1 DEF IsDir
    <3>8. ASSUME NEW a \in Addrs, SlotOf(a) = s PROVE lookup(t2, a) = Left(a) /\ a \in Treated
      <4> DEFINE f == e.frame + (a % Width)
      <4>1. f \in Nat /\ (a % Width) \in Nat
        BY <3>1, AddrNat, Split
      <4>2. lookup(call.dst, a) = Page(f, e.w) /\ Page(f, e.w).kind = "page"
        BY <3>1, <3>8, <4>1, <1>1, <1>3, LookupIs, EntryKinds
      <4>3. a \in Unmapped /\ ~(call.snd.size < Width)
        BY <1>4, <3>8, WalkerAssumption DEF UnmapCall
      <4>4. a \in Treated /\ Left(a) = Revoked(Page(f, e.w))
        BY <4>2, <4>3, <3>2, <3>8, LeftIs
      <4> HIDE DEF f
      <4>5. CASE Flushes
        <5>1. Revoked(Page(f, e.w)) = None /\ Revoked(e) = None
          BY <4>5, <4>1, <3>1, RevokedIs
        <5>2. lookup(t2, a) = None
          <6>1. t2.dir[SlotOf(a)].kind = "none"
            BY <5>1, <3>7, <3>8, EntryKinds
          <6> QED BY <6>1, <3>6, LookupIs
        <5> QED BY <4>4, <5>1, <5>2
      <4>6. CASE ~Flushes
        <5>1. PICK w2 \in BOOLEAN : \A g \in Nat : Revoked(Page(g, e.w)) = Page(g, w2)
          BY <4>6, <3>1, RevokedIs
        <5>2. Revoked(e) = Page(e.frame, w2)
          BY <5>1, <3>1
        <5>3. Revoked(e).kind = "page" /\ Revoked(e).frame = e.frame /\ Revoked(e).w = w2
          BY <5>2, <3>1, EntryKinds
        <5>4. lookup(t2, a) = Page(f, w2)
          <6>1. t2.dir[SlotOf(a)] = Revoked(e)
            BY <3>7, <3>8
          <6>2. t2.dir[SlotOf(a)].kind = "page" /\ IsDir(t2)
            BY <6>1, <5>3, <3>6
          <6>3. lookup(t2, a) = Page(t2.dir[SlotOf(a)].frame + (a % Width), t2.dir[SlotOf(a)].w)
            BY <6>2, LookupIs
          <6> QED BY <6>1, <6>3, <5>3 DEF f
        <5> QED BY <4>4, <4>1, <5>1, <5>4
      <4> QED BY <4>5, <4>6
    <3>9. \A a : a \in v .. v + Width - 1 <=> a \in Treated /\ SlotOf(a) = s
      <4>1. ASSUME NEW a \in v .. v + Width - 1 PROVE a \in Addrs /\ SlotOf(a) = s
        <5>1. a \in Nat /\ v <= a /\ a < v + Width
          BY <1>1, WalkerAssumption
        <5>2. SlotOf(a) = s
          BY <5>1, <1>1, UnderEntry DEF s
        <5> QED BY <5>1, <5>2, <1>1, InDirectory DEF SlotOf
      <4>2. \A a \in Treated : a \in Addrs
        BY DEF Treated
      <4> QED BY <4>1, <4>2, <3>8, <1>2, AddrNat, <1>1, WalkerAssumption
    <3> QED BY <3>4, <3>6, <3>7, <3>8, <3>9
  <2> QED BY <2>1, <2>2
<1>6. Ahead(t2, v + Width)
  <2>1. ASSUME NEW k \in 0 .. Slots - 1, v + Width <= k * Width PROVE t2.dir[k] = call.dst.dir[k]
    <3>1. k * Width \in Nat
      BY Aligned
    <3>2. v <= k * Width /\ k # s
      BY <2>1, <3>1, <1>1, WalkerAssumption
    <3> QED BY <3>2, <1>5 DEF Ahead
  <2>2. ASSUME NEW a \in Addrs, v + Width <= a PROVE t2.tab[a] = call.dst.tab[a]
    <3>1. a \in Nat /\ v <= a
      <4>1. a \in Nat /\ Width \in Nat
        BY AddrNat, WalkerAssumption
      <4> QED BY <4>1, <2>2, <1>1
    <3> QED BY <3>1, <1>5 DEF Ahead
  <2> QED BY <2>1, <2>2 DEF Ahead
<1>7. \A a \in Addrs : lookup(t2, a) = IF a < v + Width THEN Left(a) ELSE lookup(call.dst, a)
  <2> TAKE a \in Addrs
  <2>1. a \in Nat /\ lookup(t, a) = IF a < v THEN Left(a) ELSE lookup(call.dst, a)
    BY AddrNat DEF Reached
  <2>2. CASE SlotOf(a) = s
    BY <2>2, <1>2, <1>5
  <2>3. CASE SlotOf(a) # s
    BY <2>1, <2>3, <1>1, <1>2, <1>5, WalkerAssumption
  <2> QED BY <2>2, <2>3
<1>8. done2 = {a \in Treated : a < v + Width}
  <2>1. done = {a \in Treated : a < v}
    BY DEF Reached
  <2>2. \A a \in Treated : a \in Nat /\ a \in Addrs
    BY AddrNat DEF Treated
  <2>3. \A a : a \in done2 <=> a \in Treated /\ a < v + Width
    BY <2>1, <2>2, <1>1, <1>2, <1>5, WalkerAssumption
  <2> QED BY <2>3
<1> QED BY <1>5, <1>6, <1>7, <1>8 DEF Reached

\* A page table whose pages have all been flushed is removed, or not.
LEMMA TableRemoved ==
  ASSUME UnmapCall, call.snd.size >= Width, Flushes, NEW t, IsDir(t), NEW done,
         NEW s \in 0 .. Slots - 1, s * Width .. (s + 1) * Width - 1 \subseteq Unmapped,
         Reached(t, done, (s + 1) * Width), Ahead(t, (s + 1) * Width)
  PROVE  LET t2 == remove_subtree(t, <<1, s>>) IN
         IsDir(t2) /\ Reached(t2, done, (s + 1) * Width) /\ Ahead(t2, (s + 1) * Width)
<1> DEFINE t2 == remove_subtree(t, <<1, s>>)
           v  == (s + 1) * Width
<1>1. /\ IsDir(t2) /\ t2.dir = [t.dir EXCEPT ![s] = None]
      /\ \A a \in Addrs : t2.tab[a] = IF SlotOf(a) = s THEN None ELSE t.tab[a]
      /\ \A a \in Addrs : lookup(t2, a) = IF SlotOf(a) = s THEN None ELSE lookup(t, a)
  BY Removed
<1>2. \A a \in Addrs : SlotOf(a) = s <=> a \in s * Width .. v - 1
  BY AddrNat, UnderIs DEF SlotOf
<1>3. v \in Nat /\ s * Width \in Nat
  BY Aligned
<1> HIDE DEF t2, v
<1>4. ASSUME NEW a \in Addrs, SlotOf(a) = s PROVE a < v /\ Left(a) = None
  <2>1. a \in Nat /\ a \in Unmapped /\ a < v
    BY <1>2, <1>3, <1>4, AddrNat DEF v
  <2>2. ~(call.snd.size < Width) /\ IsDir(call.dst)
    BY WalkerAssumption DEF UnmapCall
  <2>3. lookup(call.dst, a) \in Entries
    BY <2>2, LookupIs
  <2>4. CASE lookup(call.dst, a).kind = "none"
    BY <2>1, <2>4, LeftIs
  <2>5. CASE lookup(call.dst, a).kind = "page" /\ a \notin Kernel
    <3>1. Left(a) = Revoked(lookup(call.dst, a))
      BY <2>1, <2>2, <2>5, LeftIs
    <3>2. lookup(call.dst, a) = Page(lookup(call.dst, a).frame, lookup(call.dst, a).w)
          /\ lookup(call.dst, a).frame \in Nat /\ lookup(call.dst, a).w \in BOOLEAN
      BY <2>3, <2>5, EntryKinds
    <3>3. Revoked(lookup(call.dst, a)) = None
      BY <3>2, RevokedIs
    <3> QED BY <2>1, <3>1, <3>3
  <2>6. CASE a \in Kernel
    <3>1. a \in Under(pgent(a))
      BY <2>1, UnderIs, Split DEF Under, pgent
    <3>2. call.unmap_all
      BY <3>1, <2>1, <2>6 DEF UnmapCall, Flushes
    <3> QED BY <3>2, <2>1, <2>6, LeftIs
  <2> QED BY <2>3, <2>4, <2>5, <2>6, EntryKinds
<1>5. Reached(t2, done, v)
  <2>1. ASSUME NEW a \in Addrs
        PROVE  lookup(t2, a) = IF a < v THEN Left(a) ELSE lookup(call.dst, a)
    <3>1. lookup(t, a) = IF a < v THEN Left(a) ELSE lookup(call.dst, a)
      BY DEF Reached, v
    <3> QED BY <3>1, <1>1, <1>4
  <2> QED BY <2>1 DEF Reached, v
<1>6. Ahead(t2, v)
  <2>1. ASSUME NEW k \in 0 .. Slots - 1, v <= k * Width PROVE t2.dir[k] = call.dst.dir[k]
    <3>2. k # s
      <4>1. v = s * Width + 1 * Width
        BY Distributive, WalkerAssumption DEF v
      <4> QED BY <2>1, <4>1, <1>3, WalkerAssumption
    <3>3. t2.dir[k] = t.dir[k]
      BY <3>2, <1>1 DEF IsDir
    <3> QED BY <3>3, <2>1 DEF Ahead, v
  <2>2. ASSUME NEW a \in Addrs, v <= a PROVE t2.tab[a] = call.dst.tab[a]
    <3>1. SlotOf(a) # s
      BY <2>2, <1>3, <1>4, AddrNat
    <3> QED BY <3>1, <2>2, <1>1 DEF Ahead, v
  <2> QED BY <2>1, <2>2 DEF Ahead
<1> QED BY <1>1, <1>5, <1>6 DEF t2, v

\* The directory entries of the fpage.
LEMMA PartSlot ==
  ASSUME UnmapCall, call.snd.size < Width, NEW a \in Unmapped
  PROVE  a \in Nat /\ SlotOf(a) = SlotOf(call.snd.at)
<1> DEFINE at == call.snd.at
<1>1. at \in Nat /\ call.snd.size \in Nat /\ (at % Width) + call.snd.size <= Width
  BY DEF UnmapCall
<1>2. SlotOf(at) \in Nat /\ (at % Width) \in Nat /\ at = SlotOf(at) * Width + (at % Width)
  BY <1>1, Split DEF SlotOf
<1>3. a \in Nat /\ at <= a /\ a < at + call.snd.size
  BY <1>1 DEF Unmapped, Fpage
<1>4. a - SlotOf(at) * Width \in 0 .. Width - 1 /\ a = SlotOf(at) * Width + (a - SlotOf(at) * Width)
  <2>1. SlotOf(at) * Width \in Nat
    BY <1>2, Aligned
  <2> HIDE DEF SlotOf, at
  <2> QED BY <1>1, <1>2, <1>3, <2>1, WalkerAssumption
<1>5. \A r \in 0 .. Width - 1 : SlotOf(SlotOf(at) * Width + r) = SlotOf(at)
  BY <1>2, SplitUnique DEF SlotOf
<1> QED BY <1>3, <1>4, <1>5

\* unmap_fpage starts at the directory entry of its fpage.
LEMMA UnmapStarts ==
  ASSUME UnmapCall, UnmapInit(call)
  PROVE  UnmapInv(l, call.dst)
<1> DEFINE at == call.snd.at
           n == call.snd.size
           z == PageSize(n)
<1>1. at \in Nat /\ n \in Nat \ {0} /\ IsDir(call.dst) /\ Width \in Nat \ {0}
  BY WalkerAssumption DEF UnmapCall
<1>2. z \in {0, 1} /\ (z = 1 <=> n >= Width)
  BY <1>1 DEF PageSize
<1>3. n \div page_size(z) \in Nat /\ n \div page_size(z) >= 1
      /\ at + (n \div page_size(z)) * page_size(z) = UnmapEnd
  <2>1. CASE z = 1
    <3>1. PICK k \in Nat : n = k * Width
      BY <2>1, <1>1, <1>2, Multiple DEF UnmapCall
    <3>2. n \div Width = k
      BY <3>1, Aligned
    <3>3. k # 0
      BY <3>1, <1>1
    <3> QED BY <3>1, <3>2, <3>3, <2>1 DEF page_size, UnmapEnd
  <2>2. CASE z = 0
    <3>1. n \div 1 = n
      BY <1>1
    <3> QED BY <3>1, <2>2, <1>1 DEF page_size, UnmapEnd
  <2> QED BY <2>1, <2>2, <1>2
<1>4. l = [running |-> TRUE, pgsize |-> z, size |-> 1, num |-> n \div page_size(z),
           vaddr |-> at, pg |-> <<1, SlotOf(at)>>,
           r_pg |-> <<0, 0>>, r_num |-> 0, done |-> {}]
  BY DEF UnmapInit, pgent, SlotOf
<1>5. SlotOf(at) \in Nat
  BY <1>1, Split DEF SlotOf
<1>6. l \in UnmapLocals
  BY <1>1, <1>2, <1>3, <1>4, <1>5 DEF UnmapLocals
<1>7. Reached(call.dst, {}, at) /\ Ahead(call.dst, at)
  <2>1. \A a \in Unmapped : a \in Nat /\ ~(a < at)
    BY <1>1 DEF Unmapped, Fpage
  <2>2. {} = {a \in Treated : a < at}
    BY <2>1 DEF Treated
  <2>3. ASSUME NEW a \in Addrs
        PROVE  lookup(call.dst, a) = IF a < at THEN Left(a) ELSE lookup(call.dst, a)
    BY <2>1, LeftOutside
  <2> QED BY <2>2, <2>3 DEF Reached, Ahead
<1>8. AtPart(l, call.dst) \/ AtEntry(l)
  <2>1. CASE z = 1
    <3>1. (at % Width) = 0
      BY <2>1, <1>2 DEF UnmapCall, Divides
    <3> QED BY <2>1, <3>1, <1>3, <1>4 DEF AtEntry, page_size
  <2>2. CASE z = 0
    <3>1. n \div page_size(z) = n
      BY <2>2, <1>1 DEF page_size
    <3> QED BY <2>2, <3>1, <1>4 DEF AtPart
  <2> QED BY <2>1, <2>2, <1>2
<1> HIDE DEF z
<1>9. Walking(l, call.dst)
  BY <1>1, <1>3, <1>4, <1>7, <1>8 DEF Walking
<1> QED BY <1>1, <1>4, <1>6, <1>9 DEF UnmapInv, z

\* A break leaves nothing undone.
LEMMA UnmapBreaks ==
  ASSUME UnmapCall, UnmapInv(l, dst), UnmapBreak
  PROVE  UnmapInv(l', dst')
<1>1. l.running /\ l \in UnmapLocals /\ Walking(l, dst) /\ l' = [l EXCEPT !.running = FALSE] /\ dst' = dst
  BY DEF UnmapBreak, UnmapInv
<1>2. /\ l' \in UnmapLocals /\ l'.pgsize = l.pgsize /\ l'.done = l.done /\ ~l'.running
      /\ l.vaddr \in Nat
  BY <1>1 DEF UnmapLocals
<1>3. /\ l.done = {a \in Treated : a < l.vaddr}
      /\ \A a \in Addrs : lookup(dst, a) = IF a < l.vaddr THEN Left(a) ELSE lookup(call.dst, a)
  BY <1>1 DEF Walking, Reached
<1>4. CASE l.vaddr \notin Addrs
  <2>1. \A a \in Addrs : a < l.vaddr
    BY <1>2, <1>4, WalkerAssumption DEF Addrs
  <2>2. \A a \in Treated : a < l.vaddr
    BY <2>1 DEF Treated
  <2>3. Walked(l', dst')
    BY <1>1, <1>2, <1>3, <2>1, <2>2 DEF Walked
  <2> QED BY <2>3, <1>1, <1>2 DEF UnmapInv
<1>5. CASE l.vaddr \in Addrs
  <2>1. /\ TooBig /\ (~is_valid(dst, l.pg) \/ (~is_subtree(dst, l.pg) /\ Flushes))
    BY <1>5 DEF UnmapBreak
  <2>2. AtPart(l, dst)
    BY <2>1, <1>1 DEF TooBig, Walking, AtEntry, InPart, InEntry, InTable
  <2>3. l.pgsize = 0 /\ call.snd.size < Width
    BY <2>2, WalkerAssumption DEF UnmapInv, AtPart, PageSize, UnmapCall
  <2> DEFINE e == call.dst.dir[SlotOf(l.vaddr)]
  <2>4. l.vaddr = call.snd.at /\ Entry(dst, l.pg) = e
    BY <2>2, <1>5 DEF AtPart, Entry
  <2>5. ASSUME NEW a \in Addrs PROVE Left(a) = lookup(call.dst, a) /\ a \notin Treated
    <3>1. CASE a \notin Unmapped
      BY <3>1, LeftOutside
    <3>2. CASE a \in Unmapped
      <4>1. call.dst.dir[SlotOf(a)] = e /\ IsDir(call.dst)
        BY <3>2, <2>3, <2>4, PartSlot DEF UnmapCall
      <4>2. CASE e.kind = "none"
        <5>1. lookup(call.dst, a) = None
          BY <4>1, <4>2, LookupIs
        <5> QED BY <5>1, <3>2, LeftIs, EntryKinds
      <4>3. CASE e.kind # "none"
        <5>1. Flushes /\ e.kind # "tree"
          BY <4>3, <2>1, <2>4 DEF is_valid, is_subtree
        <5>2. e.kind = "page"
          BY <4>1, <4>3, <5>1, LookupIs, EntryKinds
        <5>3. Large(call.dst, a) /\ a \notin Kernel
          BY <5>2, <4>1, LargeIs DEF UnmapCall
        <5>4. a \notin Treated
          BY <5>1, <5>3, <2>3 DEF Treated
        <5> QED BY <5>3, <5>4 DEF Left, is_mappable
      <4> QED BY <4>2, <4>3
    <3> QED BY <3>1, <3>2
  <2>6. Treated = {}
    BY <2>5 DEF Treated
  <2>7. Walked(l', dst')
    BY <1>1, <1>2, <1>3, <2>5, <2>6 DEF Walked
  <2> QED BY <2>7, <1>1, <1>2 DEF UnmapInv
<1> QED BY <1>4, <1>5

\* An entry of a page table has no page table.
LEMMA NoDeeper ==
  ASSUME NEW t, IsDir(t), NEW v \in Addrs
  PROVE  ~is_subtree(t, <<0, v>>) /\ Entry(t, <<0, v>>) = t.tab[v]
<1>1. Entry(t, <<0, v>>) = t.tab[v] /\ t.tab[v] \in Entries
  BY DEF Entry, IsDir
<1> QED BY <1>1, EntryKinds DEF is_subtree

\* Going down keeps the place in the fpage.
LEMMA UnmapGoesDown ==
  ASSUME UnmapCall, UnmapInv(l, dst), UnmapDown
  PROVE  UnmapInv(l', dst')
<1> DEFINE v == l.vaddr
           s == SlotOf(v)
<1>1. /\ l.running /\ l \in UnmapLocals /\ Walking(l, dst) /\ v \in Addrs /\ IsDir(dst)
      /\ is_subtree(dst, l.pg) /\ dst' = dst /\ l.pgsize = PageSize(call.snd.size)
  BY DEF UnmapDown, Unmapping, UnmapInv
<1>2. v \in Nat /\ s \in Nat /\ s \in 0 .. Slots - 1 /\ (v % Width) \in Nat /\ v = s * Width + (v % Width)
  <2>1. v \in Nat
    BY <1>1, AddrNat
  <2>2. s \in 0 .. Slots - 1
    BY <1>1, LookupIs
  <2> QED BY <2>1, <2>2, Split DEF SlotOf
<1>3. l.size = 1 /\ l.pg = <<1, s>> /\ (AtPart(l, dst) \/ AtEntry(l))
  <2>1. ~InTable(l, dst)
    BY <1>1, NoDeeper DEF InTable
  <2> QED BY <2>1, <1>1 DEF Walking, InPart, InEntry, AtPart, AtEntry
<1>4. dst.dir[s].kind = "tree"
  BY <1>1, <1>3 DEF is_subtree, Entry
<1>5. CASE AtPart(l, dst)
  <2>1. l' = [l EXCEPT !.size = 0, !.pg = <<0, v>>]
    <3>1. TooBig
      BY <1>5 DEF AtPart, TooBig
    <3>2. next(subtree(l.pg), v % Width) = <<0, s * Width + (v % Width)>>
      BY <1>3 DEF next, subtree
    <3> QED BY <3>1, <3>2, <1>2 DEF UnmapDown
  <2>2. /\ l' \in UnmapLocals /\ l'.vaddr = v /\ l'.num = l.num /\ l'.pgsize = l.pgsize
        /\ l'.done = l.done /\ l'.running = l.running /\ l'.size = 0 /\ l'.pg = <<0, v>>
    BY <2>1, <1>1, <1>2 DEF UnmapLocals
  <2>3. call.dst.dir[s].kind = "tree" /\ v + l.num = UnmapEnd /\ l.pgsize = 0
    BY <1>1, <1>4, <1>5 DEF AtPart, UnmapEnd
  <2>4. InPart(l', dst')
    BY <2>2, <2>3, <1>1, <1>4 DEF InPart, InTable
  <2>5. Walking(l', dst')
    BY <2>2, <2>4, <1>1 DEF Walking
  <2> QED BY <2>2, <2>5, <1>1 DEF UnmapInv
<1>6. CASE AtEntry(l)
  <2>1. v = s * Width /\ (v % Width) = 0 /\ l.pgsize = 1 /\ v + l.num * Width = UnmapEnd
    BY <1>2, <1>6, UnderEntry DEF AtEntry
  <2>2. l' = [l EXCEPT !.size = 0, !.r_pg = l.pg, !.r_num = l.num - 1, !.pg = <<0, v>>, !.num = Width]
    <3>1. ~TooBig
      BY <1>3, <2>1 DEF TooBig
    <3>2. subtree(l.pg) = <<0, v>>
      BY <1>3, <2>1 DEF subtree
    <3> QED BY <3>1, <3>2 DEF UnmapDown
  <2>3. l.num \in Nat /\ l.num >= 1 /\ Width \in Nat \ {0}
    BY <1>1, WalkerAssumption DEF Walking, UnmapLocals
  <2>4. /\ l' \in UnmapLocals /\ l'.vaddr = v /\ l'.num = Width /\ l'.pgsize = l.pgsize
        /\ l'.done = l.done /\ l'.running = l.running /\ l'.size = 0 /\ l'.pg = <<0, v>>
        /\ l'.r_pg = <<1, s>> /\ l'.r_num = l.num - 1
    <3>1. l.num - 1 \in Nat /\ <<0, v>> \in {0, 1} \X Nat /\ <<1, s>> \in {0, 1} \X Nat
      BY <2>3, <1>2
    <3> HIDE DEF s
    <3> QED BY <2>2, <2>3, <3>1, <1>1, <1>3 DEF UnmapLocals
  <2>5. call.dst.dir[s].kind = "tree"
    BY <1>1, <1>2, <1>4, <2>1 DEF Walking, Ahead
  <2>6. (s + 1) * Width + (l.num - 1) * Width = UnmapEnd
    <3>1. (s + 1) * Width = s * Width + 1 * Width
      BY <1>2, <2>3, Distributive
    <3>2. (l.num - 1) * Width = l.num * Width - 1 * Width /\ l.num * Width \in Nat
      BY <2>3, Distributive
    <3> QED BY <3>1, <3>2, <2>1, <2>3, <1>2
  <2>7. call.snd.at <= s * Width
    BY <1>1, <2>1 DEF Walking
  <2>8. InEntry(l', dst')
    BY <2>1, <2>3, <2>4, <2>5, <2>6, <2>7, <1>1, <1>4 DEF InEntry, InTable
  <2>9. Walking(l', dst')
    BY <2>3, <2>4, <2>8, <1>1 DEF Walking
  <2> QED BY <2>4, <2>9, <1>1 DEF UnmapInv
<1> QED BY <1>3, <1>5, <1>6

\* The pages of the fpage that a step treats.
LEMMA InFpage ==
  ASSUME UnmapCall, NEW v \in Nat, call.snd.at <= v, NEW m \in Nat, v + m <= UnmapEnd
  PROVE  v .. v + m - 1 \subseteq Unmapped
BY DEF UnmapCall, UnmapEnd, Unmapped, Fpage

\* Where the fpage ends, everything has been done.
LEMMA AtTheEnd ==
  ASSUME UnmapCall, NEW t, NEW done, Reached(t, done, UnmapEnd), NEW x, x.done = done
  PROVE  Walked(x, t)
<1>1. UnmapEnd \in Nat /\ \A a \in Nat : a \in Unmapped => a < UnmapEnd
  BY DEF UnmapEnd, Unmapped, Fpage, UnmapCall
<1>2. \A a \in Treated : a < UnmapEnd
  BY <1>1, AddrNat DEF Treated
<1>3. x.done = Treated
  BY <1>2 DEF Reached
<1>4. ASSUME NEW a \in Addrs PROVE lookup(t, a) = Left(a)
  <2>1. CASE a < UnmapEnd
    BY <2>1 DEF Reached
  <2>2. CASE ~(a < UnmapEnd)
    BY <2>2, <1>1, AddrNat, LeftOutside DEF Reached
  <2> QED BY <2>1, <2>2
<1> QED BY <1>3, <1>4 DEF Walked

\* Next_entry: the next entry of the table, or of the one above where this one ends.
LEMMA NextIs ==
  ASSUME l \in UnmapLocals, l.num >= 1, NEW done2 \in SUBSET Nat, NEW t,
         Next_entry([l EXCEPT !.done = done2], t)
  PROVE  /\ l' \in UnmapLocals /\ l'.pgsize = l.pgsize /\ l'.done = done2
         /\ l'.vaddr = l.vaddr + page_size(l.size) /\ (l'.running <=> l'.num # 0)
         /\ ~(l.num = 1 /\ l.size < l.pgsize) =>
              /\ l'.pg = <<l.pg[1], l.pg[2] + 1>> /\ l'.num = l.num - 1 /\ l'.size = l.size
              /\ l'.r_pg = l.r_pg /\ l'.r_num = l.r_num /\ dst' = t
         /\ l.num = 1 /\ l.size < l.pgsize =>
              /\ l'.pg = <<l.r_pg[1], l.r_pg[2] + 1>> /\ l'.num = l.r_num /\ l'.size = 1
              /\ dst' = t \/ (Flushes /\ dst' = remove_subtree(t, l.r_pg))
<1> DEFINE x  == [l EXCEPT !.done = done2]
           y  == [x EXCEPT !.pg = next(@, 1), !.vaddr = @ + page_size(x.size), !.num = @ - 1]
           up == [y EXCEPT !.pg = next(y.r_pg, 1), !.num = y.r_num, !.size = 1]
           z  == IF AtEnd(y) THEN up ELSE y
<1>0. page_size(l.size) \in Nat /\ Width \in Nat
  BY WalkerAssumption DEF page_size
<1>1. /\ l' = [z EXCEPT !.running = z.num # 0]
      /\ \/ dst' = t /\ ~(AtEnd(y) /\ Flushes /\ call.unmap_all)
         \/ dst' = remove_subtree(t, y.r_pg) /\ AtEnd(y) /\ Flushes
  BY DEF Next_entry
<1>2. /\ x \in UnmapLocals /\ x.pg = l.pg /\ x.vaddr = l.vaddr /\ x.num = l.num /\ x.size = l.size
      /\ x.pgsize = l.pgsize /\ x.r_pg = l.r_pg /\ x.r_num = l.r_num /\ x.done = done2
  BY DEF UnmapLocals
<1> HIDE DEF x
<1>3. next(x.pg, 1) = <<l.pg[1], l.pg[2] + 1>> /\ next(x.pg, 1) \in {0, 1} \X Nat
  BY <1>2 DEF next, UnmapLocals
<1>4. next(l.r_pg, 1) = <<l.r_pg[1], l.r_pg[2] + 1>> /\ next(l.r_pg, 1) \in {0, 1} \X Nat
  BY DEF next, UnmapLocals
<1>5. /\ y \in UnmapLocals /\ y.pg = <<l.pg[1], l.pg[2] + 1>> /\ y.vaddr = l.vaddr + page_size(l.size)
      /\ y.num = l.num - 1 /\ y.size = l.size
      /\ y.pgsize = l.pgsize /\ y.r_pg = l.r_pg /\ y.r_num = l.r_num /\ y.done = done2
  <2>1. x.vaddr + page_size(x.size) \in Nat /\ x.num - 1 \in Nat
    BY <1>0, <1>2 DEF UnmapLocals
  <2>2. PICK p \in {0, 1} \X Nat : p = next(x.pg, 1)
    BY <1>3
  <2>3. PICK i \in Nat : i = x.vaddr + page_size(x.size)
    BY <2>1
  <2>4. PICK j \in Nat : j = x.num - 1
    BY <2>1
  <2>5. y = [x EXCEPT !.pg = p, !.vaddr = i, !.num = j]
    BY <2>2, <2>3, <2>4
  <2> HIDE DEF y
  <2>6. /\ y \in UnmapLocals /\ y.pg = p /\ y.vaddr = i /\ y.num = j /\ y.size = x.size
        /\ y.pgsize = x.pgsize /\ y.r_pg = x.r_pg /\ y.r_num = x.r_num /\ y.done = x.done
    BY <1>2, <2>5 DEF UnmapLocals
  <2> QED BY <1>2, <1>3, <2>2, <2>3, <2>4, <2>6
<1> HIDE DEF y
<1>6. /\ up \in UnmapLocals /\ up.pg = <<l.r_pg[1], l.r_pg[2] + 1>>
      /\ up.vaddr = l.vaddr + page_size(l.size) /\ up.num = l.r_num /\ up.size = 1
      /\ up.pgsize = l.pgsize /\ up.done = done2
  BY <1>4, <1>5 DEF UnmapLocals
<1> HIDE DEF up
<1>7. AtEnd(y) <=> l.num = 1 /\ l.size < l.pgsize
  BY <1>5 DEF AtEnd, UnmapLocals
<1>8. z \in UnmapLocals
  BY <1>5, <1>6
<1>9. /\ l' \in UnmapLocals /\ (l'.running <=> l'.num # 0) /\ l'.pg = z.pg /\ l'.num = z.num
      /\ l'.size = z.size /\ l'.vaddr = z.vaddr /\ l'.pgsize = z.pgsize /\ l'.done = z.done
      /\ l'.r_pg = z.r_pg /\ l'.r_num = z.r_num
  <2> HIDE DEF z
  <2> QED BY <1>1, <1>8 DEF UnmapLocals
<1>10. CASE AtEnd(y)
  BY <1>1, <1>5, <1>6, <1>7, <1>9, <1>10
<1>11. CASE ~AtEnd(y)
  BY <1>1, <1>5, <1>7, <1>9, <1>11
<1> QED BY <1>10, <1>11

\* The entry is treated, and the walk goes on, up or to the end.
LEMMA UnmapTreats ==
  ASSUME UnmapCall, UnmapInv(l, dst), UnmapEntry
  PROVE  UnmapInv(l', dst')
<1> DEFINE v == l.vaddr
           s == SlotOf(v)
<1>1. /\ l.running /\ l \in UnmapLocals /\ Walking(l, dst) /\ v \in Addrs /\ IsDir(dst)
      /\ ~is_subtree(dst, l.pg) /\ l.pgsize = PageSize(call.snd.size)
      /\ TooBig => is_valid(dst, l.pg) /\ ~Flushes
  BY DEF UnmapEntry, Unmapping, UnmapInv
<1>2. v \in Nat /\ s \in Nat /\ s \in 0 .. Slots - 1 /\ (v % Width) \in Nat /\ v = s * Width + (v % Width)
  <2>1. v \in Nat
    BY <1>1, AddrNat
  <2>2. s \in 0 .. Slots - 1
    BY <1>1, LookupIs
  <2> QED BY <2>1, <2>2, Split DEF SlotOf
<1>3. /\ l.num \in Nat /\ l.num >= 1 /\ call.snd.at <= v /\ Reached(dst, l.done, v) /\ Ahead(dst, v)
      /\ call.snd.at \in Nat /\ call.snd.size \in Nat /\ UnmapEnd \in Nat
      /\ Width \in Nat \ {0}
  BY <1>1, WalkerAssumption DEF UnmapLocals, Walking, UnmapCall, UnmapEnd
<1>4. Covered(l) \subseteq Nat
  BY <1>1, <1>2, WalkerAssumption DEF Covered, page_size, UnmapLocals
<1> DEFINE ok    == is_valid(dst, l.pg) /\ is_mappable(v)
           done2 == IF ok THEN l.done \cup Covered(l) ELSE l.done
           t     == IF ok THEN Set(dst, l.pg, Revoked(Entry(dst, l.pg)))
                    ELSE IF is_valid(dst, l.pg) /\ call.unmap_all THEN Set(dst, l.pg, None) ELSE dst
<1>5. Next_entry([l EXCEPT !.done = done2], t) /\ done2 \in SUBSET Nat
  <2>1. l.done \in SUBSET Nat /\ l = [l EXCEPT !.done = l.done]
    BY <1>1 DEF UnmapLocals
  <2>2. CASE ok
    BY <2>1, <2>2, <1>4 DEF UnmapEntry
  <2>3. CASE ~ok
    <3>1. Next_entry(l, t)
      BY <2>3 DEF UnmapEntry
    <3>2. done2 = l.done
      BY <2>3
    <3> QED BY <3>1, <3>2, <2>1
  <2> QED BY <2>2, <2>3
<1> HIDE DEF t, done2
<1>6. /\ l' \in UnmapLocals /\ l'.pgsize = l.pgsize /\ l'.done = done2
      /\ l'.vaddr = v + page_size(l.size) /\ (l'.running <=> l'.num # 0)
      /\ ~(l.num = 1 /\ l.size < l.pgsize) =>
           /\ l'.pg = <<l.pg[1], l.pg[2] + 1>> /\ l'.num = l.num - 1 /\ l'.size = l.size
           /\ l'.r_pg = l.r_pg /\ l'.r_num = l.r_num /\ dst' = t
      /\ l.num = 1 /\ l.size < l.pgsize =>
           /\ l'.pg = <<l.r_pg[1], l.r_pg[2] + 1>> /\ l'.num = l.r_num /\ l'.size = 1
           /\ dst' = t \/ (Flushes /\ dst' = remove_subtree(t, l.r_pg))
  BY <1>1, <1>3, <1>5, NextIs
<1>7. CASE AtPart(l, dst)
  <2> DEFINE e == call.dst.dir[s]
  <2>1. l.size = 1 /\ l.pgsize = 0 /\ l.pg = <<1, s>> /\ dst.dir[s] = e /\ v = call.snd.at
        /\ l.num = call.snd.size
    BY <1>1, <1>7 DEF AtPart
  <2>2. Entry(dst, l.pg) = e /\ is_valid(dst, l.pg) /\ ~Flushes
    BY <2>1, <1>1 DEF Entry, TooBig
  <2>3. e.kind = "page" /\ e \in Entries
    <3>1. e \in Entries \cup {Tree} /\ e.kind \notin {"none", "tree"}
      BY <2>1, <2>2, <1>1, LookupIs DEF is_valid, is_subtree
    <3> QED BY <3>1, EntryKinds
  <2>4. v \notin Kernel /\ Large(call.dst, v) /\ v \in Unmapped /\ call.snd.size < Width
    <3>1. v \in Unmapped
      BY <2>1, <1>3 DEF Unmapped, Fpage, UnmapCall
    <3>2. call.snd.size < Width
      BY <2>1, <1>1, <1>3 DEF PageSize
    <3> QED BY <3>1, <3>2, <2>3, <1>1, LargeIs DEF UnmapCall
  <2>5. ~call.flush /\ call.snd.size = 1
    BY <2>2, <2>4, <1>1 DEF UnmapCall, Flushes
  <2>6. \A f : Revoked(f) = f
    BY <2>5 DEF Revoked, Flushes, UnmapCall
  <2>7. t = dst /\ done2 = l.done \cup {v}
    <3>1. ok
      BY <2>2, <2>4 DEF is_mappable
    <3>2. Set(dst, l.pg, e) = dst
      BY <2>1, <1>1, <1>2 DEF Set, IsDir
    <3>3. Covered(l) = {v}
      BY <2>1, <1>2 DEF Covered, page_size
    <3> QED BY <3>1, <3>2, <3>3, <2>2, <2>6 DEF t, done2
  <2>8. l'.num = 0 /\ ~l'.running /\ dst' = dst /\ l'.done = done2
    BY <2>1, <2>5, <2>7, <1>6
  <2>9. v \in Treated /\ Left(v) = lookup(call.dst, v)
    <3>1. lookup(call.dst, v).kind = "page"
      <4>1. IsDir(call.dst) /\ e.frame \in Nat /\ e.w \in BOOLEAN /\ (v % Width) \in Nat
        BY <2>3, <1>2, EntryKinds DEF UnmapCall
      <4>2. lookup(call.dst, v) = Page(e.frame + (v % Width), e.w)
        BY <4>1, <2>3, <1>1, LookupIs
      <4>3. e.frame + (v % Width) \in Nat
        BY <4>1
      <4> QED BY <4>1, <4>2, <4>3, EntryKinds
    <3> QED BY <3>1, <2>2, <2>4, <2>6, <1>1, LeftIs
  <2>10. Reached(dst', done2, UnmapEnd)
    <3>1. UnmapEnd = v + 1
      BY <2>1, <2>5 DEF UnmapEnd
    <3>2. ASSUME NEW a \in Addrs
          PROVE  lookup(dst, a) = IF a < v + 1 THEN Left(a) ELSE lookup(call.dst, a)
      <4>1. a \in Nat /\ lookup(dst, a) = IF a < v THEN Left(a) ELSE lookup(call.dst, a)
        BY <1>3, AddrNat DEF Reached
      <4>2. a < v + 1 <=> a < v \/ a = v
        BY <4>1, <1>2
      <4> QED BY <4>1, <4>2, <2>9, <1>2
    <3>3. done2 = {a \in Treated : a < v + 1}
      <4>1. \A a \in Treated : a \in Nat
        BY AddrNat DEF Treated
      <4>2. \A a : a \in done2 <=> a \in Treated /\ a < v + 1
        BY <4>1, <2>7, <2>9, <1>2, <1>3 DEF Reached
      <4> QED BY <4>2
    <3> QED BY <3>1, <3>2, <3>3, <2>8 DEF Reached
  <2>11. Walked(l', dst')
    BY <2>8, <2>10, AtTheEnd
  <2> QED BY <2>8, <2>11, <1>1, <1>6 DEF UnmapInv
<1>8. CASE AtEntry(l)
  <2>1. l.size = 1 /\ l.pgsize = 1 /\ l.pg = <<1, s>> /\ (v % Width) = 0 /\ v + l.num * Width = UnmapEnd
    BY <1>8 DEF AtEntry
  <2>2. PICK m \in Nat : m = (l.num - 1) * Width /\ v + Width + m = UnmapEnd
    <3>1. (l.num - 1) * Width = l.num * Width - 1 * Width /\ l.num * Width \in Nat
      BY <1>3, Distributive
    <3>2. (l.num - 1) * Width \in Nat
      BY <1>3
    <3> QED BY <3>1, <3>2, <2>1, <1>2, <1>3
  <2>3. v .. v + Width - 1 \subseteq Unmapped
    <3>1. v + Width <= UnmapEnd
      BY <2>2, <1>2, <1>3
    <3> QED BY <3>1, <1>2, <1>3, InFpage
  <2>4. call.snd.size >= Width
    BY <2>1, <1>1 DEF PageSize
  <2>5. Covered(l) = v .. v + Width - 1
    BY <2>1 DEF Covered, page_size
  <2>6. dst.dir[s].kind # "tree"
    BY <2>1, <1>1 DEF is_subtree, Entry
  <2>7. IsDir(t) /\ Reached(t, done2, v + Width) /\ Ahead(t, v + Width)
    BY <2>1, <2>3, <2>4, <2>5, <2>6, <1>1, <1>3, EntryStep DEF t, done2
  <2>8. /\ l'.pg = <<1, s + 1>> /\ l'.num = l.num - 1 /\ l'.size = 1 /\ dst' = t /\ l'.vaddr = v + Width
        /\ l'.pgsize = 1
    BY <2>1, <1>6 DEF page_size
  <2>9. SlotOf(v + Width) = s + 1 /\ (v + Width) % Width = 0
    BY <2>1, <1>2, UnderEntry
  <2>10. CASE l.num = 1
    <3>1. v + Width = UnmapEnd /\ ~l'.running
      BY <2>2, <2>8, <2>10, <1>2, <1>3, <1>6
    <3>2. Walked(l', dst')
      BY <3>1, <2>7, <2>8, <1>6, AtTheEnd
    <3> QED BY <3>1, <3>2, <2>7, <2>8, <1>1, <1>6 DEF UnmapInv
  <2>11. CASE l.num # 1
    <3>1. l'.num \in Nat /\ l'.num >= 1 /\ l'.running /\ call.snd.at <= l'.vaddr
      BY <2>8, <2>11, <1>2, <1>3, <1>6
    <3>2. AtEntry(l')
      BY <2>2, <2>8, <2>9 DEF AtEntry
    <3>3. Walking(l', dst')
      BY <3>1, <3>2, <2>7, <2>8, <1>6 DEF Walking
    <3> QED BY <3>1, <3>3, <2>7, <2>8, <1>1, <1>6 DEF UnmapInv
  <2> QED BY <2>10, <2>11
<1>11. ASSUME InTable(l, dst), v \in Unmapped
       PROVE  IsDir(t) /\ Reached(t, done2, v + 1) /\ Ahead(t, v + 1) /\ t.dir = dst.dir
  <2>1. l.size = 0 /\ l.pg = <<0, v>> /\ dst.dir[s].kind = "tree" /\ call.dst.dir[s].kind = "tree"
    BY <1>11 DEF InTable
  <2>2. Covered(l) = {v}
    BY <2>1, <1>1, <1>2 DEF Covered, page_size, UnmapLocals
  <2>3. IF is_valid(dst, <<0, v>>) /\ is_mappable(v)
        THEN t = Set(dst, <<0, v>>, Revoked(Entry(dst, <<0, v>>))) /\ done2 = l.done \cup {v}
        ELSE /\ t = IF is_valid(dst, <<0, v>>) /\ call.unmap_all THEN Set(dst, <<0, v>>, None) ELSE dst
             /\ done2 = l.done
    BY <2>1, <2>2 DEF t, done2
  <2> QED BY <2>1, <2>3, <1>1, <1>3, <1>11, TableStep
<1>9. CASE InPart(l, dst)
  <2>1. InTable(l, dst) /\ l.pgsize = 0 /\ l.size = 0 /\ l.pg = <<0, v>> /\ v + l.num = UnmapEnd
        /\ call.dst.dir[s].kind = "tree" /\ dst.dir[s].kind = "tree" /\ call.snd.size < Width
    BY <1>1, <1>3, <1>9 DEF InPart, InTable, PageSize
  <2>2. v \in Unmapped
    BY <2>1, <1>2, <1>3 DEF Unmapped, UnmapEnd, Fpage
  <2>3. IsDir(t) /\ Reached(t, done2, v + 1) /\ Ahead(t, v + 1) /\ t.dir = dst.dir
    BY <1>11, <2>1, <2>2
  <2>4. /\ l'.pg = <<0, v + 1>> /\ l'.num = l.num - 1 /\ l'.size = 0 /\ dst' = t /\ l'.vaddr = v + 1
        /\ l'.pgsize = 0
    BY <2>1, <1>6 DEF page_size
  <2>5. CASE l.num = 1
    <3>1. v + 1 = UnmapEnd /\ ~l'.running
      BY <2>1, <2>4, <2>5, <1>6
    <3>2. Walked(l', dst')
      BY <3>1, <2>3, <2>4, <1>6, AtTheEnd
    <3> QED BY <3>1, <3>2, <2>3, <2>4, <1>1, <1>6 DEF UnmapInv
  <2>6. CASE l.num # 1
    <3>1. l'.num \in Nat /\ l'.num >= 1 /\ l'.running /\ call.snd.at <= l'.vaddr
      BY <2>4, <2>6, <1>2, <1>3, <1>6
    <3>2. v + 1 \in Unmapped
      BY <3>1, <2>1, <2>4, <1>2, <1>3 DEF Unmapped, UnmapEnd, Fpage
    <3>3. SlotOf(v + 1) = s /\ v + 1 \in Nat
      BY <3>2, <2>1, <2>2, PartSlot
    <3>4. v + 1 \in Addrs
      BY <3>3, <1>2, InDirectory DEF SlotOf
    <3>5. v + 1 + l'.num = UnmapEnd
      BY <2>1, <2>4, <1>2, <1>3
    <3>6. InPart(l', dst')
      BY <2>1, <2>3, <2>4, <3>3, <3>4, <3>5 DEF InPart, InTable
    <3>7. Walking(l', dst')
      BY <3>1, <3>6, <2>3, <2>4, <1>6 DEF Walking
    <3> QED BY <3>1, <3>7, <2>3, <2>4, <1>1, <1>6 DEF UnmapInv
  <2> QED BY <2>5, <2>6
<1>10. CASE InEntry(l, dst)
  <2>1. /\ InTable(l, dst) /\ l.pgsize = 1 /\ l.size = 0 /\ l.pg = <<0, v>> /\ l.num = Width - (v % Width)
        /\ call.dst.dir[s].kind = "tree" /\ dst.dir[s].kind = "tree" /\ call.snd.size >= Width
        /\ l.r_pg = <<1, s>> /\ call.snd.at <= s * Width /\ (s + 1) * Width + l.r_num * Width = UnmapEnd
    BY <1>1, <1>3, <1>10 DEF InEntry, InTable, PageSize
  <2>2. /\ s * Width \in Nat /\ (s + 1) * Width = s * Width + Width
        /\ l.r_num \in Nat /\ l.r_num * Width \in Nat /\ (v % Width) < Width
    <3>1. (s + 1) * Width = s * Width + 1 * Width
      BY <1>2, <1>3, Distributive
    <3>2. l.r_num \in Nat
      BY <1>1 DEF UnmapLocals
    <3>3. (v % Width) \in 0 .. Width - 1
      BY <1>2, Split
    <3>4. s * Width \in Nat /\ l.r_num * Width \in Nat
      BY <3>2, <1>2, Aligned
    <3> QED BY <3>1, <3>2, <3>3, <3>4, <1>3
  <2>3. s * Width .. (s + 1) * Width - 1 \subseteq Unmapped
    <3>1. s * Width + Width <= UnmapEnd
      BY <2>1, <2>2, <1>3
    <3>2. PICK b \in Nat : b = s * Width
      BY <2>2
    <3>3. (s + 1) * Width = b + Width
      BY <2>2, <3>2
    <3>4. b .. b + Width - 1 \subseteq Unmapped
      BY <3>1, <3>2, <2>1, <1>3, InFpage
    <3>5. b .. b + Width - 1 = b .. (b + Width) - 1
      BY <1>3
    <3> QED BY <3>2, <3>3, <3>4, <3>5, Zenon
  <2>4. v \in Unmapped
    BY <2>2, <2>3, <1>2, <1>3
  <2>5. IsDir(t) /\ Reached(t, done2, v + 1) /\ Ahead(t, v + 1) /\ t.dir = dst.dir
    BY <1>11, <2>1, <2>4
  <2>6. l'.vaddr = v + 1 /\ l'.pgsize = 1
    BY <2>1, <1>6 DEF page_size
  <2>7. CASE l.num = 1
    <3>1. (v % Width) = Width - 1
      BY <2>1, <2>7, <1>2, <1>3
    <3>2. v + 1 = (s + 1) * Width /\ SlotOf(v + 1) = s + 1 /\ (v + 1) % Width = 0
      BY <3>1, <1>2, Successor DEF SlotOf
    <3>3. /\ l'.pg = <<1, s + 1>> /\ l'.num = l.r_num /\ l'.size = 1
          /\ dst' = t \/ (Flushes /\ dst' = remove_subtree(t, <<1, s>>))
      BY <2>1, <2>7, <1>6
    <3>4. IsDir(dst') /\ Reached(dst', done2, v + 1) /\ Ahead(dst', v + 1)
      <4>1. CASE dst' = t
        BY <4>1, <2>5
      <4>2. CASE Flushes /\ dst' = remove_subtree(t, <<1, s>>)
        BY <4>2, <2>1, <2>3, <2>5, <3>2, <1>2, TableRemoved
      <4> QED BY <3>3, <4>1, <4>2
    <3>5. v + 1 + l'.num * Width = UnmapEnd
      BY <3>2, <3>3, <2>1
    <3>6. CASE l'.num = 0
      <4>1. v + 1 = UnmapEnd /\ ~l'.running
        BY <3>5, <3>6, <1>2, <1>3, <1>6
      <4>2. Walked(l', dst')
        BY <4>1, <3>4, <1>6, AtTheEnd
      <4> QED BY <4>1, <4>2, <3>4, <1>1, <1>6 DEF UnmapInv
    <3>7. CASE l'.num # 0
      <4>1. l'.num \in Nat /\ l'.num >= 1 /\ l'.running /\ call.snd.at <= l'.vaddr
        BY <3>3, <3>7, <2>2, <2>6, <1>2, <1>3, <1>6
      <4>2. AtEntry(l')
        BY <2>6, <3>2, <3>3, <3>5 DEF AtEntry
      <4>3. Walking(l', dst')
        BY <4>1, <4>2, <3>4, <2>6, <1>6 DEF Walking
      <4> QED BY <4>1, <4>3, <3>4, <1>1, <1>6 DEF UnmapInv
    <3> QED BY <3>6, <3>7
  <2>8. CASE l.num # 1
    <3>1. (v % Width) < Width - 1
      BY <2>1, <2>2, <2>8, <1>2, <1>3
    <3>2. SlotOf(v + 1) = s /\ (v + 1) % Width = (v % Width) + 1
      BY <3>1, <1>2, Successor DEF SlotOf
    <3>3. /\ l'.pg = <<0, v + 1>> /\ l'.num = l.num - 1 /\ l'.size = 0 /\ dst' = t
          /\ l'.r_pg = <<1, s>> /\ l'.r_num = l.r_num
      BY <2>1, <2>8, <1>6
    <3>4. v + 1 \in Addrs
      BY <3>2, <1>2, InDirectory DEF SlotOf
    <3>5. l'.num \in Nat /\ l'.num >= 1 /\ l'.running /\ call.snd.at <= l'.vaddr
      BY <2>6, <3>3, <2>8, <1>2, <1>3, <1>6
    <3>6. l'.num = Width - ((v + 1) % Width)
      BY <3>2, <3>3, <2>1, <1>2, <1>3
    <3>7. InEntry(l', dst')
      BY <2>1, <2>5, <2>6, <3>2, <3>3, <3>4, <3>6 DEF InEntry, InTable
    <3>8. Walking(l', dst')
      BY <3>5, <3>7, <2>5, <2>6, <3>3, <1>6 DEF Walking
    <3> QED BY <3>5, <3>8, <3>3, <2>5, <1>1, <1>6 DEF UnmapInv
  <2> QED BY <2>7, <2>8
<1> QED BY <1>1, <1>7, <1>8, <1>9, <1>10 DEF Walking

\* The call stays what it is, and with it what has to be done.
LEMMA SameCall ==
  ASSUME call' = call, UnmapInv(l', dst')
  PROVE  UnmapInv(l, dst)'
BY DEF UnmapInv, Walking, Walked, AtPart, AtEntry, InTable, InPart, InEntry, UnmapEnd,
       Reached, Ahead, Treated, Left, Unmapped, Revoked, Flushes

\* What a step keeps: the call is one of the regular ones.
CallInv == IsCall(call) /\ Regular(call)
UnmapWalk == CallInv /\ (call.op = "unmap" => UnmapInv(l, dst))

\* No step changes the call,
LEMMA CallKept ==
  ASSUME CallInv, [Next]_vars
  PROVE  CallInv' /\ call' = call
<1>1. call' = call
  BY DEF Next, vars, KernelArea, SenderInvalid, SenderDown, ReceiverDown, MapEntry,
         UnmapBreak, UnmapDown, UnmapEntry, Done
<1> QED BY <1>1 DEF CallInv

\* and it is regular from the start.
LEMMA CallStarts ==
  ASSUME Init, "all" \notin Env
  PROVE  CallInv
BY CallsAssumption DEF Init, CallInv

(***************************************************************************)
(* unmap_fpage revokes the mappings of exactly the pages of the fpage, for  *)
(* every width of the page tables, every directory and every regular call:  *)
(* when the loop ends, in whatever way, mdb_flush was called for each page  *)
(* mapped there and for no other, and the page tables show the result.      *)
(***************************************************************************)
THEOREM UnmapTouchesItsPages ==
  ASSUME "all" \notin Env
  PROVE  Spec => []UnmapExact
<1>1. Init => UnmapWalk
  <2> SUFFICES ASSUME Init PROVE UnmapWalk
    OBVIOUS
  <2>1. CallInv
    BY CallStarts
  <2>2. ASSUME call.op = "unmap" PROVE UnmapInv(l, dst)
    <3>1. UnmapCall
      BY <2>1, <2>2, RegularUnmap DEF CallInv
    <3>2. UnmapInit(call) /\ dst = call.dst
      BY <2>2 DEF Init
    <3> QED BY <3>1, <3>2, UnmapStarts
  <2> QED BY <2>1, <2>2 DEF UnmapWalk
<1>2. UnmapWalk /\ [Next]_vars => UnmapWalk'
  <2> SUFFICES ASSUME UnmapWalk, [Next]_vars PROVE UnmapWalk'
    OBVIOUS
  <2>1. CallInv' /\ call' = call
    BY CallKept DEF UnmapWalk
  <2>2. ASSUME call.op = "unmap" PROVE UnmapInv(l, dst)'
    <3>1. UnmapCall /\ UnmapInv(l, dst)
      BY <2>2, RegularUnmap DEF UnmapWalk, CallInv
    <3>2. UnmapInv(l', dst')
      <4>1. CASE UnmapBreak
        BY <4>1, <3>1, UnmapBreaks
      <4>2. CASE UnmapDown
        BY <4>2, <3>1, UnmapGoesDown
      <4>3. CASE UnmapEntry
        BY <4>3, <3>1, UnmapTreats
      <4>4. CASE Done \/ UNCHANGED vars
        <5>1. l' = l /\ dst' = dst
          BY <4>4 DEF Done, vars
        <5> QED BY <5>1, <3>1
      <4> QED
        BY <2>2, <4>1, <4>2, <4>3, <4>4
        DEF Next, KernelArea, SenderInvalid, SenderDown, ReceiverDown, MapEntry, Sending, Mapping
    <3> QED BY <3>2, <2>1, SameCall
  <2> QED BY <2>1, <2>2 DEF UnmapWalk
<1>3. UnmapWalk => UnmapExact
  BY DEF UnmapWalk, UnmapExact, UnmapInv, Walked
<1> QED BY <1>1, <1>2, <1>3, PTL DEF Spec
-----------------------------------------------------------------------------
(***************************************************************************)
(* map_fpage.  Below the receiver's address everything is as it has to be,  *)
(* and what is left of the page tables on both sides is what the call found;*)
(* the walks are at corresponding addresses, but where the sender's page    *)
(* table has nothing to map: there the receiver's side waits above.         *)
(***************************************************************************)
MapLocals ==
  [running : BOOLEAN, pgsize : {0, 1}, f_size : {0, 1}, t_size : {0, 1}, f_num : Int, t_num : Int,
   f_addr : Nat, t_addr : Nat, f_off : Nat, fpg : {0, 1} \X Nat, tpg : {0, 1} \X Nat,
   r_fpg : {0, 1} \X Nat, r_fnum : Int, r_tpg : {0, 1} \X Nat, r_tnum : Int]

\* Below an address of the receiver everything is as it has to be, and from there on as it was.
MapReached(s, t, v) ==
  \A a \in Addrs : IF a < v THEN Shows(t, a) /\ Granted(s, a) ELSE lookup(t, a) = lookup(call.dst, a)

\* From a directory entry and an address on, a page table is what the call found.
SameFrom(t, old, d, v) ==
  /\ \A k \in 0 .. Slots - 1 : d <= k => t.dir[k] = old.dir[k]
  /\ \A a \in Addrs : v <= a => t.tab[a] = old.tab[a]

Empty(t) == \A a \in Addrs : t.dir[SlotOf(a)].kind # "tree" => t.tab[a] = None

FromEnd == From(call) + Count(call)
Shift   == To(call) - From(call)

\* In the sender's page table: in a part of it, or in all of it.
InSender(x, s) ==
  /\ x.f_addr \in Addrs /\ x.fpg = <<0, x.f_addr>>
  /\ s.dir[SlotOf(x.f_addr)].kind = "tree" /\ call.src.dir[SlotOf(x.f_addr)].kind = "tree"
InReceiver(x, t) ==
  /\ x.t_addr \in Addrs /\ x.tpg = <<0, x.t_addr>>
  /\ t.dir[SlotOf(x.t_addr)].kind = "tree" /\ call.dst.dir[SlotOf(x.t_addr)].kind # "page"
  /\ SameFrom(t, call.dst, SlotOf(x.t_addr) + 1, x.t_addr)
Rest(x) ==
  /\ x.r_fpg = <<1, SlotOf(x.f_addr) + 1>> /\ x.f_num = Width - (x.f_addr % Width)
  /\ (SlotOf(x.f_addr) + 1) * Width + x.r_fnum * Width = FromEnd

\* Both at directory entries
AtBoth(x, s, t) ==
  /\ x.f_size = 1 /\ x.t_size = 1 /\ x.f_off = 0 /\ x.f_num = x.t_num /\ x.f_num >= 1
  /\ x.t_addr = x.f_addr + Shift /\ From(call) <= x.f_addr
  /\ sigma0 \/ x.fpg = <<1, SlotOf(x.f_addr)>>
  /\ x.tpg = <<1, SlotOf(x.t_addr)>>
  /\ IF x.pgsize = 0 THEN x.f_addr = From(call) /\ x.f_num = Count(call)
     ELSE (x.f_addr % Width) = 0 /\ (x.t_addr % Width) = 0 /\ x.f_addr + x.f_num * Width = FromEnd
  /\ SameFrom(s, call.src, SlotOf(x.f_addr), x.f_addr)
  /\ SameFrom(t, call.dst, SlotOf(x.t_addr), x.t_addr)
  /\ MapReached(s, t, x.t_addr)

\* the sender in a page table, with nothing found there yet
AtReceiver(x, s, t) ==
  /\ ~sigma0 /\ x.f_size = 0 /\ x.t_size = 1 /\ x.f_off = 0 /\ InSender(x, s)
  /\ x.tpg = <<1, SlotOf(x.t_addr)>> /\ x.t_addr \in Addrs /\ From(call) <= x.f_addr
  /\ IF x.pgsize = 0
     THEN x.f_addr = From(call) /\ x.f_num = Count(call) /\ x.t_addr = To(call) /\ x.t_num = x.f_num
     ELSE /\ (x.t_addr % Width) = 0 /\ x.t_addr + (x.f_addr % Width) = x.f_addr + Shift
          /\ Rest(x) /\ x.t_num = x.r_fnum + 1 /\ x.r_fnum >= 0
          /\ \A b \in Addrs : SlotOf(b) = SlotOf(x.f_addr) /\ b < x.f_addr => call.src.tab[b] = None
  /\ SameFrom(s, call.src, SlotOf(x.f_addr) + 1, x.f_addr)
  /\ SameFrom(t, call.dst, SlotOf(x.t_addr), x.t_addr)
  /\ MapReached(s, t, x.f_addr + Shift)

\* both in page tables
InBoth(x, s, t) ==
  /\ x.f_size = 0 /\ x.t_size = 0 /\ x.f_off = 0 /\ x.f_num = x.t_num /\ x.f_num >= 1
  /\ x.t_addr = x.f_addr + Shift /\ From(call) <= x.f_addr
  /\ sigma0 \/ InSender(x, s)
  /\ InReceiver(x, t)
  /\ IF x.pgsize = 0 THEN x.f_addr + x.f_num = FromEnd
     ELSE /\ ~sigma0 /\ Rest(x) /\ (x.f_addr % Width) = (x.t_addr % Width)
          /\ x.r_tpg = <<1, SlotOf(x.t_addr) + 1>> /\ x.r_tnum = x.r_fnum /\ x.r_fnum >= 0
  /\ SameFrom(s, call.src, SlotOf(x.f_addr) + 1, x.f_addr)
  /\ MapReached(s, t, x.t_addr)

\* a large page sent in parts.
InParts(x, s, t) ==
  /\ ~sigma0 /\ x.pgsize = 0 /\ x.f_size = 1 /\ x.t_size = 0 /\ x.f_addr = From(call)
  /\ x.fpg = <<1, SlotOf(x.f_addr)>> /\ x.f_addr \in Addrs
  /\ call.src.dir[SlotOf(x.f_addr)].kind = "page" /\ SameFrom(s, call.src, SlotOf(x.f_addr), x.f_addr)
  /\ x.t_addr = To(call) + x.f_off /\ x.t_num + x.f_off = Count(call) /\ x.t_num >= 1
  /\ InReceiver(x, t)
  /\ MapReached(s, t, x.t_addr)

MapWalking(x, s, t) ==
  AtBoth(x, s, t) \/ AtReceiver(x, s, t) \/ InBoth(x, s, t) \/ InParts(x, s, t)

MapInv(x, s, t) ==
  /\ x \in MapLocals /\ IsDir(s) /\ IsDir(t) /\ Empty(t) /\ x.pgsize = PageSize(Count(call))
  /\ x.running => MapWalking(x, s, t)
  /\ ~x.running => \A a \in Addrs : Shows(t, a) /\ Granted(s, a)

\* What the proofs use of a regular call.
MapCall ==
  LET n == Count(call) IN
  /\ From(call) \in Nat /\ To(call) \in Nat /\ n \in Nat \ {0}
  /\ call.w \in BOOLEAN /\ call.grant \in BOOLEAN /\ call.sigma0 \in BOOLEAN
  /\ IsDir(call.src) /\ IsDir(call.dst) /\ Empty(call.dst)
  /\ \A a \in Addrs : a \in Kernel =>
       call.src.dir[SlotOf(a)].kind # "page" /\ call.dst.dir[SlotOf(a)].kind # "page"
  /\ n < Width => (From(call) % Width) + n <= Width /\ (To(call) % Width) + n <= Width
  /\ n >= Width => Divides(Width, n) /\ Divides(Width, From(call)) /\ Divides(Width, To(call))

RegularMap ==
  LET n == Count(call) IN
  \A a \in Window(call) \cap Addrs :
    /\ ~sigma0 /\ Origin(call, a) \in Addrs =>
         /\ n \in 2 .. Width - 1 => Source(call, To(call)).kind = "page"
         /\ n >= Width /\ call.src.dir[SlotOf(Origin(call, a))].kind = "tree" =>
              \E b \in Under(pgent(Origin(call, a))) : call.src.tab[b].kind # "none"
         /\ n < Width /\ SenderLarge(call, a) =>
              ~call.grant /\ \A b \in Window(call) : lookup(call.dst, b).kind = "none"
    /\ Blocked(call, a) => n = 1
    /\ SenderLarge(call, a) /\ n >= Width => Under(pgent(a)) \cap Kernel = {}

\* The multiples of a number.
LEMMA MultipleDivides ==
  ASSUME NEW m \in Nat \ {0}, NEW k \in Nat
  PROVE  Divides(m, k * m) /\ k * m \in Nat
BY DEF Divides

\* The part of a base that is an offset into the larger fpage.
LEMMA OffsetIs ==
  ASSUME NEW m \in Nat \ {0}, NEW b \in Nat \ {0}, m <= b, NEW base \in Nat,
         Divides(m, b) \/ Divides(b, m)
  PROVE  \E k \in Nat : (base % b) - (base % m) = k * m
<1>1. PICK k \in Nat : b = k * m
  <2>1. CASE Divides(m, b)
    BY <2>1, Multiple
  <2>2. CASE Divides(b, m)
    <3>1. PICK j \in Nat : m = j * b
      BY <2>2, Multiple
    <3>2. j # 0
      BY <3>1
    <3>3. j >= 2 => j * b >= 2 * b
      BY <3>1
    <3>4. j = 1
      BY <3>1, <3>2, <3>3
    <3>5. b = 1 * m
      BY <3>1, <3>4
    <3> QED BY <3>5
  <2> QED BY <2>1, <2>2
<1>2. PICK q \in Nat : base = q * b + (base % b)
  <2>1. base \div b \in Nat /\ base = (base \div b) * b + (base % b)
    OBVIOUS
  <2> QED BY <2>1
<1>3. PICK p \in Nat : base = p * m + (base % m)
  <2>1. base \div m \in Nat /\ base = (base \div m) * m + (base % m)
    OBVIOUS
  <2> QED BY <2>1
<1>4. (base % b) \in Nat /\ (base % m) \in 0 .. m - 1
  OBVIOUS
<1>5. q * b = (q * k) * m /\ q * k \in Nat
  BY <1>1, Associative
<1>6. (p - q * k) * m = p * m - (q * k) * m /\ p * m \in Int /\ (q * k) * m \in Int
  BY <1>5, Distributive
<1>7. (base % b) - (base % m) = (p - q * k) * m
  <2>1. PICK i \in Int : i = p * m
    BY <1>6
  <2>2. PICK j \in Int : j = (q * k) * m
    BY <1>6
  <2>3. base = j + (base % b) /\ base = i + (base % m)
    BY <1>2, <1>3, <1>5, <2>1, <2>2
  <2>4. (p - q * k) * m = i - j
    BY <1>6, <2>1, <2>2
  <2> QED BY <2>3, <2>4, <1>4
<1>8. p - q * k \in Int /\ (p - q * k) * m > 0 - m
  BY <1>4, <1>5, <1>7
<1>9. p - q * k >= 0
  <2>1. \A i \in Int : i < 0 => i * m <= 0 - m
    OBVIOUS
  <2>2. (p - q * k) * m \in Int
    BY <1>8
  <2> QED BY <2>1, <2>2, <1>8
<1> QED BY <1>7, <1>8, <1>9

\* An offset of that kind leads to another fpage of the smaller size.
LEMMA Shifted ==
  ASSUME NEW f, IsFpage(f), NEW m \in Nat \ {0}, m <= f.size, NEW k \in Nat,
         Divides(m, f.size) \/ Divides(f.size, m), Divides(m, Width) \/ Divides(Width, m)
  PROVE  IsFpage([at |-> f.at + k * m, size |-> m])
<1> DEFINE b == f.size
<1>1. f.at \in Nat /\ b \in Nat \ {0} /\ Divides(b, f.at)
  BY DEF IsFpage
<1>2. PICK j \in Nat : b = j * m
  <2>1. CASE Divides(m, b)
    BY <2>1, <1>1, Multiple
  <2>2. CASE Divides(b, m)
    <3>1. PICK i \in Nat : m = i * b
      BY <2>2, <1>1, Multiple
    <3>2. i # 0
      BY <3>1, <1>1
    <3>3. i >= 2 => i * b >= 2 * b
      BY <3>1, <1>1
    <3>4. i = 1
      BY <3>1, <3>2, <3>3, <1>1
    <3>5. b = 1 * m
      BY <3>1, <3>4, <1>1
    <3> QED BY <3>5
  <2> QED BY <2>1, <2>2
<1>3. PICK i \in Nat : f.at = i * b
  BY <1>1, Multiple
<1>4. f.at = (i * j) * m /\ i * j \in Nat
  BY <1>2, <1>3, Associative
<1>5. (i * j + k) * m = (i * j) * m + k * m /\ i * j + k \in Nat
  BY <1>4, Distributive
<1>6. f.at + k * m = (i * j + k) * m
  BY <1>4, <1>5
<1>7. Divides(m, f.at + k * m) /\ f.at + k * m \in Nat
  BY <1>5, <1>6, MultipleDivides
<1> QED BY <1>7 DEF IsFpage

\* A regular call of map_fpage has what the proofs use of it.
LEMMA MapIsRegular ==
  ASSUME IsCall(call), Regular(call), call.op = "map"
  PROVE  MapCall /\ RegularMap
<1> DEFINE n == Count(call)
           snd == call.snd
           rcv == call.rcv
<1>1. /\ IsFpage(snd) /\ IsFpage(rcv) /\ call.base \in Nat
      /\ Divides(snd.size, rcv.size) \/ Divides(rcv.size, snd.size)
      /\ {call.w, call.grant, call.sigma0} \subseteq BOOLEAN /\ IsTable(call.src) /\ IsTable(call.dst)
  BY DEF IsCall
<1>2. /\ snd.at \in Nat /\ snd.size \in Nat \ {0} /\ rcv.at \in Nat /\ rcv.size \in Nat \ {0}
      /\ Divides(snd.size, Width) \/ Divides(Width, snd.size)
      /\ Divides(rcv.size, Width) \/ Divides(Width, rcv.size)
  BY <1>1 DEF IsFpage
<1>3. /\ n \in Nat \ {0} /\ IsFpage([at |-> From(call), size |-> n])
      /\ IsFpage([at |-> To(call), size |-> n])
  <2>1. CASE snd.size <= rcv.size
    <3>1. n = snd.size /\ From(call) = snd.at /\ To(call) = rcv.at + Offset(call)
      BY <2>1 DEF Count, From, To
    <3>2. PICK k \in Nat : Offset(call) = k * n
      <4>1. Offset(call) = (call.base % rcv.size) - (call.base % n)
        BY <2>1 DEF Offset
      <4>2. \E k \in Nat : (call.base % rcv.size) - (call.base % snd.size) = k * snd.size
        BY <2>1, <1>1, <1>2, OffsetIs
      <4> QED BY <4>1, <4>2, <3>1
    <3>3. IsFpage([at |-> rcv.at + k * n, size |-> n])
      BY <2>1, <3>1, <1>1, <1>2, Shifted
    <3>4. IsFpage([at |-> snd.at, size |-> snd.size])
      BY <1>1 DEF IsFpage
    <3> QED BY <3>1, <3>2, <3>3, <3>4, <1>2
  <2>2. CASE ~(snd.size <= rcv.size)
    <3>1. n = rcv.size /\ From(call) = snd.at + Offset(call) /\ To(call) = rcv.at
          /\ rcv.size <= snd.size
      BY <2>2, <1>2 DEF Count, From, To
    <3>2. PICK k \in Nat : Offset(call) = k * n
      <4>1. Offset(call) = (call.base % snd.size) - (call.base % n)
        BY <2>2 DEF Offset
      <4>2. \E k \in Nat : (call.base % snd.size) - (call.base % rcv.size) = k * rcv.size
        BY <3>1, <1>1, <1>2, OffsetIs
      <4> QED BY <4>1, <4>2, <3>1
    <3>3. IsFpage([at |-> snd.at + k * n, size |-> n])
      BY <3>1, <1>1, <1>2, Shifted
    <3>4. IsFpage([at |-> rcv.at, size |-> rcv.size])
      BY <1>1 DEF IsFpage
    <3> QED BY <3>1, <3>2, <3>3, <3>4, <1>2
  <2> QED BY <2>1, <2>2
<1> HIDE DEF n
<1>4. From(call) \in Nat /\ To(call) \in Nat
  BY <1>3 DEF IsFpage
<1>5. /\ n < Width => (From(call) % Width) + n <= Width /\ (To(call) % Width) + n <= Width
      /\ n >= Width => Divides(Width, n) /\ Divides(Width, From(call)) /\ Divides(Width, To(call))
  BY <1>3, FpagePlace
<1>6. IsDir(call.src) /\ IsDir(call.dst) /\ Empty(call.dst)
  BY <1>1 DEF IsTable, IsDir, Empty, SlotOf
<1>7. \A a \in Addrs : a \in Kernel =>
        call.src.dir[SlotOf(a)].kind # "page" /\ call.dst.dir[SlotOf(a)].kind # "page"
  BY <1>1 DEF IsTable, SlotOf
<1>8. MapCall
  BY <1>1, <1>3, <1>4, <1>5, <1>6, <1>7 DEF MapCall, n
<1>9. RegularMap
  BY DEF Regular, RegularMap, SlotOf, sigma0
<1> QED BY <1>8, <1>9

\* A pointer to the next entry.
LEMMA NextEntry ==
  ASSUME NEW pg \in {0, 1} \X Nat
  PROVE  next(pg, 1) = <<pg[1], pg[2] + 1>> /\ next(pg, 1) \in {0, 1} \X Nat
BY DEF next

\* The two page sizes.
LEMMA PageSizes == page_size(0) = 1 /\ page_size(1) = Width /\ Width \in Nat /\ Width >= 2
BY WalkerAssumption DEF page_size

\* The while condition
LEMMA LoopIs ==
  ASSUME NEW x \in MapLocals
  PROVE  LET r == Loop(x) IN
         /\ r \in MapLocals /\ (r.running <=> x.f_num # 0 \/ x.t_num # 0) /\ r.pgsize = x.pgsize
         /\ r.f_size = x.f_size /\ r.t_size = x.t_size /\ r.f_num = x.f_num /\ r.t_num = x.t_num
         /\ r.f_addr = x.f_addr /\ r.t_addr = x.t_addr /\ r.f_off = x.f_off /\ r.fpg = x.fpg
         /\ r.tpg = x.tpg /\ r.r_fpg = x.r_fpg /\ r.r_fnum = x.r_fnum /\ r.r_tpg = x.r_tpg
         /\ r.r_tnum = x.r_tnum
<1> DEFINE b == x.f_num # 0 \/ x.t_num # 0
<1>1. Loop(x) = [x EXCEPT !.running = b] /\ b \in BOOLEAN
  BY DEF Loop
<1> HIDE DEF b
<1> QED BY <1>1 DEF MapLocals, b

\* The end of the loop
Stopped(r, x) == r \in MapLocals /\ r.pgsize = x.pgsize /\ ~r.running

\* What an entry of the sender leaves of the locals
SenderKeeps(r, x) ==
  /\ r \in MapLocals /\ r.pgsize = x.pgsize /\ r.f_off = 0 /\ r.f_addr = x.f_addr + page_size(x.f_size)
  /\ r.t_addr = x.t_addr /\ r.r_fpg = x.r_fpg /\ r.r_fnum = x.r_fnum
  /\ r.r_tpg = x.r_tpg /\ r.r_tnum = x.r_tnum

\* Next_sender_entry: the next one, the end, and the way up on both sides.
LEMMA SenderNext ==
  ASSUME NEW x \in MapLocals, sigma0 \in BOOLEAN
  PROVE  LET r == Next_sender_entry(x) IN
         /\ x.f_num # 1 =>
              /\ SenderKeeps(r, x) /\ r.running /\ r.f_num = x.f_num - 1 /\ r.f_size = x.f_size
              /\ r.t_size = x.t_size /\ r.t_num = x.t_num /\ r.tpg = x.tpg
              /\ ~sigma0 => r.fpg = <<x.fpg[1], x.fpg[2] + 1>>
         /\ x.f_num = 1 /\ x.f_size >= x.pgsize => Stopped(r, x)
         /\ x.f_num = 1 /\ x.f_size < x.pgsize /\ x.t_size = 0 /\ x.t_num = 0 =>
              /\ SenderKeeps(r, x) /\ r.f_size = 1 /\ r.fpg = x.r_fpg /\ r.f_num = x.r_fnum
              /\ r.t_size = 1 /\ r.tpg = x.r_tpg /\ r.t_num = x.r_tnum
              /\ (r.running <=> x.r_fnum # 0 \/ x.r_tnum # 0)
<1> DEFINE y == [x EXCEPT !.f_addr = @ + page_size(x.f_size), !.f_off = 0, !.f_num = @ - 1]
           up == [y EXCEPT !.fpg = y.r_fpg, !.f_num = y.r_fnum, !.f_size = 1]
           r == Next_sender_entry(x)
<1>1. r = Loop(CASE y.f_num # 0 -> IF call.sigma0 THEN y ELSE [y EXCEPT !.fpg = next(@, 1)]
            [] y.f_num = 0 /\ y.f_size < y.pgsize ->
                 IF up.t_size = 0 /\ up.t_num = 0 THEN ReceiverUp(up) ELSE up
            [] y.f_num = 0 /\ y.f_size >= y.pgsize -> [y EXCEPT !.t_num = 0])
  BY DEF Next_sender_entry
<1>2. /\ y \in MapLocals /\ y.f_addr = x.f_addr + page_size(x.f_size) /\ y.f_off = 0 /\ y.f_num = x.f_num - 1
      /\ y.pgsize = x.pgsize /\ y.f_size = x.f_size /\ y.t_size = x.t_size /\ y.t_num = x.t_num
      /\ y.t_addr = x.t_addr /\ y.fpg = x.fpg /\ y.tpg = x.tpg /\ y.r_fpg = x.r_fpg
      /\ y.r_fnum = x.r_fnum /\ y.r_tpg = x.r_tpg /\ y.r_tnum = x.r_tnum
  <2>1. PICK i \in Nat : i = x.f_addr + page_size(x.f_size)
    BY PageSizes DEF MapLocals
  <2>2. PICK j \in Int : j = x.f_num - 1
    BY DEF MapLocals
  <2>3. y = [x EXCEPT !.f_addr = i, !.f_off = 0, !.f_num = j]
    BY <2>1, <2>2
  <2> HIDE DEF y
  <2> QED BY <2>1, <2>2, <2>3 DEF MapLocals
<1>3. ASSUME x.f_num # 1
      PROVE  /\ SenderKeeps(r, x) /\ r.running /\ r.f_num = x.f_num - 1 /\ r.f_size = x.f_size
             /\ r.t_size = x.t_size /\ r.t_num = x.t_num /\ r.tpg = x.tpg
             /\ ~sigma0 => r.fpg = <<x.fpg[1], x.fpg[2] + 1>>
  <2>1. y.f_num # 0
    BY <1>2, <1>3 DEF MapLocals
  <2> HIDE DEF y
  <2>2. r = Loop(IF call.sigma0 THEN y ELSE [y EXCEPT !.fpg = next(@, 1)])
    BY <1>1, <2>1
  <2>3. PICK p \in {0, 1} \X Nat : p = IF call.sigma0 THEN y.fpg ELSE <<y.fpg[1], y.fpg[2] + 1>>
    <3>1. y.fpg \in {0, 1} \X Nat
      BY <1>2 DEF MapLocals
    <3>2. <<y.fpg[1], y.fpg[2] + 1>> \in {0, 1} \X Nat
      BY <3>1
    <3> QED BY <3>1, <3>2
  <2>4. r = Loop([y EXCEPT !.fpg = p])
    <3>1. CASE call.sigma0
      <4>1. [y EXCEPT !.fpg = y.fpg] = y
        BY <1>2 DEF MapLocals
      <4> QED BY <3>1, <4>1, <2>2, <2>3
    <3>2. CASE ~call.sigma0
      <4>1. next(y.fpg, 1) = p
        BY <3>2, <2>3 DEF next
      <4> QED BY <3>2, <4>1, <2>2
    <3> QED BY <3>1, <3>2
  <2> DEFINE u == [y EXCEPT !.fpg = p]
  <2>5. /\ u \in MapLocals /\ u.f_addr = y.f_addr /\ u.f_off = y.f_off /\ u.f_num = y.f_num
        /\ u.pgsize = y.pgsize /\ u.f_size = y.f_size /\ u.t_size = y.t_size /\ u.t_num = y.t_num
        /\ u.t_addr = y.t_addr /\ u.fpg = p /\ u.tpg = y.tpg /\ u.r_fpg = y.r_fpg
        /\ u.r_fnum = y.r_fnum /\ u.r_tpg = y.r_tpg /\ u.r_tnum = y.r_tnum
    BY <1>2 DEF MapLocals
  <2>6. r = Loop(u)
    BY <2>4
  <2> HIDE DEF u, r
  <2>7. /\ r \in MapLocals /\ (r.running <=> u.f_num # 0 \/ u.t_num # 0) /\ r.pgsize = u.pgsize
        /\ r.f_size = u.f_size /\ r.t_size = u.t_size /\ r.f_num = u.f_num /\ r.t_num = u.t_num
        /\ r.f_addr = u.f_addr /\ r.t_addr = u.t_addr /\ r.f_off = u.f_off /\ r.fpg = u.fpg
        /\ r.tpg = u.tpg /\ r.r_fpg = u.r_fpg /\ r.r_fnum = u.r_fnum /\ r.r_tpg = u.r_tpg
        /\ r.r_tnum = u.r_tnum
    BY <2>5, <2>6, LoopIs
  <2>8. SenderKeeps(r, x)
    BY <1>2, <2>5, <2>7 DEF SenderKeeps
  <2>9. ~sigma0 => r.fpg = <<x.fpg[1], x.fpg[2] + 1>>
    BY <1>2, <2>3, <2>5, <2>7 DEF sigma0
  <2> QED BY <1>2, <2>1, <2>5, <2>7, <2>8, <2>9
<1>4. ASSUME x.f_num = 1, x.f_size >= x.pgsize PROVE Stopped(r, x)
  <2>1. y.f_num = 0 /\ ~(y.f_size < y.pgsize) /\ y.f_size >= y.pgsize
    BY <1>2, <1>4 DEF MapLocals
  <2> HIDE DEF y
  <2>2. r = Loop([y EXCEPT !.t_num = 0])
    BY <1>1, <2>1
  <2> DEFINE u == [y EXCEPT !.t_num = 0]
  <2>3. u \in MapLocals /\ u.f_num = y.f_num /\ u.t_num = 0 /\ u.pgsize = y.pgsize
    BY <1>2 DEF MapLocals
  <2>4. r = Loop(u)
    BY <2>2
  <2> HIDE DEF u, r
  <2>5. r \in MapLocals /\ (r.running <=> u.f_num # 0 \/ u.t_num # 0) /\ r.pgsize = u.pgsize
    BY <2>3, <2>4, LoopIs
  <2> QED BY <1>2, <2>1, <2>3, <2>5 DEF Stopped
<1>5. ASSUME x.f_num = 1, x.f_size < x.pgsize, x.t_size = 0, x.t_num = 0
      PROVE  /\ SenderKeeps(r, x) /\ r.f_size = 1 /\ r.fpg = x.r_fpg /\ r.f_num = x.r_fnum
             /\ r.t_size = 1 /\ r.tpg = x.r_tpg /\ r.t_num = x.r_tnum
             /\ (r.running <=> x.r_fnum # 0 \/ x.r_tnum # 0)
  <2>1. y.f_num = 0 /\ ~(y.f_size >= y.pgsize) /\ y.f_size < y.pgsize
    BY <1>2, <1>5 DEF MapLocals
  <2> HIDE DEF y
  <2>2. /\ up \in MapLocals /\ up.f_addr = y.f_addr /\ up.f_off = y.f_off /\ up.f_num = y.r_fnum
        /\ up.pgsize = y.pgsize /\ up.f_size = 1 /\ up.t_size = y.t_size /\ up.t_num = y.t_num
        /\ up.t_addr = y.t_addr /\ up.fpg = y.r_fpg /\ up.tpg = y.tpg /\ up.r_fpg = y.r_fpg
        /\ up.r_fnum = y.r_fnum /\ up.r_tpg = y.r_tpg /\ up.r_tnum = y.r_tnum
    <3>1. y \in MapLocals
      BY <1>2
    <3>2. PICK p \in {0, 1} \X Nat : p = y.r_fpg
      BY <3>1 DEF MapLocals
    <3>3. PICK k \in Int : k = y.r_fnum
      BY <3>1 DEF MapLocals
    <3>4. up = [y EXCEPT !.fpg = p, !.f_num = k, !.f_size = 1]
      BY <3>2, <3>3
    <3> HIDE DEF up
    <3> QED BY <3>1, <3>2, <3>3, <3>4 DEF MapLocals
  <2>3. r = Loop(IF up.t_size = 0 /\ up.t_num = 0 THEN ReceiverUp(up) ELSE up)
    BY <1>1, <2>1
  <2> HIDE DEF up, r
  <2>4. r = Loop(ReceiverUp(up))
    BY <1>2, <1>5, <2>2, <2>3
  <2> DEFINE u == [up EXCEPT !.tpg = up.r_tpg, !.t_num = up.r_tnum, !.t_size = 1]
  <2>5. /\ u \in MapLocals /\ u.f_addr = up.f_addr /\ u.f_off = up.f_off /\ u.f_num = up.f_num
        /\ u.pgsize = up.pgsize /\ u.f_size = up.f_size /\ u.t_size = 1 /\ u.t_num = up.r_tnum
        /\ u.t_addr = up.t_addr /\ u.fpg = up.fpg /\ u.tpg = up.r_tpg /\ u.r_fpg = up.r_fpg
        /\ u.r_fnum = up.r_fnum /\ u.r_tpg = up.r_tpg /\ u.r_tnum = up.r_tnum
    <3>1. up \in MapLocals
      BY <2>2
    <3>2. PICK p \in {0, 1} \X Nat : p = up.r_tpg
      BY <3>1 DEF MapLocals
    <3>3. PICK k \in Int : k = up.r_tnum
      BY <3>1 DEF MapLocals
    <3>4. u = [up EXCEPT !.tpg = p, !.t_num = k, !.t_size = 1]
      BY <3>2, <3>3
    <3> HIDE DEF u
    <3> QED BY <3>1, <3>2, <3>3, <3>4 DEF MapLocals
  <2>6. r = Loop(u)
    BY <2>4 DEF ReceiverUp
  <2> HIDE DEF u
  <2> QED BY <1>2, <2>2, <2>5, <2>6, LoopIs DEF SenderKeeps
<1> QED BY <1>3, <1>4, <1>5

\* Next_receiver_entry where both sides have entries of the same size: they move together.
LEMMA BothNext ==
  ASSUME NEW x \in MapLocals, sigma0 \in BOOLEAN, x.f_size = x.t_size, x.f_num = x.t_num
  PROVE  LET r == Next_receiver_entry(x) IN
         /\ x.f_num # 1 =>
              /\ r \in MapLocals /\ r.pgsize = x.pgsize /\ r.running /\ r.f_off = 0
              /\ r.f_size = x.f_size /\ r.t_size = x.f_size
              /\ r.f_num = x.f_num - 1 /\ r.t_num = x.f_num - 1
              /\ r.f_addr = x.f_addr + page_size(x.f_size)
              /\ r.t_addr = x.t_addr + page_size(x.f_size)
              /\ r.tpg = <<x.tpg[1], x.tpg[2] + 1>> /\ (~sigma0 => r.fpg = <<x.fpg[1], x.fpg[2] + 1>>)
              /\ r.r_fpg = x.r_fpg /\ r.r_fnum = x.r_fnum /\ r.r_tpg = x.r_tpg /\ r.r_tnum = x.r_tnum
         /\ x.f_num = 1 /\ x.f_size >= x.pgsize => Stopped(r, x)
         /\ x.f_num = 1 /\ x.f_size < x.pgsize =>
              /\ r \in MapLocals /\ r.pgsize = x.pgsize /\ r.f_off = 0
              /\ r.f_size = 1 /\ r.t_size = 1 /\ r.f_num = x.r_fnum /\ r.t_num = x.r_tnum
              /\ r.f_addr = x.f_addr + page_size(x.f_size)
              /\ r.t_addr = x.t_addr + page_size(x.f_size)
              /\ r.tpg = x.r_tpg /\ r.fpg = x.r_fpg
              /\ (r.running <=> x.r_fnum # 0 \/ x.r_tnum # 0)
<1> DEFINE y == [x EXCEPT !.t_addr = @ + page_size(x.t_size), !.t_num = @ - 1]
           off == [y EXCEPT !.f_off = @ + page_size(y.t_size)]
           r == Next_receiver_entry(x)
<1>1. r = CASE y.t_num # 0 ->
            IF y.t_size < y.f_size THEN Loop([off EXCEPT !.tpg = next(@, 1)])
                                   ELSE Next_sender_entry([y EXCEPT !.tpg = next(@, 1)])
       [] y.t_num = 0 /\ y.t_size < y.f_size /\ y.f_size <= y.pgsize ->
            Next_sender_entry(ReceiverUp(off))
       [] y.t_num = 0 /\ y.t_size > y.f_size ->
            Next_sender_entry([y EXCEPT !.f_addr = @ + page_size(y.t_size) - page_size(y.f_size),
                                        !.f_num = 1])
       [] OTHER -> Next_sender_entry(y)
  BY DEF Next_receiver_entry
<1>2. /\ y \in MapLocals /\ y.t_addr = x.t_addr + page_size(x.f_size) /\ y.t_num = x.f_num - 1
      /\ y.f_addr = x.f_addr /\ y.f_off = x.f_off /\ y.f_num = x.f_num
      /\ y.pgsize = x.pgsize /\ y.f_size = x.f_size /\ y.t_size = x.f_size
      /\ y.fpg = x.fpg /\ y.tpg = x.tpg /\ y.r_fpg = x.r_fpg
      /\ y.r_fnum = x.r_fnum /\ y.r_tpg = x.r_tpg /\ y.r_tnum = x.r_tnum
  <2>1. PICK i \in Nat : i = x.t_addr + page_size(x.t_size)
    BY PageSizes DEF MapLocals
  <2>2. PICK j \in Int : j = x.t_num - 1
    BY DEF MapLocals
  <2>3. y = [x EXCEPT !.t_addr = i, !.t_num = j]
    BY <2>1, <2>2
  <2> HIDE DEF y
  <2> QED BY <2>1, <2>2, <2>3 DEF MapLocals
<1>3. ~(y.t_size < y.f_size) /\ ~(y.t_size > y.f_size) /\ (x.f_num - 1 = 0 <=> x.f_num = 1)
  BY <1>2 DEF MapLocals
<1> HIDE DEF y, off
<1>4. ASSUME x.f_num # 1
      PROVE  /\ r \in MapLocals /\ r.pgsize = x.pgsize /\ r.running /\ r.f_off = 0
             /\ r.f_size = x.f_size /\ r.t_size = x.f_size
             /\ r.f_num = x.f_num - 1 /\ r.t_num = x.f_num - 1
             /\ r.f_addr = x.f_addr + page_size(x.f_size)
             /\ r.t_addr = x.t_addr + page_size(x.f_size)
             /\ r.tpg = <<x.tpg[1], x.tpg[2] + 1>> /\ (~sigma0 => r.fpg = <<x.fpg[1], x.fpg[2] + 1>>)
             /\ r.r_fpg = x.r_fpg /\ r.r_fnum = x.r_fnum /\ r.r_tpg = x.r_tpg /\ r.r_tnum = x.r_tnum
  <2>1. r = Next_sender_entry([y EXCEPT !.tpg = next(@, 1)])
    BY <1>1, <1>2, <1>3, <1>4
  <2>2. PICK p \in {0, 1} \X Nat : p = next(y.tpg, 1) /\ p = <<x.tpg[1], x.tpg[2] + 1>>
    BY <1>2, NextEntry DEF MapLocals
  <2> DEFINE u == [y EXCEPT !.tpg = p]
  <2>3. /\ u \in MapLocals /\ u.f_addr = y.f_addr /\ u.f_off = y.f_off /\ u.f_num = y.f_num
        /\ u.pgsize = y.pgsize /\ u.f_size = y.f_size /\ u.t_size = y.t_size /\ u.t_num = y.t_num
        /\ u.t_addr = y.t_addr /\ u.fpg = y.fpg /\ u.tpg = p /\ u.r_fpg = y.r_fpg
        /\ u.r_fnum = y.r_fnum /\ u.r_tpg = y.r_tpg /\ u.r_tnum = y.r_tnum
    BY <1>2 DEF MapLocals
  <2>4. r = Next_sender_entry(u)
    BY <2>1, <2>2
  <2> HIDE DEF u, r
  <2>5. /\ SenderKeeps(r, u) /\ r.running /\ r.f_num = u.f_num - 1 /\ r.f_size = u.f_size
        /\ r.t_size = u.t_size /\ r.t_num = u.t_num /\ r.tpg = u.tpg
        /\ ~sigma0 => r.fpg = <<u.fpg[1], u.fpg[2] + 1>>
    BY <1>2, <1>4, <2>3, <2>4, SenderNext
  <2>6. ~sigma0 => r.fpg = <<x.fpg[1], x.fpg[2] + 1>>
    BY <1>2, <2>3, <2>5
  <2> QED BY <1>2, <2>2, <2>3, <2>5, <2>6 DEF SenderKeeps
<1>5. ASSUME x.f_num = 1 PROVE r = Next_sender_entry(y) /\ y.t_num = 0
  <2>1. y.t_num = 0
    BY <1>2, <1>3, <1>5
  <2> QED BY <1>1, <2>1, <1>3
<1> HIDE DEF r
<1>6. ASSUME x.f_num = 1, x.f_size >= x.pgsize PROVE Stopped(r, x)
  <2>1. Stopped(r, y)
    BY <1>2, <1>5, <1>6, SenderNext
  <2> QED BY <2>1, <1>2 DEF Stopped
<1>7. ASSUME x.f_num = 1, x.f_size < x.pgsize
      PROVE  /\ r \in MapLocals /\ r.pgsize = x.pgsize /\ r.f_off = 0
              /\ r.f_size = 1 /\ r.t_size = 1 /\ r.f_num = x.r_fnum /\ r.t_num = x.r_tnum
              /\ r.f_addr = x.f_addr + page_size(x.f_size)
              /\ r.t_addr = x.t_addr + page_size(x.f_size)
              /\ r.tpg = x.r_tpg /\ r.fpg = x.r_fpg
              /\ (r.running <=> x.r_fnum # 0 \/ x.r_tnum # 0)
  <2>1. y.t_size = 0
    BY <1>2, <1>7 DEF MapLocals
  <2>2. /\ SenderKeeps(r, y) /\ r.f_size = 1 /\ r.fpg = y.r_fpg /\ r.f_num = y.r_fnum
        /\ r.t_size = 1 /\ r.tpg = y.r_tpg /\ r.t_num = y.r_tnum
        /\ (r.running <=> y.r_fnum # 0 \/ y.r_tnum # 0)
    BY <2>1, <1>2, <1>5, <1>7, SenderNext
  <2> QED BY <2>2, <1>2 DEF SenderKeeps
<1> QED BY <1>4, <1>6, <1>7 DEF r

\* and where a large page of the sender is mapped in parts.
LEMMA PartNext ==
  ASSUME NEW x \in MapLocals, sigma0 \in BOOLEAN, x.f_size = 1, x.t_size = 0, x.pgsize = 0, x.f_num = 1
  PROVE  LET r == Next_receiver_entry(x) IN
         /\ x.t_num # 1 =>
              /\ r \in MapLocals /\ r.pgsize = x.pgsize /\ r.running /\ r.f_off = x.f_off + 1
              /\ r.f_size = 1 /\ r.t_size = 0 /\ r.t_num = x.t_num - 1
              /\ r.f_addr = x.f_addr /\ r.t_addr = x.t_addr + 1
              /\ r.tpg = <<x.tpg[1], x.tpg[2] + 1>> /\ r.fpg = x.fpg
         /\ x.t_num = 1 => Stopped(r, x)
<1> DEFINE y == [x EXCEPT !.t_addr = @ + page_size(x.t_size), !.t_num = @ - 1]
           off == [y EXCEPT !.f_off = @ + page_size(y.t_size)]
           r == Next_receiver_entry(x)
<1>1. r = CASE y.t_num # 0 ->
            IF y.t_size < y.f_size THEN Loop([off EXCEPT !.tpg = next(@, 1)])
                                   ELSE Next_sender_entry([y EXCEPT !.tpg = next(@, 1)])
       [] y.t_num = 0 /\ y.t_size < y.f_size /\ y.f_size <= y.pgsize ->
            Next_sender_entry(ReceiverUp(off))
       [] y.t_num = 0 /\ y.t_size > y.f_size ->
            Next_sender_entry([y EXCEPT !.f_addr = @ + page_size(y.t_size) - page_size(y.f_size),
                                        !.f_num = 1])
       [] OTHER -> Next_sender_entry(y)
  BY DEF Next_receiver_entry
<1>2. /\ y \in MapLocals /\ y.t_addr = x.t_addr + 1 /\ y.t_num = x.t_num - 1
      /\ y.f_addr = x.f_addr /\ y.f_off = x.f_off /\ y.f_num = 1
      /\ y.pgsize = 0 /\ y.f_size = 1 /\ y.t_size = 0
      /\ y.fpg = x.fpg /\ y.tpg = x.tpg
  <2>1. PICK i \in Nat : i = x.t_addr + page_size(x.t_size) /\ i = x.t_addr + 1
    BY PageSizes DEF MapLocals
  <2>2. PICK j \in Int : j = x.t_num - 1
    BY DEF MapLocals
  <2>3. y = [x EXCEPT !.t_addr = i, !.t_num = j]
    BY <2>1, <2>2
  <2> HIDE DEF y
  <2> QED BY <2>1, <2>2, <2>3 DEF MapLocals
<1> HIDE DEF y
<1>3. /\ off \in MapLocals /\ off.f_off = x.f_off + 1 /\ off.t_addr = y.t_addr /\ off.t_num = y.t_num
      /\ off.f_addr = y.f_addr /\ off.f_num = 1 /\ off.pgsize = 0 /\ off.f_size = 1 /\ off.t_size = 0
      /\ off.fpg = x.fpg /\ off.tpg = x.tpg
  <2>1. PICK i \in Nat : i = y.f_off + page_size(y.t_size) /\ i = x.f_off + 1
    BY <1>2, PageSizes DEF MapLocals
  <2>2. off = [y EXCEPT !.f_off = i]
    BY <2>1
  <2> HIDE DEF off
  <2> QED BY <2>1, <2>2, <1>2 DEF MapLocals
<1> HIDE DEF off
<1>4. x.t_num \in Int
  BY DEF MapLocals
<1>5. ASSUME x.t_num # 1
      PROVE  /\ r \in MapLocals /\ r.pgsize = x.pgsize /\ r.running /\ r.f_off = x.f_off + 1
             /\ r.f_size = 1 /\ r.t_size = 0 /\ r.t_num = x.t_num - 1
             /\ r.f_addr = x.f_addr /\ r.t_addr = x.t_addr + 1
             /\ r.tpg = <<x.tpg[1], x.tpg[2] + 1>> /\ r.fpg = x.fpg
  <2>1. y.t_num # 0 /\ y.t_size < y.f_size
    BY <1>2, <1>4, <1>5
  <2>2. r = Loop([off EXCEPT !.tpg = next(@, 1)])
    BY <1>1, <2>1
  <2>3. PICK p \in {0, 1} \X Nat : p = next(off.tpg, 1) /\ p = <<x.tpg[1], x.tpg[2] + 1>>
    BY <1>3, NextEntry DEF MapLocals
  <2> DEFINE u == [off EXCEPT !.tpg = p]
  <2>4. /\ u \in MapLocals /\ u.f_off = off.f_off /\ u.t_addr = off.t_addr /\ u.t_num = off.t_num
        /\ u.f_addr = off.f_addr /\ u.f_num = 1 /\ u.pgsize = 0 /\ u.f_size = 1 /\ u.t_size = 0
        /\ u.fpg = off.fpg /\ u.tpg = p
    BY <1>3 DEF MapLocals
  <2>5. r = Loop(u)
    BY <2>2, <2>3
  <2> HIDE DEF u, r
  <2> QED BY <1>2, <1>3, <2>3, <2>4, <2>5, LoopIs
<1>6. ASSUME x.t_num = 1 PROVE Stopped(r, x)
  <2>1. y.t_num = 0 /\ ~(y.f_size <= y.pgsize) /\ ~(y.t_size > y.f_size)
    BY <1>2, <1>6
  <2>2. r = Next_sender_entry(y)
    BY <1>1, <2>1
  <2> HIDE DEF r
  <2>3. Stopped(r, y)
    BY <2>2, <1>2, SenderNext
  <2> QED BY <2>3, <1>2 DEF Stopped
<1> QED BY <1>5, <1>6

(***************************************************************************)
(* What is shown.                                                           *)
(***************************************************************************)
\* Addresses of one directory entry.
LEMMA WithinSlot ==
  ASSUME NEW at \in Nat, NEW m \in Nat, (at % Width) + m <= Width, NEW i \in 0 .. m - 1
  PROVE  SlotOf(at + i) = SlotOf(at) /\ (at + i) % Width = (at % Width) + i
<1>1. at \div Width \in Nat /\ (at % Width) \in 0 .. Width - 1 /\ at = (at \div Width) * Width + (at % Width)
  BY Split
<1>2. PICK q \in Nat : q = at \div Width
  BY <1>1
<1>3. PICK r \in 0 .. Width - 1 : r = at % Width
  BY <1>1
<1>4. q * Width \in Nat /\ Width \in Nat
  BY Aligned, PageSizes
<1>5. r + i \in 0 .. Width - 1 /\ at + i = q * Width + (r + i)
  BY <1>1, <1>2, <1>3, <1>4
<1>6. (q * Width + (r + i)) \div Width = q /\ (q * Width + (r + i)) % Width = r + i
  BY <1>5, SplitUnique
<1> QED BY <1>2, <1>3, <1>5, <1>6 DEF SlotOf

\* Addresses of the two fpages, and how they correspond.
LEMMA MapNats ==
  ASSUME MapCall
  PROVE  /\ From(call) \in Nat /\ To(call) \in Nat /\ Count(call) \in Nat /\ Count(call) >= 1
         /\ Shift \in Int /\ FromEnd \in Nat
         /\ \A a \in Int : Origin(call, a) = a - Shift /\ Origin(call, a) \in Int
         /\ \A a : a \in Window(call) <=> a \in Nat /\ To(call) <= a /\ a < To(call) + Count(call)
BY DEF MapCall, Shift, FromEnd, Origin, Window, Fpage

\* What the sender has at an address.
LEMMA SourceIs ==
  ASSUME MapCall, NEW a \in Nat
  PROVE  /\ ~sigma0 /\ Origin(call, a) \in Addrs => Source(call, a) = lookup(call.src, Origin(call, a))
         /\ ~sigma0 /\ Origin(call, a) \notin Addrs => Source(call, a) = None
         /\ sigma0 => Source(call, a) = Page(Origin(call, a), TRUE)
         /\ ~sigma0 => Source(call, a) \in Entries
<1>1. /\ ~sigma0 /\ Origin(call, a) \in Addrs => Source(call, a) = lookup(call.src, Origin(call, a))
      /\ ~sigma0 /\ Origin(call, a) \notin Addrs => Source(call, a) = None
      /\ sigma0 => Source(call, a) = Page(Origin(call, a), TRUE)
  BY DEF Source, sigma0
<1>2. Origin(call, a) \in Addrs => lookup(call.src, Origin(call, a)) \in Entries
  BY LookupIs DEF MapCall
<1> QED BY <1>1, <1>2, EntryKinds

\* Only what the page table shows matters.
LEMMA ShowsSame ==
  ASSUME NEW t, NEW t2, NEW a, Shows(t, a), lookup(t, a) = lookup(t2, a)
  PROVE  Shows(t2, a)
BY DEF Shows

\* What is left as it was, where nothing is mapped.
LEMMA OldShows ==
  ASSUME MapCall, NEW a \in Addrs, NEW t, lookup(t, a) = lookup(call.dst, a),
         \/ a \notin Window(call)
         \/ Source(call, a).kind # "page"
         \/ a \in Kernel
         \/ Blocked(call, a)
  PROVE  Shows(t, a) /\ \A s : Granted(s, a)
<1>1. ~Maps(call, a)
  BY DEF Maps, is_mappable
<1>2. \A s : Granted(s, a)
  BY <1>1 DEF Granted
<1>3. CASE a \notin Window(call) \/ ~Extends(call, a)
  BY <1>1, <1>2, <1>3 DEF Shows
<1>4. CASE a \in Window(call) /\ Extends(call, a) /\ a \in Kernel
  BY <1>1, <1>2, <1>4 DEF Shows, is_mappable
<1>5. CASE a \in Window(call) /\ Extends(call, a) /\ Source(call, a).kind # "page"
  <2>1. a \in Nat
    BY AddrNat
  <2>2. sigma0 => Source(call, a).kind = "page"
    BY <2>1, SourceIs DEF Page
  <2>3. Source(call, a) \in Entries
    BY <2>1, <2>2, <1>5, SourceIs DEF MapCall, sigma0
  <2>4. Source(call, a).w = FALSE
    BY <2>3, <1>5, EntryKinds DEF None
  <2> QED BY <2>4, <1>1, <1>2, <1>5 DEF Shows
<1>6. Blocked(call, a) => ~Extends(call, a)
  BY DEF Blocked, Extends
<1> QED BY <1>2, <1>3, <1>4, <1>5, <1>6

\* What an entry that was changed shows.
Changed(got, a) ==
  LET new == Source(call, a)
      old == lookup(call.dst, a)
  IN IF Extends(call, a)
     THEN \/ got = old /\ (sigma0 \/ Origin(call, a) \in Kernel \/ ~(call.w /\ new.w))
          \/ got = [old EXCEPT !.w = TRUE] /\ call.w /\ new.w
     ELSE got = IF sigma0 \/ Origin(call, a) \notin Kernel THEN Page(new.frame, new.w /\ call.w) ELSE None

\* It is what has to be shown.
LEMMA ChangedShows ==
  ASSUME MapCall, NEW a \in Addrs, a \in Window(call), Source(call, a).kind = "page",
         ~Blocked(call, a), a \notin Kernel, NEW t, Changed(lookup(t, a), a)
  PROVE  Shows(t, a)
<1>1. CASE Extends(call, a)
  <2>1. ~Maps(call, a)
    BY <1>1 DEF Maps
  <2> DEFINE new == Source(call, a)
             old == lookup(call.dst, a)
             got == lookup(t, a)
             w   == new.w /\ call.w
  <2>2. CASE got = old /\ (sigma0 \/ Origin(call, a) \in Kernel \/ ~(call.w /\ new.w))
    BY <2>1, <2>2, <1>1 DEF Shows, is_mappable
  <2>3. CASE got = [old EXCEPT !.w = TRUE] /\ call.w /\ new.w
    <3>1. old \in Entries /\ old.kind = "page"
      BY <1>1, LookupIs DEF MapCall, Extends
    <3>2. old.w \in BOOLEAN /\ old \in [kind : {"page"}, frame : Nat, w : BOOLEAN]
      BY <3>1, EntryKinds
    <3>3. got = [old EXCEPT !.w = @ \/ w]
      BY <2>3, <3>2
    <3>4. got = old => old.w
      BY <2>3, <3>2
    <3> QED BY <2>1, <3>3, <3>4, <1>1 DEF Shows
  <2> QED BY <2>2, <2>3, <1>1 DEF Changed
<1>2. CASE ~Extends(call, a)
  <2>1. Maps(call, a)
    BY <1>2 DEF Maps, is_mappable
  <2> QED BY <2>1, <1>2 DEF Shows, Changed, is_mappable
<1> QED BY <1>1, <1>2

\* Everything up to v2 is done once what is between v and v2 is.
LEMMA ReachedNext ==
  ASSUME MapCall, NEW s, NEW t, NEW s2, NEW t2, NEW v \in Nat, NEW v2 \in Nat, v <= v2, MapReached(s, t, v),
         \A a \in Addrs : a < v \/ v2 <= a => lookup(t2, a) = lookup(t, a),
         \A a \in Addrs : v <= a /\ a < v2 => Shows(t2, a) /\ Granted(s2, a),
         \A b \in Addrs : lookup(s, b) = None => lookup(s2, b) = None
  PROVE  MapReached(s2, t2, v2)
<1> SUFFICES ASSUME NEW a \in Addrs
             PROVE  IF a < v2 THEN Shows(t2, a) /\ Granted(s2, a) ELSE lookup(t2, a) = lookup(call.dst, a)
  BY DEF MapReached
<1>1. a \in Nat
  BY AddrNat
<1>2. CASE a < v
  <2>1. Shows(t, a) /\ Granted(s, a) /\ lookup(t2, a) = lookup(t, a) /\ a < v2
    BY <1>1, <1>2 DEF MapReached
  <2>2. Shows(t2, a)
    BY <2>1, ShowsSame
  <2>3. Maps(call, a) /\ ~sigma0 => Origin(call, a) \in Addrs
    <3>1. ~sigma0 /\ Origin(call, a) \notin Addrs => Source(call, a) = None
      BY <1>1, SourceIs
    <3> QED BY <3>1, EntryKinds DEF Maps
  <2>4. Granted(s2, a)
    BY <2>1, <2>3 DEF Granted
  <2> QED BY <2>1, <2>2, <2>4
<1>3. CASE ~(a < v) /\ a < v2
  BY <1>1, <1>3
<1>4. CASE ~(a < v) /\ ~(a < v2)
  BY <1>1, <1>4 DEF MapReached
<1> QED BY <1>2, <1>3, <1>4

\* The end.
LEMMA ReachedEnd ==
  ASSUME MapCall, NEW s, NEW t, NEW v \in Nat, MapReached(s, t, v),
         \A a \in Addrs : v <= a => a \notin Window(call) \/ Source(call, a).kind # "page"
  PROVE  \A a \in Addrs : Shows(t, a) /\ Granted(s, a)
<1> TAKE a \in Addrs
<1>1. a \in Nat
  BY AddrNat
<1>2. CASE a < v
  BY <1>2 DEF MapReached
<1>3. CASE ~(a < v)
  BY <1>1, <1>3, OldShows DEF MapReached
<1> QED BY <1>2, <1>3

\* Nothing to map between v and v2.
LEMMA ReachedOver ==
  ASSUME MapCall, NEW s, NEW t, NEW v \in Nat, NEW v2 \in Nat, v <= v2, MapReached(s, t, v),
         \A a \in Addrs : v <= a /\ a < v2 =>
            Source(call, a).kind # "page" \/ Blocked(call, a) \/ a \notin Window(call)
  PROVE  MapReached(s, t, v2)
<1>1. ASSUME NEW a \in Addrs, v <= a, a < v2 PROVE Shows(t, a) /\ Granted(s, a)
  <2>1. lookup(t, a) = lookup(call.dst, a)
    BY <1>1, AddrNat DEF MapReached
  <2> QED BY <1>1, <2>1, OldShows
<1> QED BY <1>1, ReachedNext

(***************************************************************************)
(* How the walks move on.                                                   *)
(***************************************************************************)
LEMMA SameFromNext ==
  ASSUME NEW t, NEW t2, NEW old, NEW d \in Int, NEW d2 \in Int, NEW v \in Int, NEW v2 \in Int,
         SameFrom(t, old, d, v), d <= d2, v <= v2,
         \A k \in 0 .. Slots - 1 : d2 <= k => t2.dir[k] = t.dir[k],
         \A a \in Addrs : v2 <= a => t2.tab[a] = t.tab[a]
  PROVE  SameFrom(t2, old, d2, v2)
<1>1. ASSUME NEW k \in 0 .. Slots - 1, d2 <= k PROVE t2.dir[k] = old.dir[k]
  BY <1>1 DEF SameFrom
<1>2. ASSUME NEW a \in Addrs, v2 <= a PROVE t2.tab[a] = old.tab[a]
  BY <1>2, AddrNat DEF SameFrom
<1> QED BY <1>1, <1>2 DEF SameFrom

\* The fpages in one page table.
LEMMA PartWindow ==
  ASSUME MapCall, Count(call) < Width, NEW i \in 0 .. Count(call) - 1
  PROVE  /\ SlotOf(From(call) + i) = SlotOf(From(call))
         /\ (From(call) + i) % Width = (From(call) % Width) + i
         /\ SlotOf(To(call) + i) = SlotOf(To(call))
         /\ (To(call) + i) % Width = (To(call) % Width) + i
         /\ From(call) \in Addrs => From(call) + i \in Addrs
         /\ To(call) \in Addrs => To(call) + i \in Addrs
         /\ From(call) + i \in Addrs => From(call) \in Addrs
         /\ To(call) + i \in Addrs => To(call) \in Addrs
<1>1. From(call) \in Nat /\ To(call) \in Nat /\ Count(call) \in Nat
      /\ (From(call) % Width) + Count(call) <= Width /\ (To(call) % Width) + Count(call) <= Width
  BY DEF MapCall
<1>2. /\ SlotOf(From(call) + i) = SlotOf(From(call))
      /\ (From(call) + i) % Width = (From(call) % Width) + i
      /\ SlotOf(To(call) + i) = SlotOf(To(call))
      /\ (To(call) + i) % Width = (To(call) % Width) + i
  BY <1>1, WithinSlot
<1>3. From(call) + i \in Nat /\ To(call) + i \in Nat
  BY <1>1
<1>4. \A a \in Nat : a \in Addrs <=> SlotOf(a) \in 0 .. Slots - 1
  BY InDirectory DEF SlotOf
<1> QED BY <1>1, <1>2, <1>3, <1>4

\* Small pages are mapped one by one if there is less than a page table of them.
LEMMA Sizes ==
  ASSUME MapCall, NEW x, x.pgsize = PageSize(Count(call))
  PROVE  x.pgsize \in {0, 1} /\ (x.pgsize = 0 <=> Count(call) < Width)
BY PageSizes, MapNats DEF PageSize

\* The end of both fpages.
LEMMA EndReached ==
  ASSUME MapCall, NEW x, Stopped(x, x), x.pgsize = PageSize(Count(call)),
         NEW s, NEW t, IsDir(s), IsDir(t), Empty(t), MapReached(s, t, FromEnd + Shift)
  PROVE  MapInv(x, s, t)
<1>1. FromEnd + Shift = To(call) + Count(call) /\ FromEnd + Shift \in Nat
  BY MapNats DEF FromEnd, Shift
<1>2. \A a \in Addrs : FromEnd + Shift <= a => a \notin Window(call)
  BY <1>1, MapNats, AddrNat
<1>3. \A a \in Addrs : Shows(t, a) /\ Granted(s, a)
  BY <1>1, <1>2, ReachedEnd
<1> QED BY <1>3 DEF MapInv, Stopped

\* Both sides go on in their page tables, up, or to the end
LEMMA InBothMoves ==
  ASSUME MapCall, NEW x \in MapLocals, x.pgsize = PageSize(Count(call)),
         NEW s, NEW t, IsDir(s), IsDir(t), InBoth(x, s, t),
         NEW s2, NEW t2, IsDir(s2), IsDir(t2), Empty(t2), s2.dir = s.dir, t2.dir = t.dir,
         \A b \in Addrs : b # x.f_addr => s2.tab[b] = s.tab[b],
         \A a \in Addrs : a # x.t_addr => t2.tab[a] = t.tab[a],
         MapReached(s2, t2, x.t_addr + 1)
  PROVE  MapInv(Next_receiver_entry(x), s2, t2)
<1> DEFINE r == Next_receiver_entry(x)
           n == Count(call)
           f == x.f_addr
           v == x.t_addr
<1>0. /\ x.f_size = 0 /\ x.t_size = 0 /\ x.f_off = 0 /\ x.f_num = x.t_num /\ x.f_num >= 1
      /\ v = f + Shift /\ From(call) <= f /\ (sigma0 \/ InSender(x, s)) /\ InReceiver(x, t)
      /\ SameFrom(s, call.src, SlotOf(f) + 1, f)
  BY DEF InBoth
<1>1. sigma0 \in BOOLEAN /\ f \in Nat /\ v \in Nat /\ x.f_num \in Int /\ page_size(0) = 1
      /\ Shift \in Int /\ n \in Nat /\ Width \in Nat /\ Width >= 2 /\ FromEnd \in Nat
  BY PageSizes, MapNats DEF MapCall, sigma0, MapLocals
<1>2. x.pgsize \in {0, 1} /\ (x.pgsize = 0 <=> n < Width)
  BY Sizes
<1>3. SlotOf(f) \in Nat /\ SlotOf(v) \in Nat /\ v \in Addrs /\ SlotOf(v) \in 0 .. Slots - 1
      /\ SameFrom(t, call.dst, SlotOf(v) + 1, v) /\ x.tpg = <<0, v>>
  BY <1>0, <1>1, Split, LookupIs DEF InReceiver, SlotOf
<1> HIDE DEF f, v, n, r
<1>4. SameFrom(s2, call.src, SlotOf(f) + 1, f + 1) /\ SameFrom(t2, call.dst, SlotOf(v) + 1, v + 1)
  <2>1. \A b \in Addrs : f + 1 <= b => s2.tab[b] = s.tab[b]
    BY <1>1, AddrNat DEF f
  <2>2. \A a \in Addrs : v + 1 <= a => t2.tab[a] = t.tab[a]
    BY <1>1, AddrNat DEF v
  <2> QED BY <2>1, <2>2, <1>0, <1>1, <1>3, SameFromNext
<1>5. CASE x.f_num # 1
  <2>1. /\ r \in MapLocals /\ r.pgsize = x.pgsize /\ r.running /\ r.f_off = 0
        /\ r.f_size = 0 /\ r.t_size = 0 /\ r.f_num = x.f_num - 1 /\ r.t_num = x.f_num - 1
        /\ r.f_addr = f + 1 /\ r.t_addr = v + 1
        /\ r.tpg = <<x.tpg[1], x.tpg[2] + 1>> /\ (~sigma0 => r.fpg = <<x.fpg[1], x.fpg[2] + 1>>)
        /\ r.r_fpg = x.r_fpg /\ r.r_fnum = x.r_fnum /\ r.r_tpg = x.r_tpg /\ r.r_tnum = x.r_tnum
    BY <1>0, <1>1, <1>5, BothNext DEF r, f, v
  <2>2. /\ SlotOf(f + 1) = SlotOf(f) /\ SlotOf(v + 1) = SlotOf(v)
        /\ x.pgsize = 1 => (f + 1) % Width = (f % Width) + 1 /\ (v + 1) % Width = (v % Width) + 1
    <3>1. CASE x.pgsize = 0
      <4>1. f + x.f_num = FromEnd /\ From(call) <= f
        BY <3>1, <1>0 DEF InBoth, f
      <4>2. PICK i \in Nat : f = From(call) + i /\ v = To(call) + i
        <5>1. From(call) \in Nat /\ To(call) \in Nat /\ Shift = To(call) - From(call)
          BY MapNats DEF Shift
        <5>2. PICK i \in Nat : i = f - From(call)
          BY <4>1, <1>1, <5>1
        <5>3. f = From(call) + i
          BY <5>1, <5>2, <1>1
        <5>4. v = To(call) + i
          BY <5>1, <5>3, <1>0, <1>1
        <5> QED BY <5>3, <5>4
      <4>3. i \in 0 .. n - 1 /\ i + 1 \in 0 .. n - 1 /\ From(call) \in Nat /\ To(call) \in Nat
        BY <4>1, <4>2, <1>0, <1>1, <1>5, MapNats DEF FromEnd, n
      <4>4. /\ SlotOf(From(call) + i) = SlotOf(From(call)) /\ SlotOf(From(call) + (i + 1)) = SlotOf(From(call))
            /\ SlotOf(To(call) + i) = SlotOf(To(call)) /\ SlotOf(To(call) + (i + 1)) = SlotOf(To(call))
        BY <4>3, <1>2, <3>1, PartWindow DEF n
      <4>5. f + 1 = From(call) + (i + 1) /\ v + 1 = To(call) + (i + 1)
        BY <4>2, <4>3
      <4> QED BY <4>2, <4>4, <4>5, <3>1
    <3>2. CASE x.pgsize = 1
      <4>1. x.f_num = Width - (f % Width) /\ (f % Width) = (v % Width)
        BY <3>2 DEF InBoth, Rest, f, v
      <4>2. (f % Width) \in Nat /\ (f % Width) < Width - 1 /\ (v % Width) < Width - 1
        BY <4>1, <1>0, <1>1, <1>5, Split
      <4> QED BY <4>2, <1>1, Successor DEF SlotOf
    <3> QED BY <3>1, <3>2, <1>2
  <2>3. v + 1 \in Addrs
    BY <2>2, <1>1, <1>3, InDirectory DEF SlotOf
  <2>4. InReceiver(r, t2)
    <3>1. r.tpg = <<0, v + 1>>
      BY <2>1, <1>3
    <3> QED BY <3>1, <2>1, <2>2, <2>3, <1>0, <1>3, <1>4 DEF InReceiver, v
  <2>5. sigma0 \/ InSender(r, s2)
    <3> SUFFICES ASSUME ~sigma0 PROVE InSender(r, s2)
      OBVIOUS
    <3>1. InSender(x, s) /\ f \in Addrs /\ x.fpg = <<0, f>>
      BY <1>0 DEF InSender, f
    <3>2. r.fpg = <<0, f + 1>>
      BY <2>1, <3>1
    <3>3. f + 1 \in Addrs
      BY <2>2, <3>1, <1>1, InDirectory DEF SlotOf
    <3> QED BY <3>1, <3>2, <3>3, <2>1, <2>2 DEF InSender, f
  <2>6. r.t_addr = r.f_addr + Shift /\ r.f_num >= 1 /\ r.f_num = r.t_num /\ From(call) <= r.f_addr
    BY <2>1, <1>0, <1>1, <1>5, MapNats
  <2>7. IF r.pgsize = 0 THEN r.f_addr + r.f_num = FromEnd
        ELSE /\ ~sigma0 /\ Rest(r) /\ (r.f_addr % Width) = (r.t_addr % Width)
             /\ r.r_tpg = <<1, SlotOf(r.t_addr) + 1>> /\ r.r_tnum = r.r_fnum /\ r.r_fnum >= 0
    <3>1. CASE x.pgsize = 0
      <4>1. f + x.f_num = FromEnd /\ From(call) <= f
        BY <3>1, <1>0 DEF InBoth, f
      <4> QED BY <4>1, <3>1, <2>1, <1>1, MapNats
    <3>2. CASE x.pgsize = 1
      <4>1. /\ ~sigma0 /\ x.r_fpg = <<1, SlotOf(f) + 1>> /\ x.f_num = Width - (f % Width)
            /\ (SlotOf(f) + 1) * Width + x.r_fnum * Width = FromEnd
            /\ (f % Width) = (v % Width)
            /\ x.r_tpg = <<1, SlotOf(v) + 1>> /\ x.r_tnum = x.r_fnum /\ x.r_fnum >= 0
        BY <3>2 DEF InBoth, Rest, f, v
      <4>2. x.f_num - 1 = Width - ((f % Width) + 1)
        BY <4>1, <1>1, Split
      <4>3. Rest(r)
        BY <4>1, <4>2, <2>1, <2>2, <3>2 DEF Rest
      <4> QED BY <4>1, <4>3, <2>1, <2>2, <3>2
    <3> QED BY <3>1, <3>2, <1>2, <2>1
  <2>8. SameFrom(s2, call.src, SlotOf(r.f_addr) + 1, r.f_addr) /\ MapReached(s2, t2, r.t_addr)
    BY <2>1, <2>2, <1>4 DEF v
  <2>9. InBoth(r, s2, t2)
    BY <2>1, <2>4, <2>5, <2>6, <2>7, <2>8 DEF InBoth
  <2> QED BY <2>1, <2>9 DEF MapInv, MapWalking, r
<1>6. CASE x.f_num = 1 /\ x.pgsize = 0
  <2>0. x.f_size >= x.pgsize
    BY <1>0, <1>6
  <2>1. Stopped(r, x)
    BY <2>0, <1>0, <1>1, <1>6, BothNext DEF r
  <2>2. v + 1 = FromEnd + Shift
    <3>1. f + x.f_num = FromEnd
      BY <1>6 DEF InBoth, f
    <3> QED BY <3>1, <1>0, <1>1, <1>6
  <2>3. Stopped(r, r) /\ r.pgsize = PageSize(Count(call))
    BY <2>1 DEF Stopped
  <2> QED BY <2>2, <2>3, EndReached DEF r, v
<1>7. CASE x.f_num = 1 /\ x.pgsize = 1
  <2>0. x.f_size < x.pgsize
    BY <1>0, <1>7
  <2>1. /\ r \in MapLocals /\ r.pgsize = x.pgsize /\ r.f_off = 0
        /\ r.f_size = 1 /\ r.t_size = 1 /\ r.f_num = x.r_fnum /\ r.t_num = x.r_tnum
        /\ r.f_addr = f + 1 /\ r.t_addr = v + 1 /\ r.tpg = x.r_tpg /\ r.fpg = x.r_fpg
        /\ (r.running <=> x.r_fnum # 0 \/ x.r_tnum # 0)
    <3>1. x.f_size = x.t_size /\ page_size(x.f_size) = 1
      BY <1>0, <1>1
    <3>2. /\ r \in MapLocals /\ r.pgsize = x.pgsize /\ r.f_off = 0
          /\ r.f_size = 1 /\ r.t_size = 1 /\ r.f_num = x.r_fnum /\ r.t_num = x.r_tnum
          /\ r.f_addr = x.f_addr + page_size(x.f_size)
          /\ r.t_addr = x.t_addr + page_size(x.f_size)
          /\ r.tpg = x.r_tpg /\ r.fpg = x.r_fpg
          /\ (r.running <=> x.r_fnum # 0 \/ x.r_tnum # 0)
      BY <2>0, <3>1, <1>0, <1>1, <1>7, BothNext DEF r
    <3> QED BY <3>1, <3>2 DEF f, v
  <2>2. /\ x.r_fpg = <<1, SlotOf(f) + 1>> /\ x.f_num = Width - (f % Width)
        /\ (SlotOf(f) + 1) * Width + x.r_fnum * Width = FromEnd
        /\ (f % Width) = (v % Width)
        /\ x.r_tpg = <<1, SlotOf(v) + 1>> /\ x.r_tnum = x.r_fnum /\ x.r_fnum >= 0
    BY <1>7 DEF InBoth, Rest, f, v
  <2>3. (f % Width) = Width - 1 /\ (v % Width) = Width - 1
    <3>1. (f % Width) \in Nat
      BY <1>1, Split
    <3> QED BY <3>1, <2>2, <1>1, <1>7
  <2>4. /\ f + 1 = (SlotOf(f) + 1) * Width /\ SlotOf(f + 1) = SlotOf(f) + 1 /\ (f + 1) % Width = 0
        /\ SlotOf(v + 1) = SlotOf(v) + 1 /\ (v + 1) % Width = 0
    BY <2>3, <1>1, Successor DEF SlotOf
  <2>5. f + 1 + x.r_fnum * Width = FromEnd /\ v + 1 = f + 1 + Shift /\ x.r_fnum \in Int
    <3>1. x.r_fnum \in Int /\ x.r_fnum * Width \in Int
      BY <1>1 DEF MapLocals
    <3> QED BY <3>1, <2>2, <2>4, <1>0, <1>1
  <2>6. CASE ~r.running
    <3>1. x.r_fnum = 0
      BY <2>1, <2>2, <2>6
    <3>2. f + 1 = FromEnd
      BY <3>1, <2>5, <1>1
    <3>3. v + 1 = FromEnd + Shift
      BY <3>2, <2>5
    <3>4. Stopped(r, r) /\ r.pgsize = PageSize(Count(call))
      BY <2>1, <2>6 DEF Stopped
    <3> QED BY <3>3, <3>4, EndReached DEF r, v
  <2>7. CASE r.running
    <3>1. r.f_num >= 1 /\ r.f_num = r.t_num /\ From(call) <= r.f_addr
      BY <2>1, <2>2, <2>5, <2>7, <1>0, <1>1, MapNats
    <3>2. AtBoth(r, s2, t2)
      BY <3>1, <2>1, <2>2, <2>4, <2>5, <1>4, <1>7 DEF AtBoth, v
    <3> QED BY <3>2, <2>1, <2>7 DEF MapInv, MapWalking, r
  <2> QED BY <2>6, <2>7
<1> QED BY <1>2, <1>5, <1>6, <1>7 DEF r

\* or on to the next directory entries
LEMMA AtBothMoves ==
  ASSUME MapCall, NEW x \in MapLocals, x.pgsize = PageSize(Count(call)), x.pgsize = 1,
         NEW s, NEW t, AtBoth(x, s, t), NEW s2, NEW t2, IsDir(s2), IsDir(t2), Empty(t2),
         \A k \in 0 .. Slots - 1 : k # SlotOf(x.f_addr) => s2.dir[k] = s.dir[k],
         \A k \in 0 .. Slots - 1 : k # SlotOf(x.t_addr) => t2.dir[k] = t.dir[k],
         \A b \in Addrs : SlotOf(b) # SlotOf(x.f_addr) => s2.tab[b] = s.tab[b],
         \A a \in Addrs : SlotOf(a) # SlotOf(x.t_addr) => t2.tab[a] = t.tab[a],
         MapReached(s2, t2, x.t_addr + Width)
  PROVE  MapInv(Next_receiver_entry(x), s2, t2)
<1> DEFINE r == Next_receiver_entry(x)
           f == x.f_addr
           v == x.t_addr
<1>0. /\ x.f_size = 1 /\ x.t_size = 1 /\ x.f_off = 0 /\ x.f_num = x.t_num /\ x.f_num >= 1
      /\ v = f + Shift /\ From(call) <= f /\ (sigma0 \/ x.fpg = <<1, SlotOf(f)>>) /\ x.tpg = <<1, SlotOf(v)>>
      /\ (f % Width) = 0 /\ (v % Width) = 0 /\ f + x.f_num * Width = FromEnd
      /\ SameFrom(s, call.src, SlotOf(f), f) /\ SameFrom(t, call.dst, SlotOf(v), v)
  BY DEF AtBoth
<1>1. sigma0 \in BOOLEAN /\ f \in Nat /\ v \in Nat /\ x.f_num \in Int /\ page_size(1) = Width
      /\ Shift \in Int /\ Width \in Nat /\ Width >= 2 /\ FromEnd \in Nat
  BY PageSizes, MapNats DEF MapCall, sigma0, MapLocals
<1> HIDE DEF f, v, r
<1>2. /\ SlotOf(f + Width) = SlotOf(f) + 1 /\ (f + Width) % Width = 0 /\ SlotOf(f) \in Nat
      /\ SlotOf(v + Width) = SlotOf(v) + 1 /\ (v + Width) % Width = 0 /\ SlotOf(v) \in Nat
      /\ \A a \in Nat : SlotOf(a) = SlotOf(f) <=> f <= a /\ a < f + Width
      /\ \A a \in Nat : SlotOf(a) = SlotOf(v) <=> v <= a /\ a < v + Width
  BY <1>0, <1>1, UnderEntry, Split DEF SlotOf
<1>3. SameFrom(s2, call.src, SlotOf(f) + 1, f + Width) /\ SameFrom(t2, call.dst, SlotOf(v) + 1, v + Width)
  <2>1. \A b \in Addrs : f + Width <= b => s2.tab[b] = s.tab[b]
    BY <1>1, <1>2, AddrNat DEF f
  <2>2. \A a \in Addrs : v + Width <= a => t2.tab[a] = t.tab[a]
    BY <1>1, <1>2, AddrNat DEF v
  <2>3. \A k \in 0 .. Slots - 1 : SlotOf(f) + 1 <= k => s2.dir[k] = s.dir[k]
    BY <1>2 DEF f
  <2>4. \A k \in 0 .. Slots - 1 : SlotOf(v) + 1 <= k => t2.dir[k] = t.dir[k]
    BY <1>2 DEF v
  <2> QED BY <2>1, <2>2, <2>3, <2>4, <1>0, <1>1, <1>2, SameFromNext
<1>4. x.f_num * Width \in Int /\ (x.f_num - 1) * Width = x.f_num * Width - 1 * Width
  BY <1>1, Distributive
<1>5. CASE x.f_num # 1
  <2>1. /\ r \in MapLocals /\ r.pgsize = x.pgsize /\ r.running /\ r.f_off = 0
        /\ r.f_size = 1 /\ r.t_size = 1 /\ r.f_num = x.f_num - 1 /\ r.t_num = x.f_num - 1
        /\ r.f_addr = f + Width /\ r.t_addr = v + Width
        /\ r.tpg = <<x.tpg[1], x.tpg[2] + 1>> /\ (~sigma0 => r.fpg = <<x.fpg[1], x.fpg[2] + 1>>)
    BY <1>0, <1>1, <1>5, BothNext DEF r, f, v
  <2>2. r.tpg = <<1, SlotOf(v) + 1>> /\ (sigma0 \/ r.fpg = <<1, SlotOf(f) + 1>>)
    BY <2>1, <1>0
  <2>3. r.t_addr = r.f_addr + Shift /\ r.f_num >= 1 /\ r.f_num = r.t_num /\ From(call) <= r.f_addr
    BY <2>1, <1>0, <1>1, <1>5, MapNats
  <2>4. r.f_addr + r.f_num * Width = FromEnd
    BY <2>1, <1>0, <1>1, <1>4
  <2>5. AtBoth(r, s2, t2)
    BY <2>1, <2>2, <2>3, <2>4, <1>2, <1>3 DEF AtBoth, v
  <2> QED BY <2>1, <2>5 DEF MapInv, MapWalking, r
<1>6. CASE x.f_num = 1
  <2>1. Stopped(r, x)
    <3>1. x.f_size >= x.pgsize
      BY <1>0
    <3> QED BY <3>1, <1>0, <1>1, <1>6, BothNext DEF r
  <2>2. v + Width = FromEnd + Shift
    BY <1>0, <1>1, <1>6
  <2>3. Stopped(r, r) /\ r.pgsize = PageSize(Count(call))
    BY <2>1 DEF Stopped
  <2> QED BY <2>2, <2>3, EndReached DEF r, v
<1> QED BY <1>5, <1>6

\* or to the next part of a large page.
LEMMA InPartsMoves ==
  ASSUME MapCall, NEW x \in MapLocals, x.pgsize = PageSize(Count(call)), x.f_num = 1,
         NEW s, NEW t, InParts(x, s, t), NEW t2, IsDir(s), IsDir(t2), Empty(t2), t2.dir = t.dir,
         \A a \in Addrs : a # x.t_addr => t2.tab[a] = t.tab[a],
         MapReached(s, t2, x.t_addr + 1)
  PROVE  MapInv(Next_receiver_entry(x), s, t2)
<1> DEFINE r == Next_receiver_entry(x)
           n == Count(call)
           v == x.t_addr
<1>0. /\ ~sigma0 /\ x.pgsize = 0 /\ x.f_size = 1 /\ x.t_size = 0 /\ x.f_addr = From(call)
      /\ x.fpg = <<1, SlotOf(x.f_addr)>> /\ x.f_addr \in Addrs
      /\ call.src.dir[SlotOf(x.f_addr)].kind = "page" /\ SameFrom(s, call.src, SlotOf(x.f_addr), x.f_addr)
      /\ v = To(call) + x.f_off /\ x.t_num + x.f_off = n /\ x.t_num >= 1 /\ InReceiver(x, t)
  BY DEF InParts
<1>1. v \in Nat /\ x.f_off \in Nat /\ x.t_num \in Int /\ n \in Nat /\ To(call) \in Nat /\ From(call) \in Nat
      /\ Width \in Nat /\ n < Width /\ Shift = To(call) - From(call) /\ FromEnd = From(call) + n
  BY <1>0, Sizes, PageSizes, MapNats DEF MapLocals, Shift, FromEnd
<1>2. /\ v \in Addrs /\ x.tpg = <<0, v>> /\ t.dir[SlotOf(v)].kind = "tree"
      /\ call.dst.dir[SlotOf(v)].kind # "page" /\ SameFrom(t, call.dst, SlotOf(v) + 1, v)
  BY <1>0 DEF InReceiver
<1>3. SlotOf(v) \in Nat /\ sigma0 \in BOOLEAN
  BY <1>1, Split DEF SlotOf, MapCall, sigma0
<1> HIDE DEF v, n, r
<1>4. CASE x.t_num # 1
  <2>1. /\ r \in MapLocals /\ r.pgsize = x.pgsize /\ r.running /\ r.f_off = x.f_off + 1
        /\ r.f_size = 1 /\ r.t_size = 0 /\ r.t_num = x.t_num - 1
        /\ r.f_addr = x.f_addr /\ r.t_addr = v + 1
        /\ r.tpg = <<x.tpg[1], x.tpg[2] + 1>> /\ r.fpg = x.fpg
    BY <1>0, <1>3, <1>4, PartNext DEF r, v
  <2>2. PICK i \in 0 .. n - 1 : i = x.f_off /\ i + 1 \in 0 .. n - 1
    BY <1>0, <1>1, <1>4
  <2>3. /\ SlotOf(To(call) + i) = SlotOf(To(call)) /\ SlotOf(To(call) + (i + 1)) = SlotOf(To(call))
        /\ (To(call) + i \in Addrs => To(call) \in Addrs)
        /\ (To(call) \in Addrs => To(call) + (i + 1) \in Addrs)
    BY <2>2, <1>1, PartWindow DEF n
  <2>4. v = To(call) + i /\ v + 1 = To(call) + (i + 1)
    BY <2>2, <1>0, <1>1
  <2>5. v + 1 \in Addrs /\ SlotOf(v + 1) = SlotOf(v)
    BY <2>3, <2>4, <1>2
  <2>6. SameFrom(t2, call.dst, SlotOf(v) + 1, v + 1)
    <3>1. \A a \in Addrs : v + 1 <= a => a # v
      BY <1>1, AddrNat
    <3>2. \A a \in Addrs : v + 1 <= a => t2.tab[a] = t.tab[a]
      BY <3>1 DEF v
    <3> QED BY <3>2, <1>1, <1>2, <1>3, SameFromNext
  <2>7. r.tpg = <<0, v + 1>>
    BY <2>1, <1>2
  <2>8. InReceiver(r, t2)
    BY <2>1, <2>5, <2>6, <2>7, <1>2 DEF InReceiver
  <2>9. r.t_addr = To(call) + r.f_off /\ r.t_num + r.f_off = n /\ r.t_num >= 1
    BY <2>1, <1>0, <1>1, <1>4
  <2>10. InParts(r, s, t2)
    BY <2>1, <2>8, <2>9, <1>0 DEF InParts, v, n
  <2> QED BY <2>1, <2>10 DEF MapInv, MapWalking, r
<1>5. CASE x.t_num = 1
  <2>1. Stopped(r, x)
    BY <1>0, <1>3, <1>5, PartNext DEF r
  <2>2. v + 1 = FromEnd + Shift
    BY <1>0, <1>1, <1>5
  <2>3. Stopped(r, r) /\ r.pgsize = PageSize(Count(call))
    BY <2>1 DEF Stopped
  <2> QED BY <2>2, <2>3, EndReached DEF r, v
<1> QED BY <1>4, <1>5

(***************************************************************************)
(* The steps of map_fpage.                                                  *)
(***************************************************************************)
LEMMA MapStarts ==
  ASSUME MapCall, MapInit(call), src = call.src, dst = call.dst
  PROVE  MapInv(l, src, dst)
<1> DEFINE n == Count(call)
           z == PageSize(n)
           m == n \div page_size(z)
<1>0. /\ From(call) \in Nat /\ To(call) \in Nat /\ n \in Nat \ {0} /\ IsDir(src) /\ IsDir(dst) /\ Empty(dst)
      /\ Width \in Nat \ {0}
  BY WalkerAssumption DEF MapCall
<1>1. m \in Nat /\ m >= 1 /\ z \in {0, 1} /\ IF z = 0 THEN m = n ELSE m * Width = n
  <2>1. CASE n < Width
    <3>1. z = 0 /\ page_size(z) = 1
      BY <2>1, <1>0, PageSizes DEF PageSize
    <3> QED BY <3>1, <1>0
  <2>2. CASE ~(n < Width)
    <3>1. z = 1 /\ page_size(z) = Width /\ n >= Width
      BY <2>2, <1>0, PageSizes DEF PageSize
    <3>2. PICK k \in Nat : n = k * Width
      BY <3>1, <1>0, Multiple DEF MapCall
    <3>3. n \div Width = k
      BY <3>2, Aligned
    <3>4. k # 0
      BY <3>2, <1>0
    <3> QED BY <3>1, <3>2, <3>3, <3>4
  <2> QED BY <2>1, <2>2
<1>2. l = [running |-> TRUE, pgsize |-> z, f_size |-> 1, t_size |-> 1, f_num |-> m, t_num |-> m,
           f_addr |-> From(call), t_addr |-> To(call), f_off |-> 0,
           fpg |-> pgent(From(call)), tpg |-> pgent(To(call)),
           r_fpg |-> <<0, 0>>, r_fnum |-> 0, r_tpg |-> <<0, 0>>, r_tnum |-> 0]
  BY DEF MapInit
<1>3. /\ pgent(From(call)) = <<1, SlotOf(From(call))>> /\ pgent(To(call)) = <<1, SlotOf(To(call))>>
      /\ SlotOf(From(call)) \in Nat /\ SlotOf(To(call)) \in Nat
  BY <1>0, Split DEF pgent, SlotOf
<1> HIDE DEF z, m, n
<1>4. l \in MapLocals
  <2>1. pgent(From(call)) \in {0, 1} \X Nat /\ pgent(To(call)) \in {0, 1} \X Nat
        /\ <<0, 0>> \in {0, 1} \X Nat
    BY <1>3
  <2> QED BY <2>1, <1>0, <1>1, <1>2 DEF MapLocals
<1>5. /\ l.running /\ l.pgsize = z /\ l.f_size = 1 /\ l.t_size = 1 /\ l.f_num = m /\ l.t_num = m
      /\ l.f_addr = From(call) /\ l.t_addr = To(call) /\ l.f_off = 0
      /\ l.fpg = pgent(From(call)) /\ l.tpg = pgent(To(call))
  BY <1>2
<1>6. To(call) = From(call) + Shift /\ From(call) <= From(call) /\ (z = 1 => From(call) + m * Width = FromEnd)
  BY <1>0, <1>1 DEF Shift, FromEnd, n
<1>7. z = 1 => (From(call) % Width) = 0 /\ (To(call) % Width) = 0
  <2>1. z = 1 => n >= Width
    BY <1>0 DEF z, PageSize
  <2> QED BY <2>1 DEF MapCall, Divides, n
<1>8. SameFrom(src, call.src, SlotOf(From(call)), From(call)) /\ SameFrom(dst, call.dst, SlotOf(To(call)), To(call))
  BY DEF SameFrom
<1>9. MapReached(src, dst, To(call))
  <2>1. ASSUME NEW a \in Addrs, a < To(call) PROVE Shows(dst, a) /\ Granted(src, a)
    <3>1. a \notin Window(call)
      BY <2>1, <1>0, AddrNat, MapNats
    <3> QED BY <3>1, OldShows
  <2> QED BY <2>1 DEF MapReached
<1>10. AtBoth(l, src, dst)
  BY <1>1, <1>3, <1>5, <1>6, <1>7, <1>8, <1>9 DEF AtBoth, n
<1> QED BY <1>0, <1>4, <1>5, <1>10 DEF MapInv, MapWalking, z, n

\* Where the user area ends on one side, nothing is left to map.
LEMMA MapLeaves ==
  ASSUME MapCall, MapInv(l, src, dst), KernelArea
  PROVE  MapInv(l', src', dst')
<1>1. /\ l \in MapLocals /\ IsDir(src) /\ IsDir(dst) /\ Empty(dst) /\ MapWalking(l, src, dst)
      /\ l.pgsize = PageSize(Count(call)) /\ src' = src /\ dst' = dst
      /\ (~sigma0 /\ l.f_addr \notin Addrs) \/ l.t_addr \notin Addrs
  BY DEF KernelArea, UserArea, MapInv
<1>2. /\ l' \in MapLocals /\ ~l'.running /\ l'.pgsize = l.pgsize
  BY <1>1 DEF KernelArea, MapLocals
<1>3. AtBoth(l, src, dst)
  BY <1>1 DEF MapWalking, AtReceiver, InBoth, InParts, InSender, InReceiver
<1>4. l.t_addr = l.f_addr + Shift /\ MapReached(src, dst, l.t_addr) /\ l.t_addr \in Nat /\ l.f_addr \in Nat
      /\ Shift \in Int
  BY <1>1, <1>3, MapNats DEF AtBoth, MapLocals
<1>5. ASSUME NEW a \in Addrs, l.t_addr <= a PROVE Source(call, a).kind # "page"
  <2>1. PICK N \in Nat : N = Slots * Width
    BY WalkerAssumption
  <2>2. a \in Nat /\ a < N /\ \A b \in Nat : b \in Addrs <=> b < N
    BY <2>1, AddrNat DEF Addrs
  <2>3. ~sigma0 /\ l.f_addr \notin Addrs
    BY <2>2, <1>1, <1>4, <1>5
  <2>4. Origin(call, a) = a - Shift /\ a - Shift >= l.f_addr /\ l.f_addr >= N
    BY <2>1, <2>2, <2>3, <1>4, <1>5, MapNats
  <2>5. Origin(call, a) \notin Addrs
    BY <2>1, <2>2, <2>4, <1>4
  <2> QED BY <2>2, <2>3, <2>5, SourceIs, EntryKinds
<1>6. \A a \in Addrs : Shows(dst, a) /\ Granted(src, a)
  BY <1>4, <1>5, ReachedEnd
<1> QED BY <1>1, <1>2, <1>6 DEF MapInv

\* What the sender has: in a page table
LEMMA SmallSource ==
  ASSUME MapCall, ~sigma0, NEW f \in Addrs, call.src.dir[SlotOf(f)].kind = "tree", f + Shift \in Nat,
         NEW s, SameFrom(s, call.src, SlotOf(f) + 1, f)
  PROVE  /\ s.tab[f] = call.src.tab[f] /\ Source(call, f + Shift) = call.src.tab[f]
         /\ Origin(call, f + Shift) = f
<1>1. f \in Nat /\ Shift \in Int
  BY AddrNat, MapNats
<1>2. s.tab[f] = call.src.tab[f]
  BY <1>1 DEF SameFrom
<1>3. Origin(call, f + Shift) = f
  BY <1>1, MapNats
<1>4. PICK a \in Nat : a = f + Shift
  OBVIOUS
<1>5. Origin(call, a) \in Addrs
  BY <1>3, <1>4
<1>6. Source(call, a) = lookup(call.src, Origin(call, a))
  BY <1>5, SourceIs
<1>7. lookup(call.src, f) = call.src.tab[f]
  BY LookupIs DEF MapCall
<1> QED BY <1>2, <1>3, <1>4, <1>6, <1>7

\* and under a directory entry.
LEMMA LargeSource ==
  ASSUME MapCall, ~sigma0, NEW f \in Addrs, NEW s, SameFrom(s, call.src, SlotOf(f), f), NEW a \in Nat,
         a - Shift \in Nat, SlotOf(a - Shift) = SlotOf(f)
  PROVE  LET e == call.src.dir[SlotOf(f)] IN
         /\ s.dir[SlotOf(f)] = e /\ Origin(call, a) = a - Shift /\ Origin(call, a) \in Addrs
         /\ e \in Entries \cup {Tree}
         /\ e.kind = "none" => Source(call, a) = None
         /\ e.kind = "page" => Source(call, a) = Page(e.frame + ((a - Shift) % Width), e.w)
<1>1. SlotOf(f) \in 0 .. Slots - 1 /\ call.src.dir[SlotOf(f)] \in Entries \cup {Tree}
  BY LookupIs DEF MapCall
<1>2. Origin(call, a) = a - Shift
  BY MapNats
<1>3. a - Shift \in Addrs
  BY <1>1, InDirectory DEF SlotOf
<1>4. s.dir[SlotOf(f)] = call.src.dir[SlotOf(f)]
  BY <1>1 DEF SameFrom
<1>5. Source(call, a) = lookup(call.src, a - Shift) /\ IsDir(call.src)
  BY <1>2, <1>3, SourceIs DEF MapCall
<1>6. LET e == call.src.dir[SlotOf(f)] IN
      /\ e.kind = "none" => lookup(call.src, a - Shift) = None
      /\ e.kind = "page" => lookup(call.src, a - Shift) = Page(e.frame + ((a - Shift) % Width), e.w)
  BY <1>3, <1>5, LookupIs
<1> QED BY <1>1, <1>2, <1>3, <1>4, <1>5, <1>6

\* The addresses that a directory entry of each side is for.
LEMMA SlotShift ==
  ASSUME MapCall, NEW f \in Nat, NEW v \in Nat, v = f + Shift, (f % Width) = 0, (v % Width) = 0,
         NEW a \in Nat, v <= a, a < v + Width
  PROVE  a - Shift \in Nat /\ SlotOf(a - Shift) = SlotOf(f) /\ SlotOf(a) = SlotOf(v)
         /\ (a - Shift) % Width = a - v /\ (a % Width) = a - v
<1>1. Shift \in Int /\ Width \in Nat
  BY MapNats, PageSizes
<1>2. a - Shift \in Nat /\ f <= a - Shift /\ a - Shift < f + Width
  BY <1>1
<1>3. SlotOf(a - Shift) = SlotOf(f) /\ SlotOf(a) = SlotOf(v)
  BY <1>2, UnderEntry
<1>4. PICK i \in 0 .. Width - 1 : i = a - v
  BY <1>1
<1>5. a = v + i /\ a - Shift = f + i
  BY <1>1, <1>4
<1>6. (v % Width) + Width <= Width /\ (f % Width) + Width <= Width
  BY <1>1
<1>7. (v + i) % Width = (v % Width) + i /\ (f + i) % Width = (f % Width) + i
  BY <1>1, <1>4, <1>6, WithinSlot
<1>8. (v + i) % Width = i /\ (f + i) % Width = i
  BY <1>7
<1> QED BY <1>2, <1>3, <1>4, <1>5, <1>8

\* Of several small pages the sender has the first.
LEMMA FirstMissing ==
  ASSUME MapCall, RegularMap, ~sigma0, Count(call) < Width, From(call) \in Addrs, To(call) \in Addrs,
         Source(call, To(call)).kind # "page"
  PROVE  Count(call) = 1
<1>1. To(call) \in Window(call) \cap Addrs /\ Origin(call, To(call)) = From(call)
  <2>1. To(call) \in Nat /\ From(call) \in Nat /\ Count(call) \in Nat /\ Count(call) >= 1
    BY MapNats
  <2>2. To(call) \in Window(call)
    BY <2>1 DEF Window, Fpage
  <2> QED BY <2>1, <2>2 DEF Origin
<1>2. Count(call) \notin 2 .. Width - 1
  BY <1>1 DEF RegularMap
<1> QED BY <1>2, MapNats, PageSizes

\* The address of the receiver that the sender is at, where it waits for the receiver.
LEMMA Awaited ==
  ASSUME MapCall, NEW x \in MapLocals, x.pgsize = PageSize(Count(call)), NEW s, NEW t, AtReceiver(x, s, t)
  PROVE  /\ x.f_addr + Shift \in Window(call) \cap Addrs /\ x.f_addr + Shift \in Nat
         /\ SlotOf(x.f_addr + Shift) = SlotOf(x.t_addr)
<1> DEFINE f == x.f_addr
           v == x.t_addr
           n == Count(call)
<1>1. /\ f \in Addrs /\ v \in Addrs /\ f \in Nat /\ v \in Nat /\ From(call) <= f
      /\ Shift \in Int /\ Width \in Nat /\ Width >= 2 /\ n \in Nat /\ n >= 1
      /\ From(call) \in Nat /\ To(call) \in Nat
      /\ x.pgsize \in {0, 1} /\ (x.pgsize = 0 <=> n < Width) /\ SlotOf(f) \in Nat /\ (f % Width) \in 0 .. Width - 1
      /\ Shift = To(call) - From(call) /\ FromEnd = From(call) + n
  BY AddrNat, MapNats, PageSizes, Sizes, Split DEF SlotOf, Shift, FromEnd, AtReceiver, InSender
<1> HIDE DEF f, v, n
<1>2. PICK u \in Int : u = f + Shift
  BY <1>1
<1>3. CASE x.pgsize = 0
  <2>1. f = From(call) /\ v = To(call)
    BY <1>3 DEF AtReceiver, f, v
  <2>2. u = v /\ To(call) <= u /\ u < To(call) + n
    BY <2>1, <1>1, <1>2
  <2> QED BY <2>2, <1>1, <1>2, MapNats DEF f, v, n
<1>4. CASE x.pgsize = 1
  <2>1. (v % Width) = 0 /\ v + (f % Width) = u /\ (SlotOf(f) + 1) * Width + x.r_fnum * Width = FromEnd
        /\ x.r_fnum >= 0
    BY <1>2, <1>4 DEF AtReceiver, Rest, f, v
  <2>2. PICK p \in Nat : p = x.r_fnum * Width
    <3>1. x.r_fnum \in Nat
      BY <2>1 DEF MapLocals
    <3> QED BY <3>1, Aligned
  <2>3. f < (SlotOf(f) + 1) * Width /\ (SlotOf(f) + 1) * Width \in Nat
    <3>1. SlotOf(f) + 1 \in Nat /\ SlotOf(f) < SlotOf(f) + 1
      BY <1>1
    <3> QED BY <3>1, <1>1, UnderIs, Aligned DEF SlotOf
  <2>4. To(call) <= u /\ u < To(call) + n
    BY <2>1, <2>2, <2>3, <1>1, <1>2
  <2>5. v <= u /\ u < v + Width /\ u \in Nat
    BY <2>1, <1>1, <1>2
  <2>6. SlotOf(u) = SlotOf(v)
    BY <2>1, <2>5, <1>1, UnderEntry
  <2>7. u \in Addrs
    BY <2>5, <2>6, <1>1, InDirectory DEF SlotOf
  <2> QED BY <2>4, <2>5, <2>6, <2>7, <1>2, MapNats DEF f, v, n
<1> QED BY <1>1, <1>3, <1>4

\* Where the sender has nothing, both sides go on together, or the receiver waits above.
LEMMA MapSkips ==
  ASSUME MapCall, RegularMap, MapInv(l, src, dst), SenderInvalid
  PROVE  MapInv(l', src', dst')
<1> DEFINE f == l.f_addr
           v == l.t_addr
           n == Count(call)
<1>1. /\ l \in MapLocals /\ IsDir(src) /\ IsDir(dst) /\ Empty(dst) /\ MapWalking(l, src, dst)
      /\ l.pgsize = PageSize(n) /\ src' = src /\ dst' = dst
      /\ ~sigma0 /\ f \in Addrs /\ v \in Addrs /\ ~is_valid(src, l.fpg)
  BY DEF SenderInvalid, Mapping, UserArea, MapInv
<1>2. /\ f \in Nat /\ v \in Nat /\ Shift \in Int /\ Width \in Nat /\ Width >= 2 /\ n \in Nat
      /\ From(call) \in Nat /\ To(call) \in Nat
      /\ l.pgsize \in {0, 1} /\ (l.pgsize = 0 <=> n < Width) /\ SlotOf(f) \in Nat
      /\ Shift = To(call) - From(call) /\ FromEnd = From(call) + n /\ n >= 1
  BY <1>1, AddrNat, MapNats, PageSizes, Sizes, Split DEF SlotOf, Shift, FromEnd
<1>3. /\ l.t_size = l.f_size => l' = Next_receiver_entry(l)
      /\ l.t_size > l.f_size => l' = Next_sender_entry(l)
  <2>1. l.t_size \in {0, 1} /\ l.f_size \in {0, 1}
    BY <1>1 DEF MapLocals
  <2>2. l.t_size >= l.f_size => ~(l.t_size < l.f_size)
    BY <2>1
  <2> QED BY <2>1, <2>2 DEF SenderInvalid
<1>4. sigma0 \in BOOLEAN
  BY DEF MapCall, sigma0
<1> HIDE DEF f, v, n
<1>5. CASE AtBoth(l, src, dst)
  <2>1. /\ l.f_size = 1 /\ l.t_size = 1 /\ l.f_num = l.t_num /\ v = f + Shift /\ l.fpg = <<1, SlotOf(f)>>
        /\ SameFrom(src, call.src, SlotOf(f), f) /\ MapReached(src, dst, v)
    BY <1>1, <1>5 DEF AtBoth, f, v
  <2>2. l' = Next_receiver_entry(l)
    BY <2>1, <1>3
  <2>3. src.dir[SlotOf(f)].kind = "none"
    BY <2>1, <1>1 DEF is_valid, Entry
  <2>4. ASSUME NEW a \in Nat, a - Shift \in Nat, SlotOf(a - Shift) = SlotOf(f)
        PROVE  Source(call, a).kind # "page"
    BY <2>1, <2>3, <2>4, <1>1, LargeSource, EntryKinds
  <2>5. CASE l.pgsize = 1
    <3>1. (f % Width) = 0 /\ (v % Width) = 0
      BY <2>5, <1>5 DEF AtBoth, f, v
    <3>2. ASSUME NEW a \in Addrs, v <= a, a < v + Width PROVE Source(call, a).kind # "page"
      <4>1. a \in Nat
        BY AddrNat
      <4>2. a - Shift \in Nat /\ SlotOf(a - Shift) = SlotOf(f)
        BY <4>1, <3>1, <3>2, <2>1, <1>2, SlotShift
      <4> QED BY <4>1, <4>2, <2>4
    <3>3. MapReached(src, dst, v + Width)
      BY <3>2, <2>1, <1>2, ReachedOver
    <3> QED BY <3>3, <2>2, <2>5, <1>1, <1>5, AtBothMoves DEF n, v
  <2>6. CASE l.pgsize = 0
    <3>1. f = From(call) /\ l.f_num = n
      BY <2>6, <1>5 DEF AtBoth, f, n
    <3>2. v = To(call)
      BY <3>1, <2>1, <1>2
    <3>3. v - Shift = f
      BY <2>1, <1>2
    <3>4. Source(call, v).kind # "page"
      BY <3>3, <2>4, <1>2
    <3>5. n = 1
      BY <3>1, <3>2, <3>4, <2>6, <1>1, <1>2, FirstMissing DEF n
    <3>6. Stopped(l', l)
      <4>1. l.f_num = 1 /\ l.f_size >= l.pgsize /\ l.f_size = l.t_size
        BY <3>1, <3>5, <2>1, <2>6
      <4> QED BY <4>1, <2>1, <2>2, <1>1, <1>4, BothNext
    <3>7. MapReached(src, dst, v + 1)
      <4>1. \A a \in Addrs : v <= a /\ a < v + 1 => a = v
        BY <1>2, AddrNat
      <4> QED BY <4>1, <3>4, <2>1, <1>2, ReachedOver
    <3>8. FromEnd + Shift = v + 1
      BY <3>1, <3>2, <3>5, <1>2
    <3>9. Stopped(l', l') /\ l'.pgsize = PageSize(Count(call))
      BY <3>6, <1>1 DEF Stopped, n
    <3> QED BY <3>7, <3>8, <3>9, <1>1, EndReached
  <2> QED BY <2>5, <2>6, <1>2
<1>6. CASE AtReceiver(l, src, dst)
  <2>1. /\ l.f_size = 0 /\ l.t_size = 1 /\ l.f_off = 0 /\ InSender(l, src) /\ l.tpg = <<1, SlotOf(v)>>
        /\ From(call) <= f /\ SameFrom(src, call.src, SlotOf(f) + 1, f)
        /\ SameFrom(dst, call.dst, SlotOf(v), v) /\ MapReached(src, dst, f + Shift)
        /\ l.fpg = <<0, f>> /\ call.src.dir[SlotOf(f)].kind = "tree" /\ src.dir[SlotOf(f)].kind = "tree"
    BY <1>6 DEF AtReceiver, f, v, InSender
  <2>2. l' = Next_sender_entry(l)
    BY <2>1, <1>3
  <2>3. PICK u \in Nat : u = f + Shift
    BY <2>1, <1>2
  <2>4. src.tab[f] = call.src.tab[f] /\ Source(call, u) = call.src.tab[f] /\ Origin(call, u) = f
    BY <2>1, <2>3, <1>1, SmallSource
  <2>5. call.src.tab[f].kind = "none" /\ call.src.tab[f] = None
    <3>1. src.tab[f] \in Entries /\ src.tab[f].kind = "none"
      BY <2>1, <1>1, NoDeeper, LookupIs DEF is_valid
    <3> QED BY <3>1, <2>4, EntryKinds
  <2>6. MapReached(src, dst, u + 1)
    <3>1. \A a \in Addrs : u <= a /\ a < u + 1 => a = u
      BY <2>3, AddrNat
    <3> QED BY <3>1, <2>1, <2>3, <2>4, <2>5, ReachedOver
  <2>7. CASE l.pgsize = 0
    <3>1. f = From(call) /\ l.f_num = n /\ v = To(call)
      BY <2>7, <1>6 DEF AtReceiver, f, n, v
    <3>2. u = To(call)
      BY <3>1, <2>3, <1>2
    <3>3. n = 1
      BY <3>1, <3>2, <2>4, <2>5, <2>7, <1>1, <1>2, FirstMissing DEF n
    <3>4. Stopped(l', l)
      <4>1. l.f_num = 1 /\ l.f_size >= l.pgsize
        BY <3>1, <3>3, <2>1, <2>7
      <4> QED BY <4>1, <2>2, <1>1, <1>4, SenderNext
    <3>5. FromEnd + Shift = u + 1
      BY <3>1, <3>2, <3>3, <1>2
    <3>6. Stopped(l', l') /\ l'.pgsize = PageSize(Count(call))
      BY <3>4, <1>1 DEF Stopped, n
    <3> QED BY <2>6, <3>5, <3>6, <1>1, EndReached
  <2>8. CASE l.pgsize = 1
    <3>1. /\ (v % Width) = 0 /\ v + (f % Width) = f + Shift
          /\ l.r_fpg = <<1, SlotOf(f) + 1>> /\ l.f_num = Width - (f % Width)
          /\ (SlotOf(f) + 1) * Width + l.r_fnum * Width = FromEnd
          /\ l.t_num = l.r_fnum + 1 /\ l.r_fnum >= 0
          /\ \A b \in Addrs : SlotOf(b) = SlotOf(f) /\ b < f => call.src.tab[b] = None
      BY <2>8, <1>6 DEF AtReceiver, Rest, f, v
    <3>2. (f % Width) \in 0 .. Width - 1
      BY <1>2, Split
    <3>3. CASE l.f_num = 1
      <4>1. (f % Width) = Width - 1
        BY <3>1, <3>2, <3>3, <1>2
      <4>2. f + 1 = (SlotOf(f) + 1) * Width
        BY <4>1, <1>2, Successor DEF SlotOf
      <4>3. u \in Window(call) /\ u \in Addrs
        BY <2>3, <1>1, <1>6, Awaited DEF f, n
      <4>5. PICK b \in Under(pgent(f)) : call.src.tab[b].kind # "none"
        <5>1. n >= Width
          BY <2>8, <1>2
        <5> QED BY <5>1, <4>3, <2>1, <2>4, <1>1 DEF RegularMap, n
      <4>6. b \in Nat /\ SlotOf(b) = SlotOf(f)
        <5>1. b \in SlotOf(f) * Width .. (SlotOf(f) + 1) * Width - 1
          BY <4>5 DEF Under, pgent, SlotOf
        <5>2. b \in Nat
          BY <5>1, <1>2, Aligned
        <5> QED BY <5>1, <5>2, <1>2, UnderIs DEF SlotOf
      <4>7. b \in Addrs
        BY <4>6, <1>1, <1>2, InDirectory DEF SlotOf
      <4>8. b <= f
        <5>1. b < (SlotOf(f) + 1) * Width
          BY <4>6, <1>2, UnderIs DEF SlotOf
        <5> QED BY <5>1, <4>2, <4>6, <1>2
      <4> QED BY <4>5, <4>6, <4>7, <4>8, <3>1, <2>5, <1>2, EntryKinds
    <3>4. CASE l.f_num # 1
      <4>1. /\ SenderKeeps(l', l) /\ l'.running /\ l'.f_num = l.f_num - 1 /\ l'.f_size = l.f_size
            /\ l'.t_size = l.t_size /\ l'.t_num = l.t_num /\ l'.tpg = l.tpg
            /\ l'.fpg = <<l.fpg[1], l.fpg[2] + 1>>
        BY <3>4, <2>2, <1>1, <1>4, SenderNext
      <4>2. /\ l' \in MapLocals /\ l'.pgsize = l.pgsize /\ l'.f_off = 0 /\ l'.f_addr = f + 1
            /\ l'.t_addr = v /\ l'.r_fpg = l.r_fpg /\ l'.r_fnum = l.r_fnum /\ l'.fpg = <<0, f + 1>>
        BY <4>1, <2>1, PageSizes DEF SenderKeeps, f, v
      <4>3. (f % Width) < Width - 1
        BY <3>1, <3>2, <3>4, <1>2
      <4>4. SlotOf(f + 1) = SlotOf(f) /\ (f + 1) % Width = (f % Width) + 1
        BY <4>3, <1>2, Successor DEF SlotOf
      <4>5. f + 1 \in Addrs
        BY <4>4, <1>1, <1>2, InDirectory DEF SlotOf
      <4>6. InSender(l', src)
        BY <4>2, <4>4, <4>5, <2>1 DEF InSender
      <4>7. Rest(l')
        <5>1. l'.f_num = Width - ((f % Width) + 1)
          BY <4>1, <3>1, <3>2, <1>2
        <5> QED BY <5>1, <4>2, <4>4, <3>1 DEF Rest
      <4>8. SameFrom(src, call.src, SlotOf(f + 1) + 1, f + 1)
        BY <4>4, <2>1, <1>2, SameFromNext
      <4>9. \A b \in Addrs : SlotOf(b) = SlotOf(f + 1) /\ b < f + 1 => call.src.tab[b] = None
        BY <4>4, <3>1, <2>5, <1>2, AddrNat
      <4>10. v + ((f + 1) % Width) = f + 1 + Shift /\ f + 1 + Shift = u + 1 /\ From(call) <= f + 1
        BY <4>4, <3>1, <3>2, <2>1, <2>3, <1>2
      <4>11. AtReceiver(l', src, dst)
        BY <4>1, <4>2, <4>6, <4>7, <4>8, <4>9, <4>10, <3>1, <2>1, <2>6, <2>8, <1>1 DEF AtReceiver
      <4> QED BY <4>1, <4>2, <4>11, <1>1 DEF MapInv, MapWalking, n
    <3> QED BY <3>3, <3>4
  <2> QED BY <2>7, <2>8, <1>2
<1>7. CASE InBoth(l, src, dst)
  <2>1. /\ l.f_size = 0 /\ l.t_size = 0 /\ v = f + Shift /\ SameFrom(src, call.src, SlotOf(f) + 1, f)
        /\ MapReached(src, dst, v) /\ InSender(l, src)
        /\ l.fpg = <<0, f>> /\ call.src.dir[SlotOf(f)].kind = "tree"
    BY <1>1, <1>7 DEF InBoth, InSender, f, v
  <2>2. l' = Next_receiver_entry(l)
    BY <2>1, <1>3
  <2>3. src.tab[f] = call.src.tab[f] /\ Source(call, v) = call.src.tab[f]
    BY <2>1, <1>1, <1>2, SmallSource
  <2>4. src.tab[f].kind = "none"
    BY <2>1, <1>1, NoDeeper DEF is_valid
  <2>5. MapReached(src, dst, v + 1)
    <3>1. \A a \in Addrs : v <= a /\ a < v + 1 => a = v
      BY <1>2, AddrNat
    <3> QED BY <3>1, <2>1, <2>3, <2>4, <1>2, ReachedOver
  <2> QED BY <2>2, <2>5, <1>1, <1>7, InBothMoves DEF n, v
<1>8. CASE InParts(l, src, dst)
  <2>1. l.fpg = <<1, SlotOf(f)>> /\ SameFrom(src, call.src, SlotOf(f), f) /\ call.src.dir[SlotOf(f)].kind = "page"
    BY <1>8 DEF InParts, f
  <2>2. src.dir[SlotOf(f)] = call.src.dir[SlotOf(f)]
    BY <2>1, <1>1, <1>2, LookupIs DEF SameFrom
  <2> QED BY <2>1, <2>2, <1>1 DEF is_valid, Entry
<1> QED BY <1>1, <1>5, <1>6, <1>7, <1>8 DEF MapWalking

\* The sender goes down.
LEMMA MapEnters ==
  ASSUME MapCall, MapInv(l, src, dst), SenderDown
  PROVE  MapInv(l', src', dst')
<1> DEFINE f == l.f_addr
           v == l.t_addr
<1>1. /\ l \in MapLocals /\ IsDir(src) /\ IsDir(dst) /\ Empty(dst) /\ MapWalking(l, src, dst) /\ l.running
      /\ l.pgsize = PageSize(Count(call)) /\ src' = src /\ dst' = dst
      /\ ~sigma0 /\ f \in Addrs /\ v \in Addrs /\ is_subtree(src, l.fpg)
  BY DEF SenderDown, Mapping, UserArea, MapInv
<1>2. /\ f \in Nat /\ v \in Nat /\ Shift \in Int /\ Width \in Nat /\ Width >= 2
      /\ l.pgsize \in {0, 1} /\ SlotOf(f) \in Nat /\ SlotOf(f) \in 0 .. Slots - 1
      /\ f = SlotOf(f) * Width + (f % Width) /\ (f % Width) \in Nat /\ FromEnd \in Nat
  <2>1. SlotOf(f) \in 0 .. Slots - 1
    BY <1>1, LookupIs
  <2>2. f \in Nat /\ v \in Nat
    BY <1>1, AddrNat
  <2>3. SlotOf(f) \in Nat /\ f = SlotOf(f) * Width + (f % Width) /\ (f % Width) \in Nat
    BY <2>2, Split DEF SlotOf
  <2>4. l.pgsize \in {0, 1}
    BY <1>1, Sizes
  <2> QED BY <2>1, <2>2, <2>3, <2>4, MapNats, PageSizes
<1>3. AtBoth(l, src, dst)
  <2>1. ~InSender(l, src)
    BY <1>1, NoDeeper DEF InSender
  <2>2. ~InParts(l, src, dst)
    BY <1>1, <1>2 DEF InParts, is_subtree, Entry, SameFrom
  <2> QED BY <2>1, <2>2, <1>1 DEF MapWalking, AtReceiver, InBoth
<1>4. /\ l.f_size = 1 /\ l.t_size = 1 /\ l.f_off = 0 /\ l.f_num = l.t_num /\ l.f_num >= 1
      /\ v = f + Shift /\ From(call) <= f /\ l.fpg = <<1, SlotOf(f)>> /\ l.tpg = <<1, SlotOf(v)>>
      /\ SameFrom(src, call.src, SlotOf(f), f) /\ SameFrom(dst, call.dst, SlotOf(v), v)
      /\ MapReached(src, dst, v)
  BY <1>1, <1>3 DEF AtBoth
<1>5. src.dir[SlotOf(f)].kind = "tree" /\ call.src.dir[SlotOf(f)].kind = "tree"
  BY <1>1, <1>2, <1>4 DEF is_subtree, Entry, SameFrom
<1>6. SameFrom(src, call.src, SlotOf(f) + 1, f)
  BY <1>2, <1>4, SameFromNext
<1> HIDE DEF f, v
<1>7. CASE l.pgsize = 0
  <2>1. l' = [l EXCEPT !.f_size = 0, !.fpg = <<0, f>>]
    <3>1. l.f_size > l.pgsize
      BY <1>4, <1>7
    <3>2. next(subtree(l.fpg), f % Width) = <<0, f>>
      BY <1>2, <1>4 DEF next, subtree
    <3> QED BY <3>1, <3>2 DEF SenderDown, f
  <2>2. /\ l' \in MapLocals /\ l'.pgsize = 0 /\ l'.running /\ l'.f_size = 0 /\ l'.t_size = 1 /\ l'.f_off = 0
        /\ l'.f_num = l.f_num /\ l'.t_num = l.f_num /\ l'.f_addr = f /\ l'.t_addr = v
        /\ l'.fpg = <<0, f>> /\ l'.tpg = l.tpg
    BY <2>1, <1>1, <1>2, <1>4, <1>7 DEF MapLocals, f, v
  <2>3. f = From(call) /\ l.f_num = Count(call)
    BY <1>3, <1>7 DEF AtBoth, f
  <2>4. v = To(call)
    BY <2>3, <1>4, MapNats DEF Shift
  <2>5. InSender(l', src)
    BY <2>2, <1>1, <1>5 DEF InSender, f
  <2>6. AtReceiver(l', src, dst)
    BY <2>2, <2>3, <2>4, <2>5, <1>1, <1>4, <1>6 DEF AtReceiver, v
  <2> QED BY <2>2, <2>6, <1>1, <1>7 DEF MapInv, MapWalking
<1>8. CASE l.pgsize = 1
  <2>1. (f % Width) = 0 /\ (v % Width) = 0 /\ f + l.f_num * Width = FromEnd /\ l.f_num \in Int
    BY <1>1, <1>3, <1>8 DEF AtBoth, f, v, MapLocals
  <2>2. PICK m \in Nat : m = l.f_num - 1
    BY <2>1, <1>4
  <2>3. f = SlotOf(f) * Width
    BY <2>1, <1>2, UnderEntry
  <2>4. l' = [l EXCEPT !.f_size = 0, !.r_fpg = <<1, SlotOf(f) + 1>>, !.r_fnum = m, !.fpg = <<0, f>>,
                       !.f_num = Width]
    <3>1. ~(l.f_size > l.pgsize)
      BY <1>4, <1>8
    <3>2. next(l.fpg, 1) = <<1, SlotOf(f) + 1>> /\ subtree(l.fpg) = <<0, f>>
      BY <2>3, <1>4 DEF next, subtree
    <3> QED BY <3>1, <3>2, <2>2 DEF SenderDown
  <2>5. /\ l' \in MapLocals /\ l'.pgsize = 1 /\ l'.running /\ l'.f_size = 0 /\ l'.t_size = 1 /\ l'.f_off = 0
        /\ l'.f_num = Width /\ l'.t_num = l.t_num /\ l'.f_addr = f /\ l'.t_addr = v
        /\ l'.fpg = <<0, f>> /\ l'.tpg = l.tpg /\ l'.r_fpg = <<1, SlotOf(f) + 1>> /\ l'.r_fnum = m
    <3>1. PICK p \in {0, 1} \X Nat : p = <<1, SlotOf(f) + 1>>
      <4>1. SlotOf(f) + 1 \in Nat
        BY <1>2
      <4>2. <<1, SlotOf(f) + 1>> \in {0, 1} \X Nat
        BY <4>1
      <4> QED BY <4>2
    <3>2. PICK q \in {0, 1} \X Nat : q = <<0, f>>
      BY <1>2
    <3>5. PICK w \in Int : w = Width
      BY <1>2
    <3>6. PICK k \in Int : k = m
      BY <2>2
    <3>3. l' = [l EXCEPT !.f_size = 0, !.r_fpg = p, !.r_fnum = k, !.fpg = q, !.f_num = w]
      BY <2>4, <3>1, <3>2, <3>5, <3>6
    <3>4. /\ l' \in MapLocals /\ l'.pgsize = l.pgsize /\ (l'.running <=> l.running) /\ l'.f_size = 0
          /\ l'.t_size = l.t_size /\ l'.f_off = l.f_off
          /\ l'.f_num = w /\ l'.t_num = l.t_num /\ l'.f_addr = l.f_addr /\ l'.t_addr = l.t_addr
          /\ l'.fpg = q /\ l'.tpg = l.tpg /\ l'.r_fpg = p /\ l'.r_fnum = k
      <4>1. l \in MapLocals
        BY <1>1
      <4> QED BY <3>3, <4>1 DEF MapLocals
    <3> QED BY <3>1, <3>2, <3>4, <3>5, <3>6, <1>1, <1>4, <1>8 DEF f, v
  <2>6. (SlotOf(f) + 1) * Width + m * Width = FromEnd
    <3>1. (SlotOf(f) + 1) * Width = SlotOf(f) * Width + 1 * Width
      BY <1>2, Distributive
    <3>2. (l.f_num - 1) * Width = l.f_num * Width - 1 * Width /\ l.f_num * Width \in Int
      BY <2>1, <1>2, Distributive
    <3> QED BY <3>1, <3>2, <2>1, <2>2, <2>3, <1>2
  <2>7. Rest(l')
    <3>1. Width = Width - (f % Width)
      BY <2>1, <1>2
    <3> QED BY <3>1, <2>5, <2>6 DEF Rest
  <2>8. \A b \in Addrs : SlotOf(b) = SlotOf(f) /\ b < f => call.src.tab[b] = None
    BY <2>1, <1>2, AddrNat, UnderEntry
  <2>9. InSender(l', src)
    BY <2>5, <1>1, <1>5 DEF InSender, f
  <2>10. v + (f % Width) = f + Shift /\ l'.t_num = m + 1 /\ m >= 0
    BY <2>1, <2>2, <2>5, <1>2, <1>4
  <2>11. AtReceiver(l', src, dst)
    BY <2>1, <2>5, <2>7, <2>8, <2>9, <2>10, <1>1, <1>4, <1>6 DEF AtReceiver, v
  <2> QED BY <2>5, <2>11, <1>1, <1>8 DEF MapInv, MapWalking
<1> QED BY <1>2, <1>7, <1>8

\* The locals once the sender's page is found.
LEMMA SenderIs ==
  ASSUME l \in MapLocals, sigma0 \in BOOLEAN
  PROVE  LET x == Sender IN
         /\ x \in MapLocals /\ x.pgsize = l.pgsize /\ x.t_size = l.t_size /\ x.t_num = l.t_num
         /\ x.f_addr = l.f_addr /\ x.t_addr = l.t_addr /\ x.f_off = l.f_off /\ x.fpg = l.fpg
         /\ x.tpg = l.tpg /\ x.r_fpg = l.r_fpg /\ x.r_fnum = l.r_fnum /\ x.r_tpg = l.r_tpg
         /\ x.r_tnum = l.r_tnum /\ (x.running <=> l.running)
         /\ x.f_size = IF sigma0 THEN l.pgsize ELSE l.f_size
         /\ x.f_num = IF ~sigma0 /\ l.f_size > l.pgsize THEN 1 ELSE l.f_num
<1>1. CASE sigma0
  <2>1. Sender = [l EXCEPT !.f_size = l.pgsize]
    BY <1>1 DEF Sender
  <2> QED BY <2>1, <1>1 DEF MapLocals
<1>2. CASE ~sigma0 /\ l.f_size > l.pgsize
  <2>1. Sender = [l EXCEPT !.f_num = 1]
    BY <1>2 DEF Sender
  <2> QED BY <2>1, <1>2 DEF MapLocals
<1>3. CASE ~sigma0 /\ ~(l.f_size > l.pgsize)
  BY <1>3 DEF Sender
<1> QED BY <1>1, <1>2, <1>3

\* They stay what they are where the sizes fit.
LEMMA SameSender ==
  ASSUME l \in MapLocals, sigma0 \in BOOLEAN, sigma0 => l.f_size = l.pgsize, ~(l.f_size > l.pgsize)
  PROVE  Sender = l
<1>1. CASE sigma0
  <2>1. [l EXCEPT !.f_size = l.f_size] = l
    BY DEF MapLocals
  <2> QED BY <2>1, <1>1 DEF Sender
<1>2. CASE ~sigma0
  BY <1>2 DEF Sender
<1> QED BY <1>1, <1>2

\* A page table is made where there is none: nothing is mapped by it.
LEMMA TreeMade ==
  ASSUME NEW t, IsDir(t), Empty(t), NEW k \in 0 .. Slots - 1, t.dir[k].kind # "page",
         NEW t2, t2 = IF is_valid(t, <<1, k>>) THEN t ELSE Set(t, <<1, k>>, Tree)
  PROVE  /\ IsDir(t2) /\ Empty(t2) /\ t2.dir[k].kind = "tree" /\ t2.tab = t.tab
         /\ \A j \in 0 .. Slots - 1 : j # k => t2.dir[j] = t.dir[j]
         /\ \A a \in Addrs : lookup(t2, a) = lookup(t, a)
<1>1. t.dir[k] \in Entries \cup {Tree}
  BY DEF IsDir
<1>2. CASE is_valid(t, <<1, k>>)
  <2>1. t.dir[k].kind = "tree"
    BY <1>1, <1>2, EntryKinds DEF is_valid, Entry
  <2> QED BY <2>1, <1>2
<1>3. CASE ~is_valid(t, <<1, k>>)
  <2>1. t.dir[k].kind = "none"
    BY <1>3 DEF is_valid, Entry
  <2>2. /\ IsDir(t2) /\ t2.dir = [t.dir EXCEPT ![k] = Tree] /\ t2.tab = t.tab
        /\ \A a \in Addrs : SlotOf(a) # k => lookup(t2, a) = lookup(t, a)
    BY <1>3, SetDir
  <2>3. t2.dir[k] = Tree /\ t2.dir[k].kind = "tree" /\ \A j \in 0 .. Slots - 1 : j # k => t2.dir[j] = t.dir[j]
    <3>1. t2.dir[k] = Tree /\ \A j \in 0 .. Slots - 1 : j # k => t2.dir[j] = t.dir[j]
      BY <2>2 DEF IsDir
    <3> QED BY <3>1, EntryKinds
  <2>4. Empty(t2)
    <3> SUFFICES ASSUME NEW a \in Addrs, t2.dir[SlotOf(a)].kind # "tree" PROVE t2.tab[a] = None
      BY DEF Empty
    <3>1. SlotOf(a) # k /\ SlotOf(a) \in 0 .. Slots - 1
      BY <2>3, LookupIs
    <3> QED BY <3>1, <2>2, <2>3 DEF Empty
  <2>5. ASSUME NEW a \in Addrs PROVE lookup(t2, a) = lookup(t, a)
    <3>1. CASE SlotOf(a) # k
      BY <3>1, <2>2
    <3>2. CASE SlotOf(a) = k
      <4>1. lookup(t, a) = None
        BY <3>2, <2>1, LookupIs
      <4>2. t.tab[a] = None
        BY <3>2, <2>1 DEF Empty
      <4>3. lookup(t2, a) = t2.tab[a]
        BY <3>2, <2>2, <2>3, LookupIs
      <4> QED BY <4>1, <4>2, <4>3, <2>2
    <3> QED BY <3>1, <3>2
  <2> QED BY <2>2, <2>3, <2>4, <2>5
<1> QED BY <1>2, <1>3

\* Only what the page tables show matters.
LEMMA ReachedSame ==
  ASSUME NEW s, NEW t, NEW t2, NEW v, MapReached(s, t, v), \A a \in Addrs : lookup(t2, a) = lookup(t, a)
  PROVE  MapReached(s, t2, v)
<1> SUFFICES ASSUME NEW a \in Addrs
             PROVE  IF a < v THEN Shows(t2, a) /\ Granted(s, a) ELSE lookup(t2, a) = lookup(call.dst, a)
  BY DEF MapReached
<1>1. CASE a < v
  <2>1. Shows(t, a) /\ Granted(s, a)
    BY <1>1 DEF MapReached
  <2>2. lookup(t, a) = lookup(t2, a)
    OBVIOUS
  <2> QED BY <2>1, <2>2, <1>1, ShowsSame
<1>2. CASE ~(a < v)
  BY <1>2 DEF MapReached
<1> QED BY <1>1, <1>2

\* The locals on the way into a page table of the receiver.
Lower(x, y) ==
  /\ y \in MapLocals /\ y.pgsize = x.pgsize /\ y.f_size = x.f_size /\ y.t_size = 0 /\ y.f_num = x.f_num
  /\ y.f_addr = x.f_addr /\ y.f_off = x.f_off /\ y.fpg = x.fpg /\ y.r_fpg = x.r_fpg
  /\ y.r_fnum = x.r_fnum /\ y.r_tpg = <<x.tpg[1], x.tpg[2] + 1>> /\ y.r_tnum = x.t_num - 1
  /\ (y.running <=> x.running)

\* It is what the code assigns first,
LEMMA LowerIs ==
  ASSUME NEW x \in MapLocals,
         NEW y, y = [x EXCEPT !.t_size = 0, !.r_tpg = next(x.tpg, 1), !.r_tnum = x.t_num - 1]
  PROVE  Lower(x, y) /\ y.t_num = x.t_num /\ y.t_addr = x.t_addr /\ y.tpg = x.tpg
<1>1. PICK q \in {0, 1} \X Nat : q = next(x.tpg, 1) /\ q = <<x.tpg[1], x.tpg[2] + 1>>
  BY NextEntry DEF MapLocals
<1>2. PICK k \in Int : k = x.t_num - 1
  BY DEF MapLocals
<1>3. y = [x EXCEPT !.t_size = 0, !.r_tpg = q, !.r_tnum = k]
  BY <1>1, <1>2
<1>4. /\ y \in MapLocals /\ y.pgsize = x.pgsize /\ y.f_size = x.f_size /\ y.t_size = 0 /\ y.f_num = x.f_num
      /\ y.f_addr = x.f_addr /\ y.f_off = x.f_off /\ y.fpg = x.fpg /\ y.r_fpg = x.r_fpg
      /\ y.r_fnum = x.r_fnum /\ y.r_tpg = q /\ y.r_tnum = k /\ (y.running <=> x.running)
      /\ y.t_num = x.t_num /\ y.t_addr = x.t_addr /\ y.tpg = x.tpg
  BY <1>3 DEF MapLocals
<1> QED BY <1>1, <1>2, <1>4 DEF Lower

\* and then the entry in the page table.
LEMMA LowerAt ==
  ASSUME NEW x \in MapLocals, NEW y, Lower(x, y), NEW p \in {0, 1} \X Nat, NEW z, z = [y EXCEPT !.tpg = p]
  PROVE  Lower(x, z) /\ z.t_num = y.t_num /\ z.t_addr = y.t_addr /\ z.tpg = p
<1>1. y \in MapLocals
  BY DEF Lower
<1>2. /\ z \in MapLocals /\ z.pgsize = y.pgsize /\ z.f_size = y.f_size /\ z.t_size = y.t_size /\ z.f_num = y.f_num
      /\ z.f_addr = y.f_addr /\ z.f_off = y.f_off /\ z.fpg = y.fpg /\ z.r_fpg = y.r_fpg
      /\ z.r_fnum = y.r_fnum /\ z.r_tpg = y.r_tpg /\ z.r_tnum = y.r_tnum /\ (z.running <=> y.running)
      /\ z.t_num = y.t_num /\ z.t_addr = y.t_addr /\ z.tpg = p
  BY <1>1 DEF MapLocals
<1> QED BY <1>2 DEF Lower

\* A page of the receiver that is larger than the sender's is not mapped over.
LEMMA BlockedAlone ==
  ASSUME MapCall, RegularMap, NEW a \in Window(call) \cap Addrs, call.dst.dir[SlotOf(a)].kind = "page",
         IF sigma0 THEN Count(call) < Width
         ELSE Origin(call, a) \in Addrs /\ call.src.dir[SlotOf(Origin(call, a))].kind # "page"
  PROVE  Blocked(call, a) /\ Count(call) = 1
<1>1. Large(call.dst, a)
  BY LargeIs
<1>2. ~SenderLarge(call, a)
  BY MapNats, PageSizes, LargeIs DEF SenderLarge, sigma0
<1>3. Blocked(call, a)
  BY <1>1, <1>2 DEF Blocked
<1> QED BY <1>3 DEF RegularMap

\* The receiver goes down, or passes by a larger page.
LEMMA MapDescends ==
  ASSUME MapCall, RegularMap, MapInv(l, src, dst), ReceiverDown
  PROVE  MapInv(l', src', dst')
<1> DEFINE f == l.f_addr
           v == l.t_addr
           n == Count(call)
           S == Sender
           x == [S EXCEPT !.t_size = 0, !.r_tpg = next(l.tpg, 1), !.r_tnum = l.t_num - 1]
           i == f % Width
<1>1. /\ l \in MapLocals /\ IsDir(src) /\ IsDir(dst) /\ Empty(dst) /\ MapWalking(l, src, dst) /\ l.running
      /\ l.pgsize = PageSize(n) /\ src' = src /\ sigma0 \in BOOLEAN
      /\ sigma0 \/ (f \in Addrs /\ is_valid(src, l.fpg) /\ ~is_subtree(src, l.fpg))
      /\ v \in Addrs /\ TooLarge(S)
  BY DEF ReceiverDown, Sending, Mapping, UserArea, MapInv, MapCall, sigma0
<1>2. /\ f \in Nat /\ v \in Nat /\ Shift \in Int /\ Width \in Nat /\ Width >= 2 /\ n \in Nat /\ n >= 1
      /\ l.pgsize \in {0, 1} /\ (l.pgsize = 0 <=> n < Width)
      /\ SlotOf(v) \in Nat /\ SlotOf(v) \in 0 .. Slots - 1
      /\ v = SlotOf(v) * Width + (v % Width) /\ (v % Width) \in Nat /\ i \in 0 .. Width - 1
      /\ From(call) \in Nat /\ To(call) \in Nat /\ Shift = To(call) - From(call) /\ FromEnd = From(call) + n
  <2>1. SlotOf(v) \in 0 .. Slots - 1
    BY <1>1, LookupIs
  <2>2. f \in Nat /\ v \in Nat
    BY <1>1, AddrNat DEF MapLocals
  <2>3. SlotOf(v) \in Nat /\ v = SlotOf(v) * Width + (v % Width) /\ (v % Width) \in Nat /\ i \in 0 .. Width - 1
    BY <2>2, Split DEF SlotOf
  <2>4. l.pgsize \in {0, 1} /\ (l.pgsize = 0 <=> n < Width)
    BY <1>1, Sizes
  <2> QED BY <2>1, <2>2, <2>3, <2>4, MapNats, PageSizes DEF Shift, FromEnd
<1>3. /\ S \in MapLocals /\ S.pgsize = l.pgsize /\ S.t_size = l.t_size /\ S.t_num = l.t_num
      /\ S.f_addr = f /\ S.t_addr = v /\ S.f_off = l.f_off /\ S.fpg = l.fpg
      /\ S.tpg = l.tpg /\ S.r_fpg = l.r_fpg /\ S.r_fnum = l.r_fnum /\ (S.running <=> l.running)
      /\ S.f_size = IF sigma0 THEN l.pgsize ELSE l.f_size
      /\ S.f_num = IF ~sigma0 /\ l.f_size > l.pgsize THEN 1 ELSE l.f_num
  BY <1>1, SenderIs
<1> HIDE DEF S
<1>4. x = [S EXCEPT !.t_size = 0, !.r_tpg = next(S.tpg, 1), !.r_tnum = S.t_num - 1]
  BY <1>3
<1> HIDE DEF x
<1>5. Lower(S, x) /\ x.t_num = l.t_num /\ x.t_addr = v /\ x.tpg = l.tpg
  BY <1>3, <1>4, LowerIs
<1>6. /\ x.f_addr = f /\ x.pgsize = l.pgsize /\ x \in MapLocals
  BY <1>3, <1>5 DEF Lower
<1> HIDE DEF f, v, n, i
<1>7. IF is_valid(dst, l.tpg) /\ ~is_subtree(dst, l.tpg)
      THEN l' = Next_receiver_entry(x) /\ dst' = dst
      ELSE /\ dst' = IF is_valid(dst, l.tpg) THEN dst ELSE Set(dst, l.tpg, Tree)
           /\ l' = IF x.pgsize = 0
                   THEN [x EXCEPT !.tpg = next(subtree(l.tpg), x.t_addr % Width)]
                   ELSE [x EXCEPT !.tpg = next(subtree(l.tpg), x.f_addr % Width), !.t_num = Width - (x.f_addr % Width),
                                  !.t_addr = @ + (x.f_addr % Width)]
  BY DEF ReceiverDown, x, S
<1>8. /\ AtBoth(l, src, dst) \/ AtReceiver(l, src, dst)
      /\ AtBoth(l, src, dst) => l.pgsize = 0
  <2>1. ~InBoth(l, src, dst)
    <3> SUFFICES ASSUME InBoth(l, src, dst) PROVE FALSE
      OBVIOUS
    <3>1. l.t_size = 0 /\ l.f_size = 0
      BY DEF InBoth
    <3>2. S.t_size = 0 /\ S.f_size \in {0, 1} /\ S.pgsize \in {0, 1}
      BY <3>1, <1>2, <1>3
    <3> QED BY <3>2, <1>1 DEF TooLarge
  <2>2. ~InParts(l, src, dst)
    <3> SUFFICES ASSUME InParts(l, src, dst) PROVE FALSE
      OBVIOUS
    <3>1. l.t_size = 0 /\ l.f_size = 1
      BY DEF InParts
    <3>2. S.t_size = 0 /\ S.f_size \in {0, 1} /\ S.pgsize \in {0, 1}
      BY <3>1, <1>2, <1>3
    <3> QED BY <3>2, <1>1 DEF TooLarge
  <2>3. ASSUME AtBoth(l, src, dst), l.pgsize = 1 PROVE FALSE
    <3>1. l.t_size = 1 /\ l.f_size = 1
      BY <2>3 DEF AtBoth
    <3>2. S.t_size = 1 /\ S.f_size = 1 /\ S.pgsize = 1
      BY <3>1, <2>3, <1>3
    <3> QED BY <3>2, <1>1 DEF TooLarge
  <2> QED BY <2>1, <2>2, <2>3, <1>1, <1>2 DEF MapWalking
<1>9. l.tpg = <<1, SlotOf(v)>> /\ l.t_size = 1 /\ SameFrom(dst, call.dst, SlotOf(v), v) /\ From(call) <= f
      /\ l.f_off = 0 /\ SameFrom(src, call.src, SlotOf(f) + 1, f)
  <2>1. AtBoth(l, src, dst) => SameFrom(src, call.src, SlotOf(f), f)
    BY DEF AtBoth, f
  <2>2. SlotOf(f) \in Int
    BY <1>2, Split DEF SlotOf
  <2>3. AtBoth(l, src, dst) => SameFrom(src, call.src, SlotOf(f) + 1, f)
    BY <2>1, <2>2, <1>2, SameFromNext
  <2> QED BY <2>3, <1>8 DEF AtBoth, AtReceiver, f, v
<1>10. /\ dst.dir[SlotOf(v)] = call.dst.dir[SlotOf(v)] /\ Entry(dst, l.tpg) = dst.dir[SlotOf(v)]
       /\ dst.dir[SlotOf(v)] \in Entries \cup {Tree}
  BY <1>1, <1>2, <1>9, LookupIs DEF SameFrom, Entry
<1>11. is_valid(dst, l.tpg) /\ ~is_subtree(dst, l.tpg) <=> dst.dir[SlotOf(v)].kind = "page"
  BY <1>10, EntryKinds DEF is_valid, is_subtree
<1>12. CASE dst.dir[SlotOf(v)].kind = "page"
  <2>1. l' = Next_receiver_entry(x) /\ dst' = dst
    BY <1>7, <1>11, <1>12
  <2>2. v \in Window(call) /\ n = 1 /\ Blocked(call, v) /\ MapReached(src, dst, v)
        /\ l.f_num = n /\ l.t_num = n /\ f = From(call) /\ S.f_size = 0 /\ l.pgsize = 0 /\ S.f_num = l.f_num
    <3>1. CASE AtBoth(l, src, dst)
      <4>1. /\ f = From(call) /\ l.f_num = n /\ l.t_num = n /\ v = f + Shift /\ MapReached(src, dst, v)
            /\ l.f_size = 1 /\ l.pgsize = 0 /\ (sigma0 \/ l.fpg = <<1, SlotOf(f)>>)
            /\ SameFrom(src, call.src, SlotOf(f), f)
        BY <3>1, <1>8 DEF AtBoth, f, v, n
      <4>2. v = To(call) /\ n < Width
        BY <4>1, <1>2
      <4>3. v \in Window(call) \cap Addrs /\ Origin(call, v) = f
        <5>1. To(call) <= v /\ v < To(call) + n
          BY <4>2, <1>2
        <5>2. v \in Window(call)
          BY <5>1, <1>2, MapNats DEF n
        <5>3. Origin(call, v) = v - Shift
          BY <1>2, MapNats
        <5> QED BY <5>2, <5>3, <4>1, <1>1, <1>2 DEF v
      <4>4. CASE sigma0
        <5>1. Blocked(call, v) /\ Count(call) = 1
          BY <4>2, <4>3, <4>4, <1>10, <1>12, BlockedAlone DEF n
        <5> QED BY <5>1, <4>1, <4>3, <4>4, <1>3 DEF n
      <4>5. CASE ~sigma0
        <5>1. f \in Addrs /\ SlotOf(f) \in 0 .. Slots - 1
          BY <4>5, <1>1, LookupIs DEF f
        <5>2. call.src.dir[SlotOf(f)].kind = "page"
          <6>1. src.dir[SlotOf(f)] = call.src.dir[SlotOf(f)] /\ src.dir[SlotOf(f)] \in Entries \cup {Tree}
            BY <5>1, <4>1, <1>1, <1>2, LookupIs DEF SameFrom
          <6> QED BY <6>1, <4>1, <4>5, <1>1, EntryKinds DEF is_valid, is_subtree, Entry
        <5>3. SenderLarge(call, v)
          BY <5>1, <5>2, <4>3, <4>5, LargeIs DEF SenderLarge, sigma0
        <5>4. lookup(call.dst, v).kind = "none"
          BY <5>1, <5>3, <4>2, <4>3, <4>5 DEF RegularMap, n
        <5>5. lookup(call.dst, v).kind = "page"
          <6> DEFINE e == call.dst.dir[SlotOf(v)]
          <6>1. e \in Entries /\ e.kind = "page"
            BY <1>10, <1>12, EntryKinds
          <6>2. lookup(call.dst, v) = Page(e.frame + (v % Width), e.w) /\ e.frame + (v % Width) \in Nat /\ e.w \in BOOLEAN
            <7>1. e.frame \in Nat /\ e.w \in BOOLEAN
              BY <6>1, EntryKinds
            <7>2. lookup(call.dst, v) = Page(e.frame + (v % Width), e.w)
              BY <6>1, <1>1, LookupIs DEF MapCall, v
            <7> QED BY <7>1, <7>2, <1>2
          <6> HIDE DEF e
          <6> QED BY <6>2, EntryKinds
        <5> QED BY <5>4, <5>5
      <4> QED BY <4>4, <4>5
    <3>2. CASE AtReceiver(l, src, dst)
      <4>1. /\ ~sigma0 /\ l.f_size = 0 /\ InSender(l, src) /\ MapReached(src, dst, f + Shift) /\ f \in Addrs
            /\ call.src.dir[SlotOf(f)].kind = "tree"
        BY <3>2 DEF AtReceiver, InSender, f
      <4>2. PICK u \in Nat : u = f + Shift /\ u \in Window(call) \cap Addrs /\ SlotOf(u) = SlotOf(v)
        BY <3>2, <1>1, Awaited DEF f, v, n
      <4>3. Origin(call, u) = f
        BY <4>2, <1>2, MapNats
      <4>4. Blocked(call, u) /\ n = 1
        BY <4>1, <4>2, <4>3, <1>10, <1>12, BlockedAlone DEF n
      <4>5. l.pgsize = 0
        BY <4>4, <1>2
      <4>6. f = From(call) /\ l.f_num = n /\ l.t_num = n /\ v = To(call)
        BY <3>2, <4>5 DEF AtReceiver, f, v, n
      <4>7. u = v
        BY <4>2, <4>6, <1>2
      <4>8. S.f_size = 0 /\ S.f_num = l.f_num
        BY <4>1, <4>5, <1>3
      <4> QED BY <4>1, <4>2, <4>4, <4>5, <4>6, <4>7, <4>8
    <3> QED BY <3>1, <3>2, <1>8
  <2>3. Stopped(l', x)
    <3>1. x.f_size = 0 /\ x.t_size = 0 /\ x.f_num = 1 /\ x.t_num = 1 /\ x.f_size >= x.pgsize
      BY <2>2, <1>3, <1>5 DEF Lower
    <3> QED BY <3>1, <2>1, <1>1, <1>6, BothNext
  <2>4. MapReached(src, dst, v + 1)
    <3>1. \A a \in Addrs : v <= a /\ a < v + 1 => a = v
      BY <1>2, AddrNat
    <3> QED BY <3>1, <2>2, <1>2, ReachedOver
  <2>5. v + 1 = FromEnd + Shift
    <3>1. v = f + Shift
      BY <2>2, <1>8, <1>2 DEF AtBoth, AtReceiver, f, v
    <3> QED BY <3>1, <2>2, <1>2
  <2>6. Stopped(l', l') /\ l'.pgsize = PageSize(Count(call))
    BY <2>3, <1>1, <1>6 DEF Stopped, n
  <2> QED BY <2>1, <2>4, <2>5, <2>6, <1>1, EndReached
<1>13. ASSUME dst.dir[SlotOf(v)].kind # "page"
       PROVE  /\ IsDir(dst') /\ Empty(dst') /\ dst'.dir[SlotOf(v)].kind = "tree"
              /\ \A a \in Addrs : lookup(dst', a) = lookup(dst, a)
              /\ \A w \in Int : v <= w => SameFrom(dst', call.dst, SlotOf(v) + 1, w)
              /\ l.pgsize = 0 => l' = [x EXCEPT !.tpg = <<0, v>>]
              /\ l.pgsize = 1 => l' = [x EXCEPT !.tpg = <<0, SlotOf(v) * Width + i>>, !.t_num = Width - i,
                                                !.t_addr = v + i]
  <2>1. /\ dst' = IF is_valid(dst, <<1, SlotOf(v)>>) THEN dst ELSE Set(dst, <<1, SlotOf(v)>>, Tree)
        /\ l' = IF x.pgsize = 0
                THEN [x EXCEPT !.tpg = next(subtree(l.tpg), x.t_addr % Width)]
                ELSE [x EXCEPT !.tpg = next(subtree(l.tpg), x.f_addr % Width), !.t_num = Width - (x.f_addr % Width),
                               !.t_addr = x.t_addr + (x.f_addr % Width)]
    BY <1>7, <1>9, <1>11, <1>13
  <2>2. /\ IsDir(dst') /\ Empty(dst') /\ dst'.dir[SlotOf(v)].kind = "tree" /\ dst'.tab = dst.tab
        /\ \A j \in 0 .. Slots - 1 : j # SlotOf(v) => dst'.dir[j] = dst.dir[j]
        /\ \A a \in Addrs : lookup(dst', a) = lookup(dst, a)
    BY <2>1, <1>1, <1>2, <1>13, TreeMade
  <2>3. ASSUME NEW w \in Int, v <= w PROVE SameFrom(dst', call.dst, SlotOf(v) + 1, w)
    <3>1. \A k \in 0 .. Slots - 1 : SlotOf(v) + 1 <= k => dst'.dir[k] = dst.dir[k]
      BY <2>2, <1>2
    <3> QED BY <3>1, <2>2, <2>3, <1>2, <1>9, SameFromNext
  <2>4. next(subtree(l.tpg), v % Width) = <<0, v>> /\ next(subtree(l.tpg), i) = <<0, SlotOf(v) * Width + i>>
    BY <1>2, <1>9 DEF next, subtree
  <2>5. x.f_addr % Width = i /\ x.t_addr = v /\ x.pgsize = l.pgsize
    BY <1>5, <1>6 DEF i
  <2>6. l.pgsize = 0 => l' = [x EXCEPT !.tpg = <<0, v>>]
    BY <2>1, <2>4, <2>5
  <2>7. ASSUME l.pgsize = 1
        PROVE  l' = [x EXCEPT !.tpg = <<0, SlotOf(v) * Width + i>>, !.t_num = Width - i, !.t_addr = v + i]
    <3>1. x.pgsize # 0
      BY <2>5, <2>7
    <3>2. l' = [x EXCEPT !.tpg = next(subtree(l.tpg), x.f_addr % Width), !.t_num = Width - (x.f_addr % Width),
                         !.t_addr = x.t_addr + (x.f_addr % Width)]
      BY <3>1, <2>1
    <3>3. l' = [x EXCEPT !.tpg = next(subtree(l.tpg), i), !.t_num = Width - i, !.t_addr = v + i]
      BY <3>2, <2>5
    <3> QED BY <3>3, <2>4
  <2> QED BY <2>2, <2>3, <2>6, <2>7
<1>14. CASE dst.dir[SlotOf(v)].kind # "page" /\ l.pgsize = 0
  <2>1. l' = [x EXCEPT !.tpg = <<0, v>>]
    BY <1>13, <1>14
  <2>2. Lower(S, l') /\ l'.t_num = l.t_num /\ l'.t_addr = v /\ l'.tpg = <<0, v>>
    <3>1. PICK p \in {0, 1} \X Nat : p = <<0, v>>
      BY <1>2
    <3>2. l' = [x EXCEPT !.tpg = p]
      BY <2>1, <3>1
    <3>3. Lower(S, l') /\ l'.t_num = x.t_num /\ l'.t_addr = x.t_addr /\ l'.tpg = p
      BY <3>2, <1>3, <1>5, LowerAt
    <3> QED BY <3>1, <3>3, <1>5
  <2>3. /\ l' \in MapLocals /\ l'.pgsize = 0 /\ l'.f_size = S.f_size /\ l'.t_size = 0 /\ l'.f_num = S.f_num
        /\ l'.f_addr = f /\ l'.f_off = 0 /\ l'.fpg = l.fpg /\ l'.running
    BY <2>2, <1>1, <1>3, <1>9, <1>14 DEF Lower
  <2>4. InReceiver(l', dst')
    <3>1. call.dst.dir[SlotOf(v)].kind # "page"
      BY <1>10, <1>14
    <3>2. SameFrom(dst', call.dst, SlotOf(v) + 1, v)
      BY <1>2, <1>13, <1>14
    <3> QED BY <3>1, <3>2, <2>2, <1>1, <1>13, <1>14 DEF InReceiver, v
  <2>5. f = From(call) /\ l.f_num = n /\ l.t_num = n /\ v = To(call)
    <3>1. CASE AtBoth(l, src, dst)
      <4>1. f = From(call) /\ l.f_num = n /\ l.t_num = n /\ v = f + Shift
        BY <3>1, <1>14 DEF AtBoth, f, v, n
      <4> QED BY <4>1, <1>2
    <3>2. CASE AtReceiver(l, src, dst)
      BY <3>2, <1>14 DEF AtReceiver, f, v, n
    <3> QED BY <3>1, <3>2, <1>8
  <2>6. v = f + Shift /\ From(call) <= f /\ f + n = FromEnd
    BY <2>5, <1>2
  <2>7. MapReached(src, dst', v)
    <3>1. MapReached(src, dst, v)
      BY <2>6, <1>8 DEF AtBoth, AtReceiver, f, v
    <3> QED BY <3>1, <1>13, <1>14, ReachedSame
  <2>8. CASE sigma0 \/ AtReceiver(l, src, dst)
    <3>1. S.f_size = 0 /\ S.f_num = l.f_num
      <4>1. sigma0 => S.f_size = 0 /\ S.f_num = l.f_num
        BY <1>3, <1>14
      <4>2. AtReceiver(l, src, dst) => l.f_size = 0 /\ ~sigma0
        BY DEF AtReceiver
      <4>3. l.f_size = 0 => ~(l.f_size > l.pgsize)
        BY <1>14
      <4> QED BY <4>1, <4>2, <4>3, <2>8, <1>3
    <3>2. sigma0 \/ InSender(l', src)
      <4>1. AtReceiver(l, src, dst) => InSender(l, src)
        BY DEF AtReceiver
      <4> QED BY <4>1, <2>3, <2>8 DEF InSender, f
    <3>3. l'.t_addr = l'.f_addr + Shift /\ From(call) <= l'.f_addr /\ l'.f_addr + l'.f_num = FromEnd
          /\ l'.f_num = l'.t_num /\ l'.f_num >= 1 /\ l'.f_size = 0
      BY <3>1, <2>2, <2>3, <2>5, <2>6, <1>2
    <3>4. SameFrom(src, call.src, SlotOf(l'.f_addr) + 1, l'.f_addr) /\ MapReached(src, dst', l'.t_addr)
      BY <2>2, <2>3, <2>7, <1>9
    <3>5. InBoth(l', src, dst')
      BY <3>2, <3>3, <3>4, <2>3, <2>4 DEF InBoth
    <3> QED BY <3>5, <2>3, <1>1, <1>13, <1>14 DEF MapInv, MapWalking, n
  <2>9. CASE ~sigma0 /\ AtBoth(l, src, dst)
    <3>1. l.f_size = 1 /\ l.fpg = <<1, SlotOf(f)>> /\ SameFrom(src, call.src, SlotOf(f), f)
      BY <2>9 DEF AtBoth, f
    <3>2. f \in Addrs /\ SlotOf(f) \in 0 .. Slots - 1
      BY <2>9, <1>1, LookupIs DEF f
    <3>3. call.src.dir[SlotOf(f)].kind = "page"
      <4>1. src.dir[SlotOf(f)] = call.src.dir[SlotOf(f)] /\ src.dir[SlotOf(f)] \in Entries \cup {Tree}
        BY <3>1, <3>2, <1>1, <1>2, LookupIs DEF SameFrom
      <4> QED BY <4>1, <3>1, <2>9, <1>1, EntryKinds DEF is_valid, is_subtree, Entry
    <3>4. l'.f_size = 1 /\ l'.t_addr = To(call) + l'.f_off /\ l'.t_num + l'.f_off = n /\ l'.t_num >= 1
      BY <3>1, <2>2, <2>3, <2>5, <2>9, <1>2, <1>3
    <3>5. InParts(l', src, dst')
      BY <3>1, <3>2, <3>3, <3>4, <2>2, <2>3, <2>4, <2>5, <2>7, <2>9 DEF InParts, n
    <3> QED BY <3>5, <2>3, <1>1, <1>13, <1>14 DEF MapInv, MapWalking, n
  <2> QED BY <2>8, <2>9, <1>8
<1>15. CASE dst.dir[SlotOf(v)].kind # "page" /\ l.pgsize = 1
  <2>1. AtReceiver(l, src, dst) /\ l.f_size = 0 /\ InSender(l, src) /\ ~sigma0 /\ MapReached(src, dst, f + Shift)
        /\ (v % Width) = 0 /\ v + i = f + Shift
        /\ l.r_fpg = <<1, SlotOf(f) + 1>> /\ l.f_num = Width - i
        /\ (SlotOf(f) + 1) * Width + l.r_fnum * Width = FromEnd
        /\ l.t_num = l.r_fnum + 1 /\ l.r_fnum >= 0
    BY <1>8, <1>15 DEF AtReceiver, Rest, f, v, i
  <2>2. PICK u \in Nat : u = v + i
    BY <1>2
  <2>3. v = SlotOf(v) * Width /\ u \in Nat /\ SlotOf(u) = SlotOf(v) /\ (u % Width) = i
    <3>1. v = SlotOf(v) * Width
      BY <2>1, <1>2, UnderEntry
    <3>2. (v % Width) + Width <= Width
      BY <2>1, <1>2
    <3>3. SlotOf(v + i) = SlotOf(v) /\ (v + i) % Width = (v % Width) + i
      BY <3>2, <1>2, WithinSlot
    <3> QED BY <3>1, <3>3, <2>1, <2>2, <1>2
  <2>4. PICK m \in Int : m = Width - i
    BY <1>2
  <2>5. Lower(S, l') /\ l'.t_num = Width - i /\ l'.t_addr = u /\ l'.tpg = <<0, u>>
    <3>1. PICK p \in {0, 1} \X Nat : p = <<0, u>>
      OBVIOUS
    <3>2. l' = [x EXCEPT !.tpg = <<0, SlotOf(v) * Width + i>>, !.t_num = Width - i, !.t_addr = v + i]
      BY <1>13, <1>15
    <3>3. SlotOf(v) * Width + i = u
      BY <2>2, <2>3
    <3>4. l' = [x EXCEPT !.tpg = p, !.t_num = m, !.t_addr = u]
      BY <3>1, <3>2, <3>3, <2>2, <2>4
    <3>5. Lower(S, l') /\ l'.t_num = m /\ l'.t_addr = u /\ l'.tpg = p
      <4>1. x \in MapLocals
        BY <1>6
      <4>2. /\ l' \in MapLocals /\ l'.pgsize = x.pgsize /\ l'.f_size = x.f_size /\ l'.t_size = x.t_size
            /\ l'.f_num = x.f_num /\ l'.f_addr = x.f_addr /\ l'.f_off = x.f_off /\ l'.fpg = x.fpg
            /\ l'.r_fpg = x.r_fpg /\ l'.r_fnum = x.r_fnum /\ l'.r_tpg = x.r_tpg /\ l'.r_tnum = x.r_tnum
            /\ (l'.running <=> x.running) /\ l'.t_num = m /\ l'.t_addr = u /\ l'.tpg = p
        BY <4>1, <3>4 DEF MapLocals
      <4> QED BY <4>2, <1>5 DEF Lower
    <3> QED BY <3>1, <3>5, <2>4
  <2>6. S.f_size = 0 /\ S.f_num = l.f_num
    <3>1. ~(l.f_size > l.pgsize)
      BY <2>1, <1>15
    <3> QED BY <3>1, <2>1, <1>3
  <2>7. /\ l' \in MapLocals /\ l'.pgsize = 1 /\ l'.f_size = 0 /\ l'.t_size = 0 /\ l'.f_num = l.f_num
        /\ l'.f_addr = f /\ l'.f_off = 0 /\ l'.fpg = l.fpg /\ l'.running /\ l'.r_fpg = l.r_fpg /\ l'.r_fnum = l.r_fnum
        /\ l'.r_tpg = <<1, SlotOf(v) + 1>> /\ l'.r_tnum = l.t_num - 1
    BY <2>5, <2>6, <1>1, <1>3, <1>9, <1>15 DEF Lower
  <2>8. u \in Addrs
    BY <2>3, <1>2, InDirectory DEF SlotOf
  <2>9. InReceiver(l', dst')
    <3>1. call.dst.dir[SlotOf(v)].kind # "page"
      BY <1>10, <1>15
    <3>2. SameFrom(dst', call.dst, SlotOf(v) + 1, u)
      BY <2>2, <1>2, <1>13, <1>15
    <3> QED BY <3>1, <3>2, <2>3, <2>5, <2>8, <1>13, <1>15 DEF InReceiver
  <2>10. InSender(l', src)
    BY <2>1, <2>7 DEF InSender, f
  <2>11. Rest(l') /\ l'.r_tnum = l'.r_fnum
    <3>1. l.r_fnum \in Int
      BY <1>1 DEF MapLocals
    <3> QED BY <3>1, <2>1, <2>7 DEF Rest, i
  <2>12. MapReached(src, dst', u)
    <3>1. MapReached(src, dst, u)
      BY <2>1, <2>2
    <3> QED BY <3>1, <1>13, <1>15, ReachedSame
  <2>13. l'.t_addr = l'.f_addr + Shift /\ From(call) <= l'.f_addr /\ l'.f_num >= 1 /\ l'.f_num = l'.t_num
         /\ (l'.f_addr % Width) = (l'.t_addr % Width)
    BY <2>1, <2>2, <2>3, <2>5, <2>7, <1>2, <1>9 DEF i
  <2>14. InBoth(l', src, dst')
    BY <2>1, <2>3, <2>5, <2>7, <2>9, <2>10, <2>11, <2>12, <2>13, <1>9 DEF InBoth
  <2> QED BY <2>7, <2>14, <1>1, <1>13, <1>15 DEF MapInv, MapWalking, n
<1> QED BY <1>2, <1>12, <1>14, <1>15

\* An entry of a page table, set once more.
LEMMA SetTabTwice ==
  ASSUME NEW t, IsDir(t), NEW v \in Addrs, NEW g \in Entries, NEW h \in Entries
  PROVE  /\ Set(Set(t, <<0, v>>, g), <<0, v>>, h) = Set(t, <<0, v>>, h)
         /\ Set(t, <<0, v>>, t.tab[v]) = t /\ Entry(Set(t, <<0, v>>, g), <<0, v>>) = g
<1>1. t \in [dir : [0 .. Slots - 1 -> Entries \cup {Tree}], tab : [Addrs -> Entries]]
  BY DEF IsDir
<1>2. PICK D \in [0 .. Slots - 1 -> Entries \cup {Tree}], T \in [Addrs -> Entries] : t = [dir |-> D, tab |-> T]
  BY <1>1
<1>3. \A u \in [Addrs -> Entries], e \in Entries :
        Set([dir |-> D, tab |-> u], <<0, v>>, e) = [dir |-> D, tab |-> [u EXCEPT ![v] = e]]
  BY DEF Set
<1>4. [T EXCEPT ![v] = g] \in [Addrs -> Entries]
  OBVIOUS
<1>5. Set(t, <<0, v>>, g) = [dir |-> D, tab |-> [T EXCEPT ![v] = g]]
      /\ Set(t, <<0, v>>, h) = [dir |-> D, tab |-> [T EXCEPT ![v] = h]]
  BY <1>2, <1>3
<1>6. Set(Set(t, <<0, v>>, g), <<0, v>>, h) = [dir |-> D, tab |-> [[T EXCEPT ![v] = g] EXCEPT ![v] = h]]
  BY <1>3, <1>4, <1>5
<1>7. [[T EXCEPT ![v] = g] EXCEPT ![v] = h] = [T EXCEPT ![v] = h] /\ [T EXCEPT ![v] = T[v]] = T
  OBVIOUS
<1>8. t.tab[v] = T[v] /\ T[v] \in Entries
  BY <1>2
<1>9. Set(t, <<0, v>>, t.tab[v]) = t
  BY <1>2, <1>3, <1>7, <1>8
<1>10. Entry(Set(t, <<0, v>>, g), <<0, v>>) = g
  BY <1>5 DEF Entry
<1> QED BY <1>5, <1>6, <1>7, <1>9, <1>10

\* A changed entry of a page table, in the walk.
LEMMA SmallDone ==
  ASSUME MapCall, NEW s, NEW t, IsDir(t), Empty(t), NEW v \in Addrs, t.dir[SlotOf(v)].kind = "tree",
         MapReached(s, t, v), NEW g \in Entries, NEW s2, Granted(s2, v),
         \A u : lookup(u, v) = g => Shows(u, v),
         \A b \in Addrs : lookup(s, b) = None => lookup(s2, b) = None
  PROVE  LET t2 == Set(t, <<0, v>>, g) IN
         /\ IsDir(t2) /\ Empty(t2) /\ t2.dir = t.dir /\ MapReached(s2, t2, v + 1)
         /\ \A a \in Addrs : a # v => t2.tab[a] = t.tab[a]
<1> DEFINE t2 == Set(t, <<0, v>>, g)
<1>1. /\ IsDir(t2) /\ t2.dir = t.dir /\ t2.tab = [t.tab EXCEPT ![v] = g]
      /\ \A a \in Addrs : a # v => lookup(t2, a) = lookup(t, a)
      /\ lookup(t2, v) = g
  BY SetTab
<1>2. \A a \in Addrs : a # v => t2.tab[a] = t.tab[a]
  BY <1>1 DEF IsDir
<1>3. Empty(t2)
  BY <1>1, <1>2 DEF Empty
<1> HIDE DEF t2
<1>4. Shows(t2, v)
  BY <1>1
<1>5. v \in Nat /\ \A a \in Addrs : v <= a /\ a < v + 1 => a = v
  BY AddrNat
<1>6. \A a \in Addrs : a < v \/ v + 1 <= a => a # v
  BY AddrNat
<1>7. MapReached(s2, t2, v + 1)
  <2>1. v + 1 \in Nat /\ v <= v + 1
    BY <1>5
  <2>2. \A a \in Addrs : a < v \/ v + 1 <= a => lookup(t2, a) = lookup(t, a)
    BY <1>1, <1>6
  <2>3. \A a \in Addrs : v <= a /\ a < v + 1 => Shows(t2, a) /\ Granted(s2, a)
    BY <1>4, <1>5
  <2> QED BY <2>1, <2>2, <2>3, <1>5, ReachedNext
<1> QED BY <1>1, <1>2, <1>3, <1>7 DEF t2

\* The rights of a mapping are those that both allow.
LEMMA RightsAre ==
  ASSUME NEW w1 \in BOOLEAN, NEW w2 \in BOOLEAN, NEW g
  PROVE  Page(g, w1 /\ w2) = Page(g, w2 /\ w1) /\ Page(g, TRUE /\ w1) = Page(g, w1)
<1>1. CASE w1 = TRUE /\ w2 = TRUE
  BY <1>1
<1>2. CASE w1 = TRUE /\ w2 = FALSE
  BY <1>2
<1>3. CASE w1 = FALSE /\ w2 = TRUE
  BY <1>3
<1>4. CASE w1 = FALSE /\ w2 = FALSE
  BY <1>4
<1> QED BY <1>1, <1>2, <1>3, <1>4

\* A new mapping, and one that is there already.
LEMMA NewChanges ==
  ASSUME MapCall, NEW a \in Addrs, ~Extends(call, a), sigma0 \/ Origin(call, a) \notin Kernel,
         Source(call, a).w \in BOOLEAN, sigma0 => Source(call, a).w = TRUE
  PROVE  Changed(Page(Source(call, a).frame, IF sigma0 THEN call.w ELSE call.w /\ Source(call, a).w), a)
<1> DEFINE new == Source(call, a)
<1>0. call.w \in BOOLEAN /\ sigma0 \in BOOLEAN
  BY DEF MapCall, sigma0
<1>1. Page(new.frame, IF sigma0 THEN call.w ELSE call.w /\ new.w) = Page(new.frame, new.w /\ call.w)
  <2>1. CASE sigma0
    BY <2>1, <1>0, RightsAre
  <2>2. CASE ~sigma0
    BY <2>2, <1>0, RightsAre
  <2> QED BY <2>1, <2>2
<1> QED BY <1>1 DEF Changed

\* What one pass of the loop does, where it does not go down.
LEMMA EntryIs ==
  ASSUME MapEntry, NEW x, x = Sender, ~IntoTree(x), NEW t, t = IF Overmaps(x) THEN Overmapped(x) ELSE dst
  PROVE  LET e == Entry(t, x.tpg)
             skip == (~sigma0 /\ x.f_addr \in Kernel) \/ x.t_addr \in Kernel
         IN /\ l' = Next_receiver_entry(x)
            /\ skip => dst' = t /\ src' = src
            /\ ~skip /\ e.kind # "none" =>
                 /\ src' = src
                 /\ dst' = IF e.frame = Phys(x) + PartOf(x) - x.f_off /\ Allowed(x)
                           THEN Set(t, x.tpg, [e EXCEPT !.w = TRUE]) ELSE t
            /\ ~skip /\ e.kind = "none" =>
                 /\ src' = IF call.grant /\ ~sigma0 THEN Set(src, x.fpg, None) ELSE src
                 /\ dst' = Set(t, x.tpg, Page(Phys(x) + PartOf(x), IF sigma0 THEN call.w ELSE Allowed(x)))
<1>1. Placed(x) = x
  BY DEF Placed
<1>2. LET e == Entry(t, x.tpg)
          skip == (~sigma0 /\ ~is_mappable(x.f_addr)) \/ ~is_mappable(x.t_addr)
      IN /\ dst' = CASE skip -> t
                     [] ~skip /\ e.kind # "none" ->
                          IF e.frame = Phys(x) + PartOf(x) - x.f_off /\ Allowed(x)
                          THEN Set(t, x.tpg, [e EXCEPT !.w = TRUE]) ELSE t
                     [] ~skip /\ e.kind = "none" ->
                          Set(t, x.tpg, Page(Phys(x) + PartOf(x), IF sigma0 THEN call.w ELSE Allowed(x)))
         /\ src' = IF call.grant /\ ~sigma0 /\ ~skip /\ e.kind = "none"
                   THEN Set(src, x.fpg, None) ELSE src
         /\ l' = Next_receiver_entry(x)
  BY <1>1 DEF MapEntry
<1> DEFINE skip == (~sigma0 /\ x.f_addr \in Kernel) \/ x.t_addr \in Kernel
           e == Entry(t, x.tpg)
<1>3. skip <=> (~sigma0 /\ ~is_mappable(x.f_addr)) \/ ~is_mappable(x.t_addr)
  BY DEF is_mappable
<1>4. CASE skip
  BY <1>2, <1>3, <1>4
<1>5. CASE ~skip /\ e.kind # "none"
  BY <1>2, <1>3, <1>5
<1>6. CASE ~skip /\ e.kind = "none"
  BY <1>2, <1>3, <1>6
<1> QED BY <1>4, <1>5, <1>6

\* A small page is mapped in a page table.
LEMMA MapsSmall ==
  ASSUME MapCall, MapInv(l, src, dst), MapEntry, InBoth(l, src, dst)
  PROVE  MapInv(l', src', dst')
<1> DEFINE f == l.f_addr
           v == l.t_addr
           n == Count(call)
           d == dst.tab[v]
           new == Source(call, v)
<1>1. /\ l \in MapLocals /\ IsDir(src) /\ IsDir(dst) /\ Empty(dst) /\ l.running
      /\ l.pgsize = PageSize(n) /\ sigma0 \in BOOLEAN /\ call.w \in BOOLEAN
      /\ sigma0 \/ (f \in Addrs /\ is_valid(src, l.fpg) /\ ~is_subtree(src, l.fpg))
      /\ v \in Addrs
  BY DEF MapEntry, Sending, Mapping, UserArea, MapInv, MapCall, sigma0
<1>2. /\ f \in Nat /\ v \in Nat /\ Shift \in Int /\ Width \in Nat /\ Width >= 2 /\ n \in Nat /\ n >= 1
      /\ l.pgsize \in {0, 1} /\ (l.pgsize = 0 <=> n < Width)
      /\ From(call) \in Nat /\ To(call) \in Nat /\ Shift = To(call) - From(call) /\ FromEnd = From(call) + n
  <2>1. f \in Nat /\ v \in Nat
    BY <1>1 DEF MapLocals
  <2>2. l.pgsize \in {0, 1} /\ (l.pgsize = 0 <=> n < Width)
    BY <1>1, Sizes
  <2> QED BY <2>1, <2>2, MapNats, PageSizes DEF Shift, FromEnd
<1>3. /\ l.f_size = 0 /\ l.t_size = 0 /\ l.f_off = 0 /\ v = f + Shift /\ From(call) <= f /\ l.f_num >= 1
      /\ (sigma0 \/ InSender(l, src)) /\ v \in Addrs /\ l.tpg = <<0, v>>
      /\ dst.dir[SlotOf(v)].kind = "tree" /\ call.dst.dir[SlotOf(v)].kind # "page"
      /\ SameFrom(dst, call.dst, SlotOf(v) + 1, v) /\ SameFrom(src, call.src, SlotOf(f) + 1, f)
      /\ MapReached(src, dst, v) /\ (sigma0 => l.pgsize = 0)
  BY DEF InBoth, InReceiver
<1>4. Sender = l
  <2>1. ~(l.f_size > l.pgsize) /\ (sigma0 => l.f_size = l.pgsize)
    BY <1>2, <1>3
  <2> QED BY <2>1, <1>1, SameSender
<1>5. Entry(dst, l.tpg) = d /\ d \in Entries /\ ~is_subtree(dst, l.tpg) /\ ~IntoTree(l)
  BY <1>1, <1>3, NoDeeper, LookupIs DEF IntoTree
<1>6. d = lookup(call.dst, v)
  <2>1. d = call.dst.tab[v] /\ IsDir(call.dst) /\ Empty(call.dst)
    BY <1>2, <1>3 DEF SameFrom, MapCall
  <2>2. CASE call.dst.dir[SlotOf(v)].kind = "tree"
    BY <2>1, <2>2, <1>3, LookupIs
  <2>3. CASE call.dst.dir[SlotOf(v)].kind # "tree"
    <3>1. call.dst.dir[SlotOf(v)] \in Entries \cup {Tree}
      BY <2>1, <1>3, LookupIs
    <3>2. call.dst.dir[SlotOf(v)].kind = "none"
      BY <3>1, <2>3, <1>3, EntryKinds
    <3> QED BY <3>2, <2>1, <2>3, <1>3, LookupIs DEF Empty
  <2> QED BY <2>2, <2>3
<1>7. Origin(call, v) = f
  BY <1>2, <1>3, MapNats
<1>8. /\ new.kind = "page" /\ new.frame \in Nat /\ new.w \in BOOLEAN /\ Phys(l) = new.frame
      /\ (sigma0 => new.w = TRUE)
      /\ (~sigma0 => Entry(src, l.fpg) = new /\ l.fpg = <<0, f>> /\ f \in Addrs
                       /\ call.src.dir[SlotOf(f)].kind = "tree" /\ src.dir[SlotOf(f)].kind = "tree")
  <2>1. CASE sigma0
    <3>1. new = Page(f, TRUE)
      BY <2>1, <1>2, <1>7, SourceIs
    <3>2. Phys(l) = f
      BY <2>1 DEF Phys
    <3>3. new.kind = "page" /\ new.frame = f /\ new.w = TRUE
      <4>1. PICK q \in Nat : q = f
        BY <1>2
      <4>2. Page(q, TRUE).kind = "page" /\ Page(q, TRUE).frame = q /\ Page(q, TRUE).w = TRUE
        BY EntryKinds
      <4> QED BY <3>1, <4>1, <4>2
    <3> QED BY <3>2, <3>3, <2>1, <1>2
  <2>2. CASE ~sigma0
    <3>1. f \in Addrs /\ l.fpg = <<0, f>> /\ call.src.dir[SlotOf(f)].kind = "tree" /\ src.dir[SlotOf(f)].kind = "tree"
      BY <2>2, <1>3 DEF InSender
    <3>2. src.tab[f] = call.src.tab[f] /\ Source(call, f + Shift) = call.src.tab[f]
      BY <3>1, <2>2, <1>2, <1>3, SmallSource
    <3>3. Entry(src, l.fpg) = new /\ src.tab[f] = new
      BY <3>1, <3>2, <1>3 DEF Entry
    <3>4. new \in Entries /\ new.kind # "none"
      BY <3>1, <3>3, <2>2, <1>1, LookupIs DEF is_valid
    <3>5. new.kind = "page" /\ new.frame \in Nat /\ new.w \in BOOLEAN
      BY <3>4, EntryKinds
    <3>6. Phys(l) = new.frame
      BY <3>3, <2>2 DEF Phys
    <3> QED BY <3>1, <3>3, <3>5, <3>6, <2>2
  <2> QED BY <2>1, <2>2
<1>9. ~Blocked(call, v) /\ (Extends(call, v) <=> d.kind = "page" /\ d.frame = new.frame)
  <2>1. Large(call.dst, v) = FALSE
    BY <1>3, LargeIs DEF Large
  <2>2. SenderLarge(call, v) = FALSE
    <3>1. CASE sigma0
      <4>1. ~(n >= Width)
        BY <3>1, <1>2, <1>3
      <4> QED BY <3>1, <4>1 DEF SenderLarge, sigma0
    <3>2. CASE ~sigma0
      BY <3>2, <1>7, <1>8, LargeIs DEF SenderLarge, sigma0, Large
    <3> QED BY <3>1, <3>2
  <2> QED BY <2>1, <2>2, <1>6 DEF Blocked, Extends
<1>10. v \in Window(call)
  <2>1. f < FromEnd
    <3>1. CASE l.pgsize = 0
      <4>1. f + l.f_num = FromEnd /\ l.f_num \in Int
        BY <3>1, <1>1 DEF InBoth, MapLocals
      <4> QED BY <4>1, <1>2, <1>3
    <3>2. CASE l.pgsize = 1
      <4>1. (SlotOf(f) + 1) * Width + l.r_fnum * Width = FromEnd /\ l.r_fnum >= 0 /\ l.r_fnum \in Int
        BY <3>2, <1>1 DEF InBoth, Rest, MapLocals
      <4>2. l.r_fnum * Width \in Nat
        BY <4>1, Aligned
      <4>3. f < (SlotOf(f) + 1) * Width /\ (SlotOf(f) + 1) * Width \in Nat
        <5>1. SlotOf(f) + 1 \in Nat /\ SlotOf(f) < SlotOf(f) + 1
          BY <1>2, Split DEF SlotOf
        <5> QED BY <5>1, <1>2, UnderIs, Aligned DEF SlotOf
      <4> QED BY <4>1, <4>2, <4>3, <1>2
    <3> QED BY <3>1, <3>2, <1>2
  <2>2. To(call) <= v /\ v < To(call) + n
    BY <2>1, <1>2, <1>3
  <2> QED BY <2>2, <1>2, MapNats
<1>11. Overmaps(l) <=> d.kind # "none" /\ v \notin Kernel /\ d.frame # new.frame
  <2>1. page_size(0) = 1 /\ v .. v + 1 - 1 = {v}
    BY <1>2, PageSizes
  <2>2. ~(v .. v + page_size(l.t_size) - 1 \subseteq Kernel) <=> v \notin Kernel
    BY <2>1, <1>3
  <2>3. l.t_size = l.f_size /\ l.f_size <= l.pgsize
    BY <1>2, <1>3
  <2> QED BY <2>2, <2>3, <1>5, <1>8 DEF Overmaps, is_valid
<1>12. v \notin Kernel => Overmapped(l) = Set(dst, <<0, v>>, None)
  BY <1>3, <1>5 DEF Overmapped, is_mappable
<1> DEFINE g0 == IF d.kind # "none" /\ v \notin Kernel /\ d.frame # new.frame THEN None ELSE d
           t  == IF Overmaps(l) THEN Overmapped(l) ELSE dst
<1>13. g0 \in Entries /\ t = Set(dst, <<0, v>>, g0) /\ Entry(t, l.tpg) = g0
  <2>1. g0 \in Entries
    BY <1>5, EntryKinds
  <2>2. t = Set(dst, <<0, v>>, g0)
    <3>1. CASE Overmaps(l)
      BY <3>1, <1>11, <1>12
    <3>2. CASE ~Overmaps(l)
      <4>1. g0 = d /\ t = dst
        BY <3>2, <1>11
      <4> HIDE DEF g0, t
      <4> QED BY <4>1, <1>1, <1>3, <1>5, SetTabTwice
    <3> QED BY <3>1, <3>2
  <2> HIDE DEF g0, t
  <2> QED BY <2>1, <2>2, <1>1, <1>3, SetTabTwice
<1> DEFINE skip == (~sigma0 /\ f \in Kernel) \/ v \in Kernel
<1>14. /\ l' = Next_receiver_entry(l)
       /\ skip => dst' = t /\ src' = src
       /\ ~skip /\ g0.kind # "none" =>
            /\ src' = src
            /\ dst' = IF g0.frame = Phys(l) + PartOf(l) - l.f_off /\ Allowed(l)
                      THEN Set(t, <<0, v>>, [g0 EXCEPT !.w = TRUE]) ELSE t
       /\ ~skip /\ g0.kind = "none" =>
            /\ src' = IF call.grant /\ ~sigma0 THEN Set(src, l.fpg, None) ELSE src
            /\ dst' = Set(t, <<0, v>>, Page(Phys(l) + PartOf(l), IF sigma0 THEN call.w ELSE Allowed(l)))
  BY <1>3, <1>4, <1>5, <1>13, EntryIs
<1>15. Phys(l) + PartOf(l) - l.f_off = new.frame /\ Phys(l) + PartOf(l) = new.frame
  <2>1. PartOf(l) = 0
    BY <1>3 DEF PartOf
  <2> QED BY <2>1, <1>3, <1>8
<1>16. ~sigma0 => (Allowed(l) <=> call.w /\ new.w)
  BY <1>8 DEF Allowed
<1>17. Extends(call, v) => g0 = d /\ g0.kind = "page"
  BY <1>9
<1>18. ~Extends(call, v) /\ v \notin Kernel => g0 = None
  BY <1>5, <1>9, EntryKinds
<1>19. \E g \in Entries :
         /\ dst' = Set(dst, <<0, v>>, g)
         /\ v \in Kernel => g = d
         /\ v \notin Kernel => Changed(g, v)
         /\ src' = src \/ (~sigma0 /\ src' = Set(src, <<0, f>>, None))
         /\ v \notin Kernel /\ ~Extends(call, v) /\ call.grant /\ ~sigma0 /\ f \notin Kernel =>
              src' = Set(src, <<0, f>>, None)
  <2>1. CASE v \in Kernel
    <3>1. g0 = d /\ dst' = t /\ src' = src
      BY <2>1, <1>14
    <3> QED BY <3>1, <2>1, <1>13
  <2>2. CASE v \notin Kernel /\ ~sigma0 /\ f \in Kernel
    <3>1. dst' = t /\ src' = src
      BY <2>2, <1>14
    <3>2. Changed(g0, v)
      <4>1. CASE Extends(call, v)
        BY <4>1, <2>2, <1>6, <1>7, <1>17 DEF Changed
      <4>2. CASE ~Extends(call, v)
        BY <4>2, <2>2, <1>7, <1>18 DEF Changed
      <4> QED BY <4>1, <4>2
    <3> QED BY <3>1, <3>2, <2>2, <1>13
  <2>3. CASE ~skip /\ Extends(call, v)
    <3>1. g0 = d /\ g0.kind = "page" /\ g0.frame = new.frame
      BY <2>3, <1>9, <1>17
    <3>2. src' = src /\ dst' = IF Allowed(l) THEN Set(t, <<0, v>>, [g0 EXCEPT !.w = TRUE]) ELSE t
      BY <3>1, <2>3, <1>14, <1>15
    <3>3. CASE Allowed(l)
      <4>1. call.w /\ new.w
        <5>1. CASE sigma0
          BY <5>1, <3>3, <1>8 DEF Allowed
        <5>2. CASE ~sigma0
          BY <5>2, <3>3, <1>16
        <5> QED BY <5>1, <5>2
      <4>2. [g0 EXCEPT !.w = TRUE] \in Entries
        <5>1. g0 \in [kind : {"page"}, frame : Nat, w : BOOLEAN]
          BY <3>1, <1>13, EntryKinds
        <5>2. [g0 EXCEPT !.w = TRUE] \in [kind : {"page"}, frame : Nat, w : BOOLEAN]
          BY <5>1
        <5> QED BY <5>2 DEF Entries
      <4>3. Changed([g0 EXCEPT !.w = TRUE], v)
        BY <4>1, <3>1, <2>3, <1>6 DEF Changed
      <4>4. dst' = Set(dst, <<0, v>>, [g0 EXCEPT !.w = TRUE])
        <5>1. dst' = Set(Set(dst, <<0, v>>, g0), <<0, v>>, [g0 EXCEPT !.w = TRUE])
          BY <3>2, <3>3, <1>13
        <5> HIDE DEF g0
        <5>2. PICK h \in Entries : h = [g0 EXCEPT !.w = TRUE]
          BY <4>2
        <5>3. dst' = Set(Set(dst, <<0, v>>, g0), <<0, v>>, h)
          BY <5>1, <5>2
        <5>4. dst' = Set(dst, <<0, v>>, h)
          BY <5>3, <1>1, <1>3, <1>13, SetTabTwice
        <5> QED BY <5>2, <5>4
      <4> QED BY <4>2, <4>3, <4>4, <3>2, <2>3
    <3>4. CASE ~Allowed(l)
      <4>1. Changed(g0, v)
        BY <3>1, <3>4, <2>3, <1>6, <1>16 DEF Changed
      <4>2. dst' = Set(dst, <<0, v>>, g0)
        BY <3>2, <3>4, <1>13
      <4> QED BY <4>1, <4>2, <3>2, <2>3, <1>13
    <3> QED BY <3>3, <3>4
  <2>4. CASE ~skip /\ ~Extends(call, v)
    <3>1. g0 = None /\ g0.kind = "none"
      BY <2>4, <1>18, EntryKinds
    <3> DEFINE h == Page(new.frame, IF sigma0 THEN call.w ELSE Allowed(l))
    <3>2. /\ src' = IF call.grant /\ ~sigma0 THEN Set(src, l.fpg, None) ELSE src
          /\ dst' = Set(t, <<0, v>>, h)
      BY <3>1, <2>4, <1>14, <1>15
    <3>3. h = Page(new.frame, IF sigma0 THEN call.w ELSE call.w /\ new.w)
      <4>1. CASE sigma0
        BY <4>1
      <4>2. CASE ~sigma0
        <5>1. Allowed(l) = (call.w /\ new.w)
          BY <4>2, <1>8 DEF Allowed
        <5> QED BY <5>1, <4>2
      <4> QED BY <4>1, <4>2
    <3>4. Changed(h, v)
      <4>1. Changed(Page(new.frame, IF sigma0 THEN call.w ELSE call.w /\ new.w), v)
        BY <2>4, <1>3, <1>7, <1>8, NewChanges
      <4> QED BY <4>1, <3>3
    <3>5. h \in Entries
      <4>1. (IF sigma0 THEN call.w ELSE call.w /\ new.w) \in BOOLEAN
        BY <1>1, <1>8
      <4>2. PICK w \in BOOLEAN : w = IF sigma0 THEN call.w ELSE call.w /\ new.w
        BY <4>1
      <4>3. h = Page(new.frame, w)
        BY <4>2, <3>3
      <4> QED BY <4>3, <1>8, EntryKinds
    <3> HIDE DEF h, g0, t
    <3>6. dst' = Set(dst, <<0, v>>, h)
      <4>1. dst' = Set(Set(dst, <<0, v>>, g0), <<0, v>>, h)
        BY <3>2, <1>13
      <4> QED BY <4>1, <3>5, <1>1, <1>3, <1>13, SetTabTwice
    <3>7. src' = src \/ (~sigma0 /\ src' = Set(src, <<0, f>>, None))
      BY <3>2, <1>8
    <3>8. call.grant /\ ~sigma0 => src' = Set(src, <<0, f>>, None)
      BY <3>2, <1>8
    <3> QED BY <3>4, <3>5, <3>6, <3>7, <3>8, <2>4
  <2> QED BY <2>1, <2>2, <2>3, <2>4
<1>20. PICK g \in Entries :
         /\ dst' = Set(dst, <<0, v>>, g)
         /\ v \in Kernel => g = d
         /\ v \notin Kernel => Changed(g, v)
         /\ src' = src \/ (~sigma0 /\ src' = Set(src, <<0, f>>, None))
         /\ v \notin Kernel /\ ~Extends(call, v) /\ call.grant /\ ~sigma0 /\ f \notin Kernel =>
              src' = Set(src, <<0, f>>, None)
  BY <1>19
<1>21. /\ IsDir(src') /\ src'.dir = src.dir /\ \A b \in Addrs : b # f => src'.tab[b] = src.tab[b]
       /\ \A b \in Addrs : lookup(src, b) = None => lookup(src', b) = None
       /\ src' = Set(src, <<0, f>>, None) /\ ~sigma0 => lookup(src', f) = None
  <2>1. CASE src' = src /\ ~(~sigma0 /\ src' = Set(src, <<0, f>>, None))
    BY <2>1, <1>1
  <2>2. CASE ~sigma0 /\ src' = Set(src, <<0, f>>, None)
    <3>1. f \in Addrs /\ src.dir[SlotOf(f)].kind = "tree" /\ None \in Entries
      BY <2>2, <1>8, EntryKinds
    <3>2. /\ IsDir(src') /\ src'.dir = src.dir /\ src'.tab = [src.tab EXCEPT ![f] = None]
          /\ \A a \in Addrs : a # f => lookup(src', a) = lookup(src, a)
          /\ lookup(src', f) = None
      BY <3>1, <2>2, <1>1, SetTab
    <3>3. \A b \in Addrs : b # f => src'.tab[b] = src.tab[b]
      BY <3>2 DEF IsDir
    <3>4. \A b \in Addrs : lookup(src, b) = None => lookup(src', b) = None
      BY <3>2
    <3> QED BY <3>2, <3>3, <3>4
  <2> QED BY <2>1, <2>2, <1>20
<1>22. Granted(src', v)
  <2> SUFFICES ASSUME Maps(call, v), call.grant, ~sigma0, is_mappable(Origin(call, v))
               PROVE  lookup(src', Origin(call, v)) = None
    BY DEF Granted
  <2>1. v \notin Kernel /\ ~Extends(call, v) /\ f \notin Kernel
    BY <1>7 DEF Maps, is_mappable
  <2> QED BY <2>1, <1>7, <1>20, <1>21
<1>23. \A u : lookup(u, v) = g => Shows(u, v)
  <2>1. CASE v \in Kernel
    <3>1. g = lookup(call.dst, v)
      BY <2>1, <1>6, <1>20
    <3> QED BY <3>1, <2>1, <1>3, OldShows
  <2>2. CASE v \notin Kernel
    BY <2>2, <1>3, <1>8, <1>9, <1>10, <1>20, ChangedShows
  <2> QED BY <2>1, <2>2
<1> HIDE DEF f, v, d, new
<1>24. /\ IsDir(dst') /\ Empty(dst') /\ dst'.dir = dst.dir /\ MapReached(src', dst', v + 1)
       /\ \A a \in Addrs : a # v => dst'.tab[a] = dst.tab[a]
  <2>1. IsDir(dst) /\ Empty(dst) /\ v \in Addrs /\ dst.dir[SlotOf(v)].kind = "tree" /\ MapReached(src, dst, v)
    BY <1>1, <1>3 DEF v
  <2>2. \A b \in Addrs : lookup(src, b) = None => lookup(src', b) = None
    BY <1>21
  <2>3. PICK s2, t2 : s2 = src' /\ t2 = Set(dst, <<0, v>>, g)
    OBVIOUS
  <2>4. /\ IsDir(t2) /\ Empty(t2) /\ t2.dir = dst.dir /\ MapReached(s2, t2, v + 1)
        /\ \A a \in Addrs : a # v => t2.tab[a] = dst.tab[a]
    BY <2>1, <2>2, <2>3, <1>22, <1>23, SmallDone
  <2>5. dst' = t2
    BY <2>3, <1>20
  <2> QED BY <2>3, <2>4, <2>5
<1>25. l' = Next_receiver_entry(l)
  BY <1>14
<1>26. MapInv(Next_receiver_entry(l), src', dst')
  BY <1>1, <1>21, <1>24, InBothMoves DEF f, v, n
<1> QED BY <1>25, <1>26

\* A part of a large page is mapped.
LEMMA MapsParts ==
  ASSUME MapCall, RegularMap, MapInv(l, src, dst), MapEntry, InParts(l, src, dst)
  PROVE  MapInv(l', src', dst')
<1> DEFINE f == l.f_addr
           v == l.t_addr
           n == Count(call)
           new == Source(call, v)
           e == call.src.dir[SlotOf(f)]
           x == Sender
<1>1. /\ l \in MapLocals /\ IsDir(src) /\ IsDir(dst) /\ Empty(dst)
      /\ l.pgsize = PageSize(n) /\ sigma0 \in BOOLEAN /\ call.w \in BOOLEAN /\ call.grant \in BOOLEAN
  BY DEF MapInv, MapCall, sigma0
<1>2. /\ ~sigma0 /\ l.pgsize = 0 /\ l.f_size = 1 /\ l.t_size = 0 /\ f = From(call)
      /\ l.fpg = <<1, SlotOf(f)>> /\ f \in Addrs /\ e.kind = "page" /\ SameFrom(src, call.src, SlotOf(f), f)
      /\ v = To(call) + l.f_off /\ l.t_num + l.f_off = n /\ l.t_num >= 1 /\ MapReached(src, dst, v)
  BY DEF InParts
<1>3. /\ v \in Addrs /\ l.tpg = <<0, v>> /\ dst.dir[SlotOf(v)].kind = "tree"
      /\ call.dst.dir[SlotOf(v)].kind # "page"
  BY DEF InParts, InReceiver
<1>4. /\ x \in MapLocals /\ x.pgsize = 0 /\ x.t_size = 0 /\ x.t_num = l.t_num
      /\ x.f_addr = f /\ x.t_addr = v /\ x.f_off = l.f_off /\ x.fpg = l.fpg
      /\ x.tpg = <<0, v>> /\ x.f_size = 1 /\ x.f_num = 1
  <2>1. l.f_size > l.pgsize
    BY <1>2
  <2> QED BY <2>1, <1>1, <1>2, <1>3, SenderIs
<1> HIDE DEF x
<1>5. InParts(x, src, dst)
  <2>1. InReceiver(l, dst)
    BY DEF InParts
  <2>2. InReceiver(x, dst)
    BY <2>1, <1>3, <1>4 DEF InReceiver
  <2> QED BY <2>2, <1>2, <1>4 DEF InParts
<1>6. /\ v \in Nat /\ f \in Nat /\ l.f_off \in Nat /\ l.t_num \in Int /\ n \in Nat /\ n < Width /\ Width \in Nat
      /\ From(call) \in Nat /\ To(call) \in Nat /\ Shift = To(call) - From(call)
  BY <1>1, <1>2, Sizes, PageSizes, MapNats DEF MapLocals, Shift
<1>7. PICK i \in 0 .. n - 1 : i = l.f_off
  BY <1>2, <1>6
<1>8. v \in Window(call) /\ Origin(call, v) = f + i /\ v - Shift = f + i
  <2>1. To(call) <= v /\ v < To(call) + n /\ v - Shift = f + i
    BY <1>2, <1>6, <1>7
  <2> QED BY <2>1, <1>6, MapNats
<1>9. /\ SlotOf(f + i) = SlotOf(f) /\ (f + i) % Width = (f % Width) + i /\ f + i \in Addrs
      /\ f + i \in Nat /\ (f % Width) \in Nat
  <2>1. /\ SlotOf(From(call) + i) = SlotOf(From(call)) /\ (From(call) + i) % Width = (From(call) % Width) + i
        /\ (From(call) \in Addrs => From(call) + i \in Addrs)
    <3>1. Count(call) < Width /\ i \in 0 .. Count(call) - 1
      BY <1>6
    <3> QED BY <3>1, PartWindow
  <2>2. f + i \in Nat /\ (f % Width) \in Nat
    BY <1>6, Split
  <2> QED BY <2>1, <2>2, <1>2
<1>10. /\ src.dir[SlotOf(f)] = e /\ e.frame \in Nat /\ e.w \in BOOLEAN
       /\ new = Page(e.frame + ((f % Width) + i), e.w)
  <2>1. v - Shift \in Nat /\ SlotOf(v - Shift) = SlotOf(f)
    BY <1>8, <1>9
  <2>2. src.dir[SlotOf(f)] = e /\ e \in Entries \cup {Tree} /\ new = Page(e.frame + ((v - Shift) % Width), e.w)
    BY <2>1, <1>2, <1>6, LargeSource
  <2>3. e.frame \in Nat /\ e.w \in BOOLEAN
    BY <2>2, <1>2, EntryKinds
  <2> QED BY <2>2, <2>3, <1>8, <1>9
<1>11. new.kind = "page" /\ new.frame = e.frame + ((f % Width) + i) /\ new.w = e.w
  BY <1>9, <1>10, EntryKinds
<1>12. ~call.grant /\ lookup(call.dst, v).kind = "none"
  <2>1. SenderLarge(call, v)
    BY <1>2, <1>8, <1>9, LargeIs DEF SenderLarge, sigma0
  <2>2. v \in Window(call) \cap Addrs /\ Origin(call, v) \in Addrs
    BY <1>3, <1>8, <1>9
  <2> QED BY <2>1, <2>2, <1>2, <1>6 DEF RegularMap
<1>13. ~Extends(call, v) /\ ~Blocked(call, v)
  BY <1>3, <1>12, LargeIs DEF Extends, Blocked
<1>14. dst.tab[v] = None /\ lookup(call.dst, v) = None /\ Entry(dst, x.tpg) = None
  <2>1. lookup(dst, v) = lookup(call.dst, v) /\ lookup(dst, v) = dst.tab[v] /\ dst.tab[v] \in Entries
    BY <1>1, <1>2, <1>3, <1>6, LookupIs DEF MapReached
  <2>2. dst.tab[v] = None
    BY <2>1, <1>12, EntryKinds
  <2> QED BY <2>1, <2>2, <1>4 DEF Entry
<1>15. ~is_valid(dst, x.tpg) /\ ~IntoTree(x) /\ ~Overmaps(x)
  <2>1. ~is_valid(dst, x.tpg)
    BY <1>14, EntryKinds DEF is_valid
  <2> QED BY <2>1 DEF IntoTree, Overmaps
<1>16. f \notin Kernel /\ f + i \notin Kernel
  BY <1>2, <1>9 DEF MapCall
<1>17. /\ l' = Next_receiver_entry(x)
       /\ v \in Kernel => dst' = dst /\ src' = src
       /\ v \notin Kernel =>
            /\ src' = src
            /\ dst' = Set(dst, <<0, v>>, Page(Phys(x) + PartOf(x), Allowed(x)))
  <2>1. dst = IF Overmaps(x) THEN Overmapped(x) ELSE dst
    BY <1>15
  <2>2. Entry(dst, x.tpg).kind = "none"
    BY <1>14, EntryKinds
  <2> QED BY <2>1, <2>2, <1>2, <1>4, <1>12, <1>15, <1>16, EntryIs DEF x
<1>18. Phys(x) + PartOf(x) = new.frame /\ Allowed(x) = (call.w /\ new.w)
  <2>1. Entry(src, x.fpg) = e
    BY <1>2, <1>4, <1>10 DEF Entry
  <2>2. Phys(x) = e.frame
    BY <2>1, <1>2 DEF Phys
  <2>3. PartOf(x) = (f % Width) + i
    BY <1>4, <1>7 DEF PartOf
  <2>4. Allowed(x) = (call.w /\ new.w)
    BY <2>1, <1>11 DEF Allowed
  <2> QED BY <2>2, <2>3, <2>4, <1>11
<1> DEFINE h == Page(new.frame, call.w /\ new.w)
<1>19. h \in Entries /\ (v \notin Kernel => Changed(h, v))
  <2>1. new.w \in BOOLEAN /\ new.frame \in Nat /\ (call.w /\ new.w) \in BOOLEAN
    BY <1>1, <1>9, <1>10, <1>11
  <2>2. h \in Entries
    <3>1. PICK w \in BOOLEAN : w = (call.w /\ new.w)
      BY <2>1
    <3>2. h = Page(new.frame, w)
      BY <3>1
    <3> QED BY <3>2, <2>1, EntryKinds
  <2>3. Changed(Page(new.frame, IF sigma0 THEN call.w ELSE call.w /\ new.w), v)
    BY <2>1, <1>2, <1>3, <1>8, <1>13, <1>16, NewChanges
  <2> QED BY <2>2, <2>3, <1>2
<1> HIDE DEF h
<1>20. PICK g \in Entries : dst' = Set(dst, <<0, v>>, g) /\ \A u : lookup(u, v) = g => Shows(u, v)
  <2>1. CASE v \in Kernel
    <3>1. dst' = Set(dst, <<0, v>>, dst.tab[v])
      BY <2>1, <1>1, <1>3, <1>14, <1>17, EntryKinds, SetTabTwice
    <3>2. \A u : lookup(u, v) = None => Shows(u, v)
      BY <2>1, <1>3, <1>14, OldShows
    <3> QED BY <3>1, <3>2, <1>14, EntryKinds
  <2>2. CASE v \notin Kernel
    <3>1. dst' = Set(dst, <<0, v>>, h)
      BY <2>2, <1>17, <1>18 DEF h
    <3>2. \A u : lookup(u, v) = h => Shows(u, v)
      BY <2>2, <1>3, <1>8, <1>11, <1>13, <1>19, ChangedShows
    <3> QED BY <3>1, <3>2, <1>19
  <2> QED BY <2>1, <2>2
<1>21. src' = src /\ Granted(src, v)
  BY <1>12, <1>17 DEF Granted
<1> HIDE DEF f, v, new, e
<1>22. /\ IsDir(dst') /\ Empty(dst') /\ dst'.dir = dst.dir /\ MapReached(src, dst', v + 1)
       /\ \A a \in Addrs : a # v => dst'.tab[a] = dst.tab[a]
  <2>1. PICK s2, t2 : s2 = src /\ t2 = Set(dst, <<0, v>>, g)
    OBVIOUS
  <2>2. IsDir(dst) /\ Empty(dst) /\ v \in Addrs /\ dst.dir[SlotOf(v)].kind = "tree" /\ MapReached(src, dst, v)
    BY <1>1, <1>2, <1>3 DEF v
  <2>3. \A b \in Addrs : lookup(src, b) = None => lookup(s2, b) = None
    BY <2>1
  <2>4. Granted(s2, v) /\ \A u : lookup(u, v) = g => Shows(u, v)
    BY <2>1, <1>20, <1>21
  <2>5. /\ IsDir(t2) /\ Empty(t2) /\ t2.dir = dst.dir /\ MapReached(s2, t2, v + 1)
        /\ \A a \in Addrs : a # v => t2.tab[a] = dst.tab[a]
    BY <2>1, <2>2, <2>3, <2>4, SmallDone
  <2>6. dst' = t2
    BY <2>1, <1>20
  <2> QED BY <2>1, <2>5, <2>6
<1>23. MapInv(Next_receiver_entry(x), src, dst')
  <2>1. x.t_addr = v /\ x.pgsize = PageSize(Count(call)) /\ x.f_num = 1 /\ x \in MapLocals
    BY <1>1, <1>2, <1>4 DEF n, v
  <2> QED BY <2>1, <1>1, <1>5, <1>22, InPartsMoves
<1> QED BY <1>17, <1>21, <1>23

\* A page table changed under one directory entry.
OnlySlot(t, t2, k) ==
  /\ IsDir(t2) /\ Empty(t2)
  /\ \A j \in 0 .. Slots - 1 : j # k => t2.dir[j] = t.dir[j]
  /\ \A a \in Addrs : SlotOf(a) # k => t2.tab[a] = t.tab[a] /\ lookup(t2, a) = lookup(t, a)

\* A directory entry is set
LEMMA LargeSet ==
  ASSUME NEW t, IsDir(t), Empty(t), NEW k \in 0 .. Slots - 1, t.dir[k].kind # "tree", NEW g \in Entries
  PROVE  LET t2 == Set(t, <<1, k>>, g) IN OnlySlot(t, t2, k) /\ t2.dir[k] = g
<1> DEFINE t2 == Set(t, <<1, k>>, g)
<1>1. /\ IsDir(t2) /\ t2.dir = [t.dir EXCEPT ![k] = g] /\ t2.tab = t.tab
      /\ \A a \in Addrs : SlotOf(a) # k => lookup(t2, a) = lookup(t, a)
  BY SetDir
<1> HIDE DEF t2
<1>2. t2.dir[k] = g /\ \A j \in 0 .. Slots - 1 : j # k => t2.dir[j] = t.dir[j]
  BY <1>1 DEF IsDir
<1>3. Empty(t2)
  <2> SUFFICES ASSUME NEW a \in Addrs, t2.dir[SlotOf(a)].kind # "tree" PROVE t2.tab[a] = None
    BY DEF Empty
  <2>1. SlotOf(a) \in 0 .. Slots - 1
    BY LookupIs
  <2>2. t.dir[SlotOf(a)].kind # "tree"
    BY <2>1, <1>2
  <2> QED BY <2>2, <1>1 DEF Empty
<1> QED BY <1>1, <1>2, <1>3 DEF OnlySlot, t2

\* or a page table removed.
LEMMA LargeRemoved ==
  ASSUME NEW t, IsDir(t), Empty(t), NEW k \in 0 .. Slots - 1
  PROVE  LET t2 == remove_subtree(t, <<1, k>>) IN OnlySlot(t, t2, k) /\ t2.dir[k] = None
<1> DEFINE t2 == remove_subtree(t, <<1, k>>)
<1>1. /\ IsDir(t2) /\ t2.dir = [t.dir EXCEPT ![k] = None]
      /\ \A a \in Addrs : t2.tab[a] = IF SlotOf(a) = k THEN None ELSE t.tab[a]
      /\ \A a \in Addrs : lookup(t2, a) = IF SlotOf(a) = k THEN None ELSE lookup(t, a)
  BY Removed
<1> HIDE DEF t2
<1>2. t2.dir[k] = None /\ \A j \in 0 .. Slots - 1 : j # k => t2.dir[j] = t.dir[j]
  BY <1>1 DEF IsDir
<1>3. Empty(t2)
  <2> SUFFICES ASSUME NEW a \in Addrs, t2.dir[SlotOf(a)].kind # "tree" PROVE t2.tab[a] = None
    BY DEF Empty
  <2>1. SlotOf(a) \in 0 .. Slots - 1
    BY LookupIs
  <2>2. SlotOf(a) # k => t.tab[a] = None
    BY <2>1, <1>2 DEF Empty
  <2> QED BY <2>2, <1>1
<1> QED BY <1>1, <1>2, <1>3 DEF OnlySlot, t2

\* Two such changes.
LEMMA OnlySlotTwice ==
  ASSUME NEW t, NEW t2, NEW t3, NEW k, OnlySlot(t, t2, k), OnlySlot(t2, t3, k)
  PROVE  OnlySlot(t, t3, k)
BY DEF OnlySlot

\* What a directory entry shows.
LEMMA LargeShows ==
  ASSUME NEW t, IsDir(t), NEW a \in Addrs, NEW v \in Nat, (a % Width) = a - v, NEW g \in Entries,
         t.dir[SlotOf(a)] = g
  PROVE  /\ g.kind = "none" => lookup(t, a) = None
         /\ g.kind = "page" => lookup(t, a) = Page(g.frame + (a - v), g.w)
BY LookupIs

\* A page with the right to write.
LEMMA Writable ==
  ASSUME NEW q \in Nat, NEW w \in BOOLEAN
  PROVE  [Page(q, w) EXCEPT !.w = TRUE] = Page(q, TRUE)
<1>1. PICK r \in [kind : {"page"}, frame : Nat, w : BOOLEAN] : r = Page(q, w)
  BY DEF Page
<1>2. [r EXCEPT !.w = TRUE] \in [kind : {"page"}, frame : Nat, w : BOOLEAN]
      /\ [r EXCEPT !.w = TRUE].kind = "page" /\ [r EXCEPT !.w = TRUE].frame = r.frame /\ [r EXCEPT !.w = TRUE].w = TRUE
  OBVIOUS
<1>3. r.frame = q
  BY <1>1, EntryKinds
<1>4. PICK r2 \in [kind : {"page"}, frame : Nat, w : BOOLEAN] : r2 = [r EXCEPT !.w = TRUE]
  BY <1>2
<1>5. r2 = Page(q, TRUE)
  BY <1>2, <1>3, <1>4 DEF Page
<1> QED BY <1>1, <1>4, <1>5

\* The sender's large page, and what the receiver has there.
LEMMA LargeEntry ==
  ASSUME MapCall, RegularMap, MapInv(l, src, dst), MapEntry, AtBoth(l, src, dst)
  PROVE  LET f == l.f_addr
             v == l.t_addr
             D == dst.dir[SlotOf(v)]
         IN /\ l.pgsize = 1 /\ Sender = l /\ v \in Addrs /\ SlotOf(v) \in 0 .. Slots - 1
            /\ D \in Entries \cup {Tree} /\ Phys(l) \in Nat /\ v \notin Kernel
            /\ \E W \in BOOLEAN :
                 /\ sigma0 => W = TRUE
                 /\ ~sigma0 => /\ f \in Addrs /\ SlotOf(f) \in 0 .. Slots - 1 /\ f \notin Kernel
                               /\ src.dir[SlotOf(f)].kind = "page" /\ Entry(src, l.fpg).w = W
                 /\ \A a \in Addrs : v <= a /\ a < v + Width =>
                      /\ SlotOf(a) = SlotOf(v) /\ (a % Width) = a - v /\ a - v \in Nat
                      /\ a \in Window(call) /\ a \notin Kernel
                      /\ Source(call, a) = Page(Phys(l) + (a - v), W)
                      /\ ~Blocked(call, a)
                      /\ Extends(call, a) <=> D.kind = "page" /\ D.frame = Phys(l)
                      /\ D \in Entries /\ D.kind = "page" =>
                           lookup(call.dst, a) = Page(D.frame + (a - v), D.w)
                      /\ ~sigma0 => /\ Origin(call, a) \notin Kernel /\ Origin(call, a) \in Addrs
                                    /\ SlotOf(Origin(call, a)) = SlotOf(f)
<1> DEFINE f == l.f_addr
           v == l.t_addr
           n == Count(call)
           D == dst.dir[SlotOf(v)]
           E == src.dir[SlotOf(f)]
           P == Phys(l)
           W == IF sigma0 THEN TRUE ELSE E.w
<1>1. /\ l \in MapLocals /\ IsDir(src) /\ IsDir(dst) /\ Empty(dst)
      /\ l.pgsize = PageSize(n) /\ sigma0 \in BOOLEAN /\ IsDir(call.dst)
      /\ sigma0 \/ (f \in Addrs /\ is_valid(src, l.fpg) /\ ~is_subtree(src, l.fpg))
      /\ v \in Addrs /\ ~TooLarge(Sender)
  BY DEF MapEntry, Sending, Mapping, UserArea, MapInv, MapCall, sigma0
<1>2. /\ f \in Nat /\ v \in Nat /\ Shift \in Int /\ Width \in Nat /\ Width >= 2 /\ n \in Nat /\ n >= 1
      /\ l.pgsize \in {0, 1} /\ (l.pgsize = 0 <=> n < Width)
      /\ From(call) \in Nat /\ To(call) \in Nat /\ Shift = To(call) - From(call) /\ FromEnd = From(call) + n
  <2>1. f \in Nat /\ v \in Nat
    BY <1>1 DEF MapLocals
  <2>2. l.pgsize \in {0, 1} /\ (l.pgsize = 0 <=> n < Width)
    BY <1>1, Sizes
  <2> QED BY <2>1, <2>2, MapNats, PageSizes DEF Shift, FromEnd
<1>3. l.pgsize = 1 /\ Sender = l
  <2>1. l.f_size = 1 /\ l.t_size = 1
    BY DEF AtBoth
  <2>2. Sender.t_size = 1 /\ Sender.pgsize = l.pgsize
    BY <2>1, <1>1, SenderIs
  <2>3. l.pgsize = 1
    BY <2>2, <1>1, <1>2 DEF TooLarge
  <2>4. ~(l.f_size > l.pgsize) /\ l.f_size = l.pgsize
    BY <2>1, <2>3
  <2> QED BY <2>3, <2>4, <1>1, SameSender
<1>4. /\ l.f_num >= 1 /\ l.f_num \in Int /\ v = f + Shift /\ From(call) <= f
      /\ (sigma0 \/ l.fpg = <<1, SlotOf(f)>>) /\ (f % Width) = 0 /\ (v % Width) = 0 /\ f + l.f_num * Width = FromEnd
      /\ SameFrom(src, call.src, SlotOf(f), f) /\ SameFrom(dst, call.dst, SlotOf(v), v)
  BY <1>1, <1>3 DEF AtBoth, MapLocals
<1>5. SlotOf(v) \in 0 .. Slots - 1 /\ D \in Entries \cup {Tree} /\ D = call.dst.dir[SlotOf(v)]
  <2>1. SlotOf(v) \in 0 .. Slots - 1 /\ D \in Entries \cup {Tree}
    BY <1>1, LookupIs
  <2> QED BY <2>1, <1>4 DEF SameFrom
<1>6. n >= Width
  BY <1>2, <1>3
<1>7. ~sigma0 =>
        /\ f \in Addrs /\ SlotOf(f) \in 0 .. Slots - 1 /\ f \notin Kernel /\ E \in Entries /\ E.kind = "page"
        /\ E = call.src.dir[SlotOf(f)] /\ Entry(src, l.fpg) = E /\ E.frame \in Nat /\ E.w \in BOOLEAN
  <2> SUFFICES ASSUME ~sigma0
               PROVE  /\ f \in Addrs /\ SlotOf(f) \in 0 .. Slots - 1 /\ f \notin Kernel /\ E \in Entries /\ E.kind = "page"
                      /\ E = call.src.dir[SlotOf(f)] /\ Entry(src, l.fpg) = E /\ E.frame \in Nat /\ E.w \in BOOLEAN
    OBVIOUS
  <2>1. f \in Addrs /\ SlotOf(f) \in 0 .. Slots - 1 /\ E \in Entries \cup {Tree}
    BY <1>1, LookupIs
  <2>2. E = call.src.dir[SlotOf(f)]
    BY <2>1, <1>4 DEF SameFrom
  <2>3. Entry(src, l.fpg) = E
    BY <1>4 DEF Entry
  <2>4. E.kind # "none" /\ E.kind # "tree"
    BY <2>3, <1>1 DEF is_valid, is_subtree
  <2>5. E \in Entries /\ E.kind = "page" /\ E.frame \in Nat /\ E.w \in BOOLEAN
    BY <2>1, <2>4, EntryKinds
  <2>6. f \notin Kernel
    BY <2>1, <2>2, <2>5 DEF MapCall
  <2> QED BY <2>1, <2>2, <2>3, <2>5, <2>6
<1>8. P \in Nat /\ W \in BOOLEAN /\ P = IF sigma0 THEN f ELSE E.frame
  BY <1>1, <1>2, <1>7 DEF Phys
<1>9. v + Width <= To(call) + n /\ To(call) <= v
  <2>1. l.f_num * Width >= Width /\ l.f_num * Width \in Int
    BY <1>2, <1>4
  <2> QED BY <2>1, <1>2, <1>4
<1> HIDE DEF P, W, D, E
<1>10. ASSUME NEW a \in Addrs, v <= a, a < v + Width
       PROVE  /\ SlotOf(a) = SlotOf(v) /\ (a % Width) = a - v /\ a - v \in Nat
              /\ a \in Window(call) /\ SenderLarge(call, a)
              /\ Source(call, a) = Page(P + (a - v), W)
              /\ Source(call, a).frame = P + (a - v)
              /\ ~sigma0 => /\ Origin(call, a) \notin Kernel /\ Origin(call, a) \in Addrs
                            /\ SlotOf(Origin(call, a)) = SlotOf(f)
  <2>1. a \in Nat
    BY AddrNat
  <2>2. a - Shift \in Nat /\ SlotOf(a - Shift) = SlotOf(f) /\ SlotOf(a) = SlotOf(v)
        /\ (a - Shift) % Width = a - v /\ (a % Width) = a - v
    BY <2>1, <1>2, <1>4, <1>10, SlotShift
  <2>3. a - v \in Nat /\ a \in Window(call) /\ Origin(call, a) = a - Shift
    <3>1. a - v \in Nat /\ To(call) <= a /\ a < To(call) + n
      BY <2>1, <1>2, <1>9, <1>10
    <3> QED BY <3>1, <2>1, MapNats
  <2>4. Source(call, a) = Page(P + (a - v), W)
    <3>1. CASE sigma0
      <4>1. Source(call, a) = Page(Origin(call, a), TRUE)
        BY <3>1, <2>1, SourceIs
      <4>2. Origin(call, a) = P + (a - v) /\ W = TRUE
        BY <3>1, <2>1, <2>3, <1>2, <1>4, <1>8 DEF W
      <4> QED BY <4>1, <4>2
    <3>2. CASE ~sigma0
      <4>1. call.src.dir[SlotOf(f)].kind = "page" /\ call.src.dir[SlotOf(f)] = E
        BY <3>2, <1>7
      <4>2. Source(call, a) = Page(E.frame + ((a - Shift) % Width), E.w)
        BY <3>2, <4>1, <2>1, <2>2, <1>4, <1>7, LargeSource
      <4>3. P = E.frame /\ W = E.w
        BY <3>2, <1>8 DEF W
      <4> QED BY <4>2, <4>3, <2>2
    <3> QED BY <3>1, <3>2
  <2>5. Source(call, a).frame = P + (a - v)
    <3>1. PICK q \in Nat : q = P + (a - v)
      BY <2>3, <1>8
    <3>2. Page(q, W).frame = q
      BY <1>8, EntryKinds
    <3> QED BY <3>1, <3>2, <2>4
  <2>6. ~sigma0 => /\ Origin(call, a) \notin Kernel /\ Origin(call, a) \in Addrs
                   /\ SlotOf(Origin(call, a)) = SlotOf(f) /\ call.src.dir[SlotOf(Origin(call, a))].kind = "page"
    <3> SUFFICES ASSUME ~sigma0
                 PROVE  /\ Origin(call, a) \notin Kernel /\ Origin(call, a) \in Addrs
                        /\ SlotOf(Origin(call, a)) = SlotOf(f) /\ call.src.dir[SlotOf(Origin(call, a))].kind = "page"
      OBVIOUS
    <3>1. Origin(call, a) \in Nat /\ SlotOf(Origin(call, a)) = SlotOf(f)
      BY <2>2, <2>3
    <3>2. Origin(call, a) \in Addrs
      BY <3>1, <1>7, InDirectory DEF SlotOf
    <3>3. call.src.dir[SlotOf(Origin(call, a))].kind = "page"
      BY <3>1, <1>7
    <3> QED BY <3>1, <3>2, <3>3 DEF MapCall
  <2>7. SenderLarge(call, a)
    <3>1. CASE sigma0
      BY <3>1, <1>6 DEF SenderLarge, sigma0
    <3>2. CASE ~sigma0
      BY <3>2, <2>6, LargeIs DEF SenderLarge, sigma0
    <3> QED BY <3>1, <3>2
  <2> QED BY <2>2, <2>3, <2>4, <2>5, <2>6, <2>7
<1>11. ASSUME NEW a \in Addrs, v <= a, a < v + Width PROVE a \notin Kernel
  <2>1. a \in Window(call) \cap Addrs /\ SenderLarge(call, a)
    BY <1>10, <1>11
  <2>2. Under(pgent(a)) \cap Kernel = {}
    BY <2>1, <1>6 DEF RegularMap
  <2>3. a \in Under(pgent(a))
    <3>1. a \in Nat /\ SlotOf(a) \in Nat
      BY AddrNat, Split DEF SlotOf
    <3> QED BY <3>1, UnderIs DEF Under, pgent, SlotOf
  <2> QED BY <2>2, <2>3
<1>12. v \notin Kernel
  BY <1>1, <1>2, <1>11
<1>13. ASSUME NEW a \in Addrs, v <= a, a < v + Width
       PROVE  /\ ~Blocked(call, a)
              /\ Extends(call, a) <=> D.kind = "page" /\ D.frame = P
              /\ D \in Entries /\ D.kind = "page" => lookup(call.dst, a) = Page(D.frame + (a - v), D.w)
  <2>1. SlotOf(a) = SlotOf(v) /\ (a % Width) = a - v /\ a - v \in Nat /\ SenderLarge(call, a)
        /\ Source(call, a).frame = P + (a - v)
    BY <1>10, <1>13
  <2>2. Large(call.dst, a) <=> D.kind = "page"
    BY <2>1, <1>5, LargeIs
  <2>3. ASSUME D.kind = "page"
        PROVE  /\ lookup(call.dst, a) = Page(D.frame + (a - v), D.w) /\ lookup(call.dst, a).kind = "page"
               /\ lookup(call.dst, a).frame = D.frame + (a - v) /\ D.frame \in Nat
    <3>1. D \in Entries /\ D.frame \in Nat /\ D.w \in BOOLEAN
      BY <2>3, <1>5, EntryKinds
    <3>2. lookup(call.dst, a) = Page(D.frame + (a - v), D.w)
      BY <2>1, <2>3, <3>1, <1>1, <1>2, <1>5, LargeShows
    <3>3. PICK q \in Nat : q = D.frame + (a - v)
      BY <2>1, <3>1
    <3>4. Page(q, D.w).kind = "page" /\ Page(q, D.w).frame = q
      BY <3>1, EntryKinds
    <3> QED BY <3>1, <3>2, <3>3, <3>4
  <2>4. Large(call.dst, a) \in BOOLEAN /\ SenderLarge(call, a) \in BOOLEAN
    <3>1. \A t, b : Large(t, b) \in BOOLEAN
      BY DEF Large
    <3>2. SenderLarge(call, a) \in BOOLEAN
      <4>1. CASE call.sigma0
        BY <4>1 DEF SenderLarge
      <4>2. CASE ~call.sigma0
        BY <4>2, <3>1 DEF SenderLarge
      <4> QED BY <4>1, <4>2
    <3> QED BY <3>1, <3>2
  <2>5. CASE D.kind = "page"
    <3>1. Extends(call, a) <=> D.frame + (a - v) = P + (a - v)
      BY <2>1, <2>2, <2>3, <2>4, <2>5 DEF Extends
    <3>2. D.frame \in Nat
      BY <2>3, <2>5
    <3> QED BY <3>1, <3>2, <2>1, <2>3, <2>5, <1>8 DEF Blocked
  <2>6. CASE D.kind # "page"
    BY <2>1, <2>2, <2>4, <2>6 DEF Blocked, Extends
  <2> QED BY <2>5, <2>6
<1>14. /\ sigma0 => W = TRUE
       /\ ~sigma0 => /\ f \in Addrs /\ SlotOf(f) \in 0 .. Slots - 1 /\ f \notin Kernel
                     /\ src.dir[SlotOf(f)].kind = "page" /\ Entry(src, l.fpg).w = W
  BY <1>7 DEF W, E
<1> QED BY <1>1, <1>3, <1>5, <1>8, <1>10, <1>11, <1>12, <1>13, <1>14 DEF P, D

\* A large page is mapped in the directory.
LEMMA MapsLarge ==
  ASSUME MapCall, RegularMap, MapInv(l, src, dst), MapEntry, AtBoth(l, src, dst)
  PROVE  MapInv(l', src', dst')
<1> DEFINE f == l.f_addr
           v == l.t_addr
           k == SlotOf(v)
           D == dst.dir[k]
           P == Phys(l)
<1>1. /\ l \in MapLocals /\ IsDir(src) /\ IsDir(dst) /\ Empty(dst) /\ IsDir(call.dst)
      /\ l.pgsize = PageSize(Count(call)) /\ sigma0 \in BOOLEAN /\ call.w \in BOOLEAN
      /\ v \in Nat /\ Width \in Nat /\ Width >= 2 /\ page_size(1) = Width
  BY PageSizes DEF MapInv, MapCall, sigma0, MapLocals
<1>2. /\ l.f_size = 1 /\ l.t_size = 1 /\ l.f_off = 0 /\ (sigma0 \/ l.fpg = <<1, SlotOf(f)>>) /\ l.tpg = <<1, k>>
      /\ MapReached(src, dst, v)
  BY DEF AtBoth
<1>3. /\ l.pgsize = 1 /\ Sender = l /\ v \in Addrs /\ k \in 0 .. Slots - 1
      /\ D \in Entries \cup {Tree} /\ P \in Nat /\ v \notin Kernel
  BY LargeEntry
<1>4. PICK W \in BOOLEAN :
        /\ sigma0 => W = TRUE
        /\ ~sigma0 => /\ f \in Addrs /\ SlotOf(f) \in 0 .. Slots - 1 /\ f \notin Kernel
                      /\ src.dir[SlotOf(f)].kind = "page" /\ Entry(src, l.fpg).w = W
        /\ \A a \in Addrs : v <= a /\ a < v + Width =>
             /\ SlotOf(a) = k /\ (a % Width) = a - v /\ a - v \in Nat
             /\ a \in Window(call) /\ a \notin Kernel
             /\ Source(call, a) = Page(P + (a - v), W)
             /\ ~Blocked(call, a)
             /\ Extends(call, a) <=> D.kind = "page" /\ D.frame = P
             /\ D \in Entries /\ D.kind = "page" =>
                  lookup(call.dst, a) = Page(D.frame + (a - v), D.w)
             /\ ~sigma0 => /\ Origin(call, a) \notin Kernel /\ Origin(call, a) \in Addrs
                           /\ SlotOf(Origin(call, a)) = SlotOf(f)
  BY LargeEntry
<1> DEFINE same == D.kind = "page" /\ D.frame = P
           t == IF Overmaps(l) THEN Overmapped(l) ELSE dst
<1>5. Entry(dst, l.tpg) = D
  BY <1>2 DEF Entry
<1>6. Overmaps(l) <=> D.kind = "tree" \/ (D.kind = "page" /\ D.frame # P)
  <2>1. ~(v .. v + page_size(l.t_size) - 1 \subseteq Kernel)
    <3>1. v \in v .. v + Width - 1
      BY <1>1
    <3> QED BY <3>1, <1>1, <1>2, <1>3
  <2>2. l.t_size = l.f_size /\ l.f_size <= l.pgsize
    BY <1>2, <1>3
  <2>3. D.kind # "none" <=> D.kind = "tree" \/ D.kind = "page"
    BY <1>3, EntryKinds
  <2> QED BY <2>1, <2>2, <2>3, <1>5 DEF Overmaps, is_valid, is_subtree
<1>7. ~IntoTree(l)
  BY <1>5, <1>6 DEF IntoTree, is_subtree
<1>8. OnlySlot(dst, t, k) /\ t.dir[k] = (IF same THEN D ELSE None) /\ (same => t = dst)
  <2>0. OnlySlot(dst, dst, k)
    BY <1>1 DEF OnlySlot
  <2>1. CASE D.kind = "tree"
    <3>1. t = remove_subtree(dst, <<1, k>>) /\ ~same
      BY <2>1, <1>2, <1>5, <1>6 DEF Overmapped, is_subtree
    <3> QED BY <3>1, <1>1, <1>3, LargeRemoved
  <2>2. CASE D.kind = "page" /\ D.frame # P
    <3>1. t = Set(dst, <<1, k>>, None) /\ ~same
      BY <2>2, <1>2, <1>3, <1>5, <1>6 DEF Overmapped, is_subtree, is_mappable
    <3> QED BY <3>1, <2>2, <1>1, <1>3, LargeSet, EntryKinds
  <2>3. CASE same
    BY <2>0, <2>3, <1>6
  <2>4. CASE D.kind = "none"
    <3>1. t = dst /\ ~same /\ D = None
      BY <2>4, <1>3, <1>6, EntryKinds
    <3> QED BY <3>1, <2>0
  <2> QED BY <2>1, <2>2, <2>3, <2>4, <1>3, EntryKinds
<1>9. PICK g0 : g0 = (IF same THEN D ELSE None) /\ Entry(t, l.tpg) = g0 /\ (same <=> g0.kind # "none") /\ g0 \in Entries
  <2>1. Entry(t, l.tpg) = t.dir[k]
    BY <1>2 DEF Entry
  <2> QED BY <2>1, <1>3, <1>8, EntryKinds
<1>10. PartOf(l) = 0 /\ P + PartOf(l) = P /\ P + PartOf(l) - l.f_off = P
  <2>1. PartOf(l) = 0
    BY <1>2 DEF PartOf
  <2> QED BY <2>1, <1>2, <1>3
<1>11. /\ l' = Next_receiver_entry(l)
       /\ same =>
            /\ src' = src
            /\ dst' = IF Allowed(l) THEN Set(t, <<1, k>>, [D EXCEPT !.w = TRUE]) ELSE t
       /\ ~same =>
            /\ src' = IF call.grant /\ ~sigma0 THEN Set(src, l.fpg, None) ELSE src
            /\ dst' = Set(t, <<1, k>>, Page(P, IF sigma0 THEN call.w ELSE Allowed(l)))
  <2> HIDE DEF t
  <2>1. LET e == Entry(t, l.tpg)
            skip == (~sigma0 /\ l.f_addr \in Kernel) \/ l.t_addr \in Kernel
        IN /\ l' = Next_receiver_entry(l)
           /\ ~skip /\ e.kind # "none" =>
                /\ src' = src
                /\ dst' = IF e.frame = Phys(l) + PartOf(l) - l.f_off /\ Allowed(l)
                          THEN Set(t, l.tpg, [e EXCEPT !.w = TRUE]) ELSE t
           /\ ~skip /\ e.kind = "none" =>
                /\ src' = IF call.grant /\ ~sigma0 THEN Set(src, l.fpg, None) ELSE src
                /\ dst' = Set(t, l.tpg, Page(Phys(l) + PartOf(l), IF sigma0 THEN call.w ELSE Allowed(l)))
    BY <1>3, <1>7, EntryIs DEF t
  <2>2. ~((~sigma0 /\ l.f_addr \in Kernel) \/ l.t_addr \in Kernel)
    BY <1>3, <1>4
  <2>3. CASE same
    <3>1. g0 = D /\ g0.kind # "none" /\ g0.frame = P
      BY <2>3, <1>9
    <3> QED BY <3>1, <2>1, <2>2, <2>3, <1>2, <1>9, <1>10
  <2>4. CASE ~same
    <3>1. g0.kind = "none"
      BY <2>4, <1>9
    <3> QED BY <3>1, <2>1, <2>2, <2>4, <1>2, <1>9, <1>10
  <2> QED BY <2>1, <2>3, <2>4
<1>12. ~sigma0 => Allowed(l) = (call.w /\ W)
  BY <1>4 DEF Allowed
<1>13. Allowed(l) => call.w /\ W
  BY <1>4, <1>12 DEF Allowed
<1>14. PICK r \in BOOLEAN : r = IF sigma0 THEN call.w ELSE call.w /\ W
  BY <1>1
<1> HIDE DEF t, k, D, P
<1>15. /\ OnlySlot(dst, dst', k)
       /\ \A a \in Addrs : v <= a /\ a < v + Width => Changed(lookup(dst', a), a)
  <2>1. CASE same /\ Allowed(l)
    <3>1. D \in Entries /\ D.frame \in Nat /\ D.w \in BOOLEAN /\ D = Page(D.frame, D.w) /\ D.kind = "page"
      BY <2>1, <1>3, EntryKinds
    <3>2. [D EXCEPT !.w = TRUE] = Page(D.frame, TRUE)
      BY <3>1, Writable
    <3>3. PICK g \in Entries : g = Page(D.frame, TRUE) /\ g.kind = "page" /\ g.frame = D.frame /\ g.w = TRUE
      BY <3>1, EntryKinds
    <3>4. dst' = Set(dst, <<1, k>>, g)
      BY <3>2, <3>3, <2>1, <1>8, <1>11
    <3>5. OnlySlot(dst, dst', k) /\ dst'.dir[k] = g
      <4>1. dst.dir[k].kind # "tree"
        BY <3>1 DEF D
      <4> QED BY <4>1, <3>4, <1>1, <1>3, LargeSet
    <3>6. ASSUME NEW a \in Addrs, v <= a, a < v + Width PROVE Changed(lookup(dst', a), a)
      <4>1. /\ SlotOf(a) = k /\ (a % Width) = a - v /\ Source(call, a) = Page(P + (a - v), W) /\ Extends(call, a)
            /\ lookup(call.dst, a) = Page(D.frame + (a - v), D.w) /\ a - v \in Nat
        BY <3>1, <3>6, <2>1, <1>4
      <4>2. PICK q \in Nat, p \in Nat : q = D.frame + (a - v) /\ p = P + (a - v)
        BY <4>1, <3>1, <1>3
      <4>3. lookup(dst', a) = Page(q, TRUE)
        <5>1. IsDir(dst')
          BY <3>5 DEF OnlySlot
        <5>2. lookup(dst', a) = Page(g.frame + (a - v), g.w)
          BY <5>1, <4>1, <3>3, <3>5, <1>1, LargeShows
        <5> QED BY <5>2, <4>2, <3>3
      <4>4. lookup(dst', a) = [lookup(call.dst, a) EXCEPT !.w = TRUE]
        <5>1. lookup(call.dst, a) = Page(q, D.w)
          BY <4>1, <4>2
        <5>2. PICK w \in BOOLEAN : w = D.w
          BY <3>1
        <5>3. [Page(q, w) EXCEPT !.w = TRUE] = Page(q, TRUE)
          BY Writable
        <5> QED BY <5>1, <5>2, <5>3, <4>3
      <4>5. Source(call, a).w = W
        BY <4>1, <4>2, EntryKinds
      <4> QED BY <4>1, <4>4, <4>5, <2>1, <1>13 DEF Changed
    <3> QED BY <3>5, <3>6
  <2>2. CASE same /\ ~Allowed(l)
    <3>1. dst' = dst /\ D \in Entries /\ D.kind = "page"
      BY <2>2, <1>3, <1>8, <1>11, EntryKinds
    <3>2. OnlySlot(dst, dst', k)
      BY <3>1, <1>1 DEF OnlySlot
    <3>3. ASSUME NEW a \in Addrs, v <= a, a < v + Width PROVE Changed(lookup(dst', a), a)
      <4>1. Source(call, a) = Page(P + (a - v), W) /\ Extends(call, a) /\ a - v \in Nat
        BY <3>3, <2>2, <1>4
      <4>2. lookup(dst', a) = lookup(call.dst, a)
        <5>1. a \in Nat /\ ~(a < v)
          BY <3>3, <1>1, AddrNat
        <5> QED BY <5>1, <3>1, <1>2 DEF MapReached
      <4>3. PICK p \in Nat : p = P + (a - v)
        BY <4>1, <1>3
      <4>4. Source(call, a).w = W
        BY <4>1, <4>3, EntryKinds
      <4>5. sigma0 \/ ~(call.w /\ Source(call, a).w)
        BY <4>4, <2>2, <1>12
      <4> QED BY <4>1, <4>2, <4>5 DEF Changed
    <3> QED BY <3>2, <3>3
  <2>3. CASE ~same
    <3>1. PICK g \in Entries : g = Page(P, r) /\ g.kind = "page" /\ g.frame = P /\ g.w = r
      BY <1>3, EntryKinds
    <3>2. dst' = Set(t, <<1, k>>, g)
      <4>1. Page(P, IF sigma0 THEN call.w ELSE Allowed(l)) = Page(P, r)
        <5>1. CASE sigma0
          BY <5>1, <1>14
        <5>2. CASE ~sigma0
          BY <5>2, <1>12, <1>14
        <5> QED BY <5>1, <5>2
      <4> QED BY <4>1, <3>1, <2>3, <1>11
    <3>3. OnlySlot(t, dst', k) /\ dst'.dir[k] = g
      <4>1. t.dir[k] = None /\ IsDir(t) /\ Empty(t)
        BY <2>3, <1>8 DEF OnlySlot
      <4>2. t.dir[k].kind # "tree"
        BY <4>1, EntryKinds
      <4> QED BY <4>1, <4>2, <3>2, <1>3, LargeSet
    <3>4. OnlySlot(dst, dst', k)
      BY <3>3, <1>8, OnlySlotTwice
    <3>5. ASSUME NEW a \in Addrs, v <= a, a < v + Width PROVE Changed(lookup(dst', a), a)
      <4>1. /\ SlotOf(a) = k /\ (a % Width) = a - v /\ Source(call, a) = Page(P + (a - v), W) /\ ~Extends(call, a)
            /\ a - v \in Nat /\ (~sigma0 => Origin(call, a) \notin Kernel)
        BY <3>5, <2>3, <1>4
      <4>2. PICK p \in Nat : p = P + (a - v)
        BY <4>1, <1>3
      <4>3. Source(call, a).w = W /\ Source(call, a).frame = p
        BY <4>1, <4>2, EntryKinds
      <4>4. lookup(dst', a) = Page(p, r)
        <5>1. IsDir(dst')
          BY <3>3 DEF OnlySlot
        <5>2. lookup(dst', a) = Page(g.frame + (a - v), g.w)
          BY <5>1, <4>1, <3>1, <3>3, <1>1, LargeShows
        <5> QED BY <5>2, <4>2, <3>1
      <4>5. Changed(Page(Source(call, a).frame, IF sigma0 THEN call.w ELSE call.w /\ Source(call, a).w), a)
        <5>1. Source(call, a).w \in BOOLEAN /\ (sigma0 => Source(call, a).w = TRUE)
              /\ (sigma0 \/ Origin(call, a) \notin Kernel)
          BY <4>1, <4>3, <1>4
        <5> QED BY <5>1, <4>1, NewChanges
      <4> QED BY <4>3, <4>4, <4>5, <1>14
    <3> QED BY <3>4, <3>5
  <2> QED BY <2>1, <2>2, <2>3
<1>16. /\ IsDir(src')
       /\ \A j \in 0 .. Slots - 1 : j # SlotOf(f) => src'.dir[j] = src.dir[j]
       /\ \A b \in Addrs : SlotOf(b) # SlotOf(f) => src'.tab[b] = src.tab[b]
       /\ \A b \in Addrs : lookup(src, b) = None => lookup(src', b) = None
       /\ ~same /\ call.grant /\ ~sigma0 => \A b \in Addrs : SlotOf(b) = SlotOf(f) => lookup(src', b) = None
  <2>1. CASE ~same /\ call.grant /\ ~sigma0
    <3>1. src' = Set(src, <<1, SlotOf(f)>>, None) /\ SlotOf(f) \in 0 .. Slots - 1
      BY <2>1, <1>2, <1>4, <1>11
    <3>2. /\ IsDir(src') /\ src'.dir = [src.dir EXCEPT ![SlotOf(f)] = None] /\ src'.tab = src.tab
          /\ \A a \in Addrs : SlotOf(a) # SlotOf(f) => lookup(src', a) = lookup(src, a)
      <4>1. None \in Entries \cup {Tree}
        BY EntryKinds
      <4>2. PICK s2 : s2 = Set(src, <<1, SlotOf(f)>>, None)
        OBVIOUS
      <4>3. /\ IsDir(s2) /\ s2.dir = [src.dir EXCEPT ![SlotOf(f)] = None] /\ s2.tab = src.tab
            /\ \A a \in Addrs : SlotOf(a) # SlotOf(f) => lookup(s2, a) = lookup(src, a)
        BY <4>1, <4>2, <3>1, <1>1, SetDir
      <4> QED BY <4>2, <4>3, <3>1
    <3>3. src'.dir[SlotOf(f)] = None /\ \A j \in 0 .. Slots - 1 : j # SlotOf(f) => src'.dir[j] = src.dir[j]
      BY <3>1, <3>2, <1>1 DEF IsDir
    <3>4. ASSUME NEW b \in Addrs, SlotOf(b) = SlotOf(f) PROVE lookup(src', b) = None
      <4>1. PICK s2 : s2 = src'
        OBVIOUS
      <4>2. IsDir(s2) /\ s2.dir[SlotOf(b)] = None
        BY <4>1, <3>2, <3>3, <3>4
      <4>3. s2.dir[SlotOf(b)].kind = "none"
        BY <4>2, EntryKinds
      <4>4. lookup(s2, b) = None
        BY <4>2, <4>3, LookupIs
      <4> QED BY <4>1, <4>4
    <3> QED BY <3>2, <3>3, <3>4
  <2>2. CASE ~(~same /\ call.grant /\ ~sigma0)
    <3>1. src' = src
      BY <2>2, <1>11
    <3> QED BY <3>1, <2>2, <1>1
  <2> QED BY <2>1, <2>2
<1>17. MapReached(src', dst', v + Width)
  <2>1. v + Width \in Nat /\ v <= v + Width
    BY <1>1
  <2>2. ASSUME NEW a \in Addrs, a < v \/ v + Width <= a PROVE lookup(dst', a) = lookup(dst, a)
    <3>1. (v % Width) = 0
      BY <1>3 DEF AtBoth
    <3>2. a \in Nat /\ ~(v <= a /\ a < v + Width)
      BY <2>2, <1>1, AddrNat
    <3>3. SlotOf(a) # k
      BY <3>1, <3>2, <1>1, UnderEntry DEF k
    <3> QED BY <3>3, <1>15 DEF OnlySlot
  <2>3. ASSUME NEW a \in Addrs, v <= a, a < v + Width PROVE Shows(dst', a) /\ Granted(src', a)
    <3>1. /\ Source(call, a) = Page(P + (a - v), W) /\ a - v \in Nat /\ a \in Window(call) /\ a \notin Kernel
          /\ ~Blocked(call, a) /\ (Extends(call, a) <=> same)
          /\ (~sigma0 => Origin(call, a) \in Addrs /\ SlotOf(Origin(call, a)) = SlotOf(f))
      BY <2>3, <1>4
    <3>2. PICK p \in Nat : p = P + (a - v)
      BY <3>1, <1>3
    <3>3. Source(call, a).kind = "page"
      BY <3>1, <3>2, EntryKinds
    <3>4. Changed(lookup(dst', a), a)
      BY <2>3, <1>15
    <3>5. Shows(dst', a)
      BY <3>1, <3>3, <3>4, ChangedShows
    <3>6. Granted(src', a)
      <4>1. Maps(call, a) => ~same
        BY <3>1 DEF Maps
      <4> QED BY <4>1, <3>1, <1>16 DEF Granted
    <3> QED BY <3>5, <3>6
  <2>4. PICK s2, t2 : s2 = src' /\ t2 = dst'
    OBVIOUS
  <2>5. MapReached(s2, t2, v + Width)
    <3>1. \A a \in Addrs : a < v \/ v + Width <= a => lookup(t2, a) = lookup(dst, a)
      BY <2>2, <2>4
    <3>2. \A a \in Addrs : v <= a /\ a < v + Width => Shows(t2, a) /\ Granted(s2, a)
      BY <2>3, <2>4
    <3>3. \A b \in Addrs : lookup(src, b) = None => lookup(s2, b) = None
      BY <2>4, <1>16
    <3> QED BY <3>1, <3>2, <3>3, <2>1, <1>1, <1>2, ReachedNext
  <2> QED BY <2>4, <2>5
<1>18. MapInv(Next_receiver_entry(l), src', dst')
  <2>1. PICK s2, t2 : s2 = src' /\ t2 = dst'
    OBVIOUS
  <2>2. IsDir(s2) /\ IsDir(t2) /\ Empty(t2) /\ MapReached(s2, t2, l.t_addr + Width)
    BY <2>1, <1>15, <1>16, <1>17 DEF OnlySlot
  <2>3. /\ \A j \in 0 .. Slots - 1 : j # SlotOf(l.f_addr) => s2.dir[j] = src.dir[j]
        /\ \A j \in 0 .. Slots - 1 : j # SlotOf(l.t_addr) => t2.dir[j] = dst.dir[j]
        /\ \A b \in Addrs : SlotOf(b) # SlotOf(l.f_addr) => s2.tab[b] = src.tab[b]
        /\ \A a \in Addrs : SlotOf(a) # SlotOf(l.t_addr) => t2.tab[a] = dst.tab[a]
    BY <2>1, <1>15, <1>16 DEF OnlySlot, k
  <2>4. MapInv(Next_receiver_entry(l), s2, t2)
    BY <2>2, <2>3, <1>1, <1>3, AtBothMoves
  <2> QED BY <2>1, <2>4
<1> QED BY <1>11, <1>18

\* Each way of changing an entry.
LEMMA MapsEntry ==
  ASSUME MapCall, RegularMap, MapInv(l, src, dst), MapEntry
  PROVE  MapInv(l', src', dst')
<1>1. MapWalking(l, src, dst) /\ l \in MapLocals /\ sigma0 \in BOOLEAN /\ ~TooLarge(Sender)
      /\ l.pgsize = PageSize(Count(call))
  BY DEF MapEntry, Sending, Mapping, MapInv, MapCall, sigma0
<1>2. ~AtReceiver(l, src, dst)
  <2> SUFFICES ASSUME AtReceiver(l, src, dst) PROVE FALSE
    OBVIOUS
  <2>1. ~sigma0 /\ l.f_size = 0 /\ l.t_size = 1
    BY DEF AtReceiver
  <2>2. Sender.f_size = 0 /\ Sender.t_size = 1
    BY <2>1, <1>1, SenderIs
  <2> QED BY <2>2, <1>1 DEF TooLarge
<1> QED BY <1>1, <1>2, MapsLarge, MapsSmall, MapsParts DEF MapWalking

\* The call stays what it is, and with it what has to be done.
LEMMA SameMap ==
  ASSUME call' = call, MapInv(l', src', dst')
  PROVE  MapInv(l, src, dst)'
BY DEF MapInv, MapWalking, AtBoth, AtReceiver, InBoth, InParts, InSender, InReceiver, Rest,
       FromEnd, Shift, MapReached, Shows, Granted, sigma0

MapWalk == CallInv /\ (call.op = "map" => MapInv(l, src, dst))

(***************************************************************************)
(* map_fpage maps exactly what the two fpages have in common, for every     *)
(* width of the page tables, every directory and every regular call: when   *)
(* the loop ends, each address of the receive window shows the sender's     *)
(* page with the rights both allow, a grant has taken it from the sender,   *)
(* and nothing else has changed, whatever mixture of large pages, page      *)
(* tables and holes was found on the two sides.                             *)
(***************************************************************************)
THEOREM MapTouchesItsPages ==
  ASSUME "all" \notin Env
  PROVE  Spec => []MapExact
<1>1. Init => MapWalk
  <2> SUFFICES ASSUME Init PROVE MapWalk
    OBVIOUS
  <2>1. CallInv
    BY CallStarts
  <2>2. ASSUME call.op = "map" PROVE MapInv(l, src, dst)
    <3>1. MapCall
      BY <2>1, <2>2, MapIsRegular DEF CallInv
    <3>2. MapInit(call) /\ src = call.src /\ dst = call.dst
      BY <2>2 DEF Init
    <3> QED BY <3>1, <3>2, MapStarts
  <2> QED BY <2>1, <2>2 DEF MapWalk
<1>2. MapWalk /\ [Next]_vars => MapWalk'
  <2> SUFFICES ASSUME MapWalk, [Next]_vars PROVE MapWalk'
    OBVIOUS
  <2>1. CallInv' /\ call' = call
    BY CallKept DEF MapWalk
  <2>2. ASSUME call.op = "map" PROVE MapInv(l, src, dst)'
    <3>1. MapCall /\ RegularMap /\ MapInv(l, src, dst)
      BY <2>2, MapIsRegular DEF MapWalk, CallInv
    <3>2. MapInv(l', src', dst')
      <4>1. CASE KernelArea
        BY <4>1, <3>1, MapLeaves
      <4>2. CASE SenderInvalid
        BY <4>2, <3>1, MapSkips
      <4>3. CASE SenderDown
        BY <4>3, <3>1, MapEnters
      <4>4. CASE ReceiverDown
        BY <4>4, <3>1, MapDescends
      <4>5. CASE MapEntry
        BY <4>5, <3>1, MapsEntry
      <4>6. CASE Done \/ UNCHANGED vars
        <5>1. l' = l /\ src' = src /\ dst' = dst
          BY <4>6 DEF Done, vars
        <5> QED BY <5>1, <3>1
      <4> QED
        BY <2>2, <4>1, <4>2, <4>3, <4>4, <4>5, <4>6
        DEF Next, UnmapBreak, UnmapDown, UnmapEntry, Unmapping
    <3> QED BY <3>2, <2>1, SameMap
  <2> QED BY <2>1, <2>2 DEF MapWalk
<1>3. MapWalk => MapExact
  BY DEF MapWalk, MapExact, MapInv
<1> QED BY <1>1, <1>2, <1>3, PTL DEF Spec
=============================================================================
