--------------------------- MODULE IpoDiskProofs ---------------------------
(***************************************************************************)
(* Proofs about IpoDisk: what a reset, a failed read or a failed write at  *)
(* any moment leaves on the disk, for every number of inodes, blocks and   *)
(* directory entries, every set of names, and any number of calls and of   *)
(* faults.                                                                 *)
(*                                                                         *)
(* The invariant speaks of a set G of "good" inodes: it holds the root, it *)
(* is closed under the names its directories hold, and its inodes and      *)
(* blocks are allocated and apart.  What a path leads to is in G; what a   *)
(* call cut off leaves behind is outside, and may be anything.             *)
(***************************************************************************)
EXTENDS IpoDisk, FiniteSetTheorems, SequenceTheorems, TLAPS

-----------------------------------------------------------------------------
(***************************************************************************)
(* Types.                                                                  *)
(***************************************************************************)
Modes == {"none", "dir", "file"}
Dots == {NoName, ".", ".."}
EntryT == {e \in [inode : 0 .. INODE_COUNT, type : Modes, name : Names \cup Dots \cup {"app", "autorun"}] :
             e.inode = 0 => e.name = NoName}
NodeT == [mode : Modes, prot : BOOLEAN, size : 0 .. MAX_ENTRIES, block : 0 .. NBLOCKS]
BlockT == [slot : [Slots -> EntryT], data : 0 .. INODE_COUNT]
DiskT == [super : BOOLEAN, ibit : SUBSET Inodes, bbit : SUBSET Blocks,
          node : [Inodes -> NodeT], block : [Blocks -> BlockT]]

\* What a step works on, and what it carries.
OnBlock == {"block bit", "zero", "slot", "data", "dots"}
OnInode == {"inode bit", "inode", "dots_block", "dir_add_entry", "dir_remove_entry", "update_dots",
            "free_inode"}
OnDisk == {"superblock", "inode bitmap", "block bitmap", "ensure_fs_mounted", "ipo_fs_mount",
           "protected_app", "protected_autorun"}
AtOf(do) == IF do \in OnBlock THEN Blocks ELSE IF do \in OnInode THEN Inodes ELSE {0}
ValOf(do) ==
  CASE do \in {"inode bit", "block bit"} -> BOOLEAN
    [] do \in {"inode", "dots_block"} -> NodeT
    [] do = "slot" -> Slots \X EntryT
    [] do = "dots" -> Inodes \X {ROOT}
    [] do \in {"data", "update_dots"} -> Inodes
    [] do = "dir_add_entry" -> {e \in EntryT : e.inode # 0}
    [] do = "dir_remove_entry" -> Names
    [] OTHER -> {0}

Mends == {Step("free_inode", i, 0, Ignored) : i \in Inodes}
         \cup {write_inode(p[1], p[2], Ignored) : p \in Inodes \X NodeT}
Errs == [fatal : BOOLEAN, then : {<< >>} \cup {<<s>> : s \in Mends}]
StepT == UNION {[do : {x}, at : AtOf(x), val : ValOf(x), err : Errs] : x \in OnBlock \cup OnInode \cup OnDisk}

-----------------------------------------------------------------------------
(***************************************************************************)
(* A disk D and the names on it.                                           *)
(***************************************************************************)
SlotIn(D, i, k) == D.block[D.node[i].block].slot[k]
LiveIn(D, i) ==
  IF D.node[i].mode # "dir" \/ D.node[i].block = 0 THEN {}
  ELSE {k \in 0 .. (D.node[i].size - 1) : SlotIn(D, i, k).inode # 0 /\ SlotIn(D, i, k).name \notin Dots}
Linked(D, i) == {SlotIn(D, i, k).inode : k \in LiveIn(D, i)}
Closed(D, C) == \A i \in C : Linked(D, i) \subseteq C
Owned(D, G) == {D.node[i].block : i \in G}

\* No entry of a directory of G hides another of its name.
Distinct(D, G) ==
  \A i \in G : \A k, l \in LiveIn(D, i) : SlotIn(D, i, k).name = SlotIn(D, i, l).name => k = l
\* Names lead to inodes of G, of the type the entry says, never to the root.
Linking(D, G) ==
  /\ ROOT \in G /\ G \subseteq Inodes /\ Distinct(D, G)
  /\ \A i \in G : \A k \in LiveIn(D, i) :
       LET e == SlotIn(D, i, k)
       IN  e.inode \in G /\ e.inode # ROOT /\ D.node[e.inode].mode = e.type
\* Inodes of G and their blocks are allocated, and each block is one's own.
Apart(D, G) ==
  /\ G \subseteq D.ibit
  /\ \A i \in G : LET b == D.node[i].block
                  IN  b # 0 => b \in D.bbit /\ D.block[b].data \in {0, i}
  /\ \A i, j \in G : D.node[i].block # 0 /\ D.node[i].block = D.node[j].block => i = j
\* An inode has one name, not counting those in X.
Unique(D, G, X) ==
  \A i, j \in G : \A k \in LiveIn(D, i), l \in LiveIn(D, j) :
    /\ <<i, k>> \notin X /\ <<j, l>> \notin X
    /\ SlotIn(D, i, k).inode = SlotIn(D, j, l).inode
    => i = j /\ k = l
\* /app and /autorun are there, and protected.
Special(D, n) ==
  /\ \E k \in LiveIn(D, ROOT) : SlotIn(D, ROOT, k).name = n
  /\ \A k \in LiveIn(D, ROOT) : SlotIn(D, ROOT, k).name = n => D.node[SlotIn(D, ROOT, k).inode].prot
Protected(D) == Special(D, "app") /\ Special(D, "autorun")

Sound(D, G) == Linking(D, G) /\ Apart(D, G)
Good(D, G) == Sound(D, G) /\ Unique(D, G, {}) /\ Protected(D)

\* k is the entry a search for n in directory d finds, and it leads to i.
FoundAt(D, d, n, k, i) ==
  /\ k \in LiveIn(D, d) /\ SlotIn(D, d, k).name = n /\ SlotIn(D, d, k).inode = i
  /\ \A l \in LiveIn(D, d) : SlotIn(D, d, l).name = n => k <= l

\* The least set of inodes that holds i and is closed under names.
BelowIn(D, i) == {j \in Inodes : \A C \in SUBSET Inodes : i \in C /\ Closed(D, C) => j \in C}

-----------------------------------------------------------------------------
(***************************************************************************)
(* How far a call is, with no fault behind it that left a mark.            *)
(***************************************************************************)
\* Inode i is complete and nobody has its block.
Newborn(D, G, i, t) ==
  /\ i \in Inodes \ G /\ i \in D.ibit /\ D.node[i].mode = t /\ LiveIn(D, i) = {}
  /\ LET b == D.node[i].block
     IN  b # 0 => b \in D.bbit /\ b \notin Owned(D, G) /\ D.block[b].data = 0

Counted(n, p) == [n EXCEPT !.size = n.size + 1, !.block = p]
\* Block p will take the next entry of directory d.
Takes(D, G, d, p) ==
  /\ d \in G /\ D.node[d].mode = "dir" /\ D.node[d].size < MAX_ENTRIES
  /\ D.node[d].block = p \/ (D.node[d].block = 0 /\ p \notin Owned(D, G))
Blank0(D, p, s) == D.block[p].data = 0 /\ \A k \in Slots \ {s} : D.block[p].slot[k] = NoEntry
\* Directory d has no name like that of entry e.
Fresh(D, d, e) == \A l \in LiveIn(D, d) : SlotIn(D, d, l).name # e.name
\* The writes of dir_add_entry() that are left.
Adding(D, G, d, e, p, err, rest, td) ==
  LET n == D.node[d]
  IN  /\ Takes(D, G, d, p) /\ Fresh(D, d, e)
      /\ \/ /\ n.block = 0
            /\ td = <<bitmap_set_block(p, TRUE, err), zero_block(p, err), write_slot(p, n.size, e, err),
                      write_inode(d, Counted(n, p), Ignored)>> \o rest
         \/ /\ n.block = 0 /\ p \in D.bbit
            /\ td = <<zero_block(p, err), write_slot(p, n.size, e, err),
                      write_inode(d, Counted(n, p), Ignored)>> \o rest
         \/ /\ n.block = 0 => p \in D.bbit /\ Blank0(D, p, n.size)
            /\ td = <<write_slot(p, n.size, e, err), write_inode(d, Counted(n, p), Ignored)>> \o rest
         \/ /\ n.block = 0 => p \in D.bbit /\ Blank0(D, p, n.size)
            /\ D.block[p].slot[n.size] = e
            /\ td = <<write_inode(d, Counted(n, p), Ignored)>> \o rest

\* The inode i of no name is given back.
Cleaning(D, G, td) ==
  \E i \in Inodes \ G :
    \/ /\ td = <<Step("free_inode", i, 0, Ignored)>>
       /\ D.node[i].block # 0 => D.node[i].block \notin Owned(D, G)
    \/ \E n \in NodeT :
         \/ \E b \in Blocks \ Owned(D, G) :
              td = <<bitmap_set_block(b, FALSE, Ignored), bitmap_set_inode(i, FALSE, Ignored),
                     write_inode(i, n, Ignored)>>
         \/ td = <<bitmap_set_inode(i, FALSE, Ignored), write_inode(i, n, Ignored)>>
         \/ td = <<write_inode(i, n, Ignored)>>

Undo(i) == Instead(<<Step("free_inode", i, 0, Ignored)>>)
NewInode(t) == Inode(t, FALSE, 0, 0)
Creating(D, G, td) ==
  \/ Cleaning(D, G, td)
  \/ \E i \in Inodes \ G, d \in G, n \in Names, t \in Types :
       LET add == Step("dir_add_entry", d, Entry(i, t, n), Undo(i))
           new == write_inode(i, NewInode(t), Ignored)
       IN  \/ td = <<bitmap_set_inode(i, TRUE, Fatal), write_inode(i, ZeroInode, Ignored), new, add>>
           \/ i \in D.ibit /\ td = <<write_inode(i, ZeroInode, Ignored), new, add>>
           \/ i \in D.ibit /\ td = <<new, add>>
           \/ i \in D.ibit /\ D.node[i] = NewInode(t) /\ td = <<add>>
           \/ /\ i \in D.ibit /\ D.node[i] = NewInode(t)
              /\ \E p \in Blocks : Adding(D, G, d, Entry(i, t, n), p, Undo(i), << >>, td)

Deleting(D, G, v, td) ==
  \/ Cleaning(D, G, td)
  \/ \E d \in G, n \in Names, k \in Slots :
       /\ FoundAt(D, d, n, k, v)
       /\ ~D.node[v].prot
       /\ \/ td = <<Step("dir_remove_entry", d, n, Fatal), Step("free_inode", v, 0, Ignored)>>
          \/ td = <<write_slot(D.node[d].block, k, NoEntry, Fatal), Step("free_inode", v, 0, Ignored)>>

RenameRest(d, n, to, i, t) ==
  (IF t = "dir" THEN <<Step("update_dots", i, to, Fatal)>> ELSE << >>)
  \o <<Step("dir_remove_entry", d, n, Fatal)>>
\* Inode i moves from entry k of directory d, named n, to directory `to';
\* nothing below i leads there.
Moving(D, G, d, n, k, to, i, t) ==
  /\ FoundAt(D, d, n, k, i) /\ ~D.node[i].prot /\ D.node[i].mode = t
  /\ to \in BelowIn(D, ROOT)
  /\ \E C \in SUBSET G : Closed(D, C) /\ i \in C /\ to \notin C
\* The new name counts.
Doubled(D, G, d, k, to, i) ==
  /\ Unique(D, G, {<<d, k>>})
  /\ \E s \in LiveIn(D, to) : <<to, s>> # <<d, k>> /\ SlotIn(D, to, s).inode = i
Renaming(D, G, td) ==
  \E d \in G, to \in G, i \in G, n \in Names, m \in Names, t \in Modes, k \in Slots :
    /\ Moving(D, G, d, n, k, to, i, t)
    /\ \/ /\ Unique(D, G, {})
          /\ td = <<Step("dir_add_entry", to, Entry(i, t, m), Fatal)>> \o RenameRest(d, n, to, i, t)
       \/ /\ Unique(D, G, {})
          /\ \E p \in Blocks : Adding(D, G, to, Entry(i, t, m), p, Fatal, RenameRest(d, n, to, i, t), td)
       \/ /\ Doubled(D, G, d, k, to, i)
          /\ \/ t = "dir" /\ td = RenameRest(d, n, to, i, t)
             \/ \E e \in EntryT :
                  /\ D.node[i].block # 0 /\ 1 \notin LiveIn(D, i)
                  /\ D.node[i].size <= 1 \/ e.name \in Dots
                  /\ td = <<write_slot(D.node[i].block, 1, e, Fatal), Step("dir_remove_entry", d, n, Fatal)>>
             \/ td = <<Step("dir_remove_entry", d, n, Fatal)>>
             \/ td = <<write_slot(D.node[d].block, k, NoEntry, Fatal)>>

Storing(D, G, td) ==
  \E i \in G :
    LET n == D.node[i]
        broken == Instead(<<write_inode(i, n, Ignored)>>)
    IN  /\ n.mode # "dir"
        /\ \/ td = <<write_inode(i, n, Ignored)>>
           \/ \E b \in Blocks :
                LET data == Step("data", b, i, Ignored)
                    new == write_inode(i, [n EXCEPT !.size = 1, !.block = b], Ignored)
                IN  \/ /\ n.block = 0 /\ b \notin Owned(D, G)
                       /\ \/ td = <<bitmap_set_block(b, TRUE, broken), zero_block(b, broken), data, new>>
                          \/ b \in D.bbit /\ td = <<zero_block(b, broken), data, new>>
                    \/ /\ n.block = b \/ (n.block = 0 /\ b \notin Owned(D, G))
                       /\ b \in D.bbit /\ D.block[b].data \in {0, i}
                       /\ td = <<data, new>> \/ td = <<new>>

-----------------------------------------------------------------------------
(***************************************************************************)
(* How far a format is.                                                    *)
(***************************************************************************)
Super == Step("superblock", 0, 0, Fatal)
Mount == Step("ipo_fs_mount", 0, 0, Ignored)
DoApp == Step("protected_app", 0, 0, Fatal)
DoAutorun == Step("protected_autorun", 0, 0, Fatal)
AfterRoot == <<DoApp, DoAutorun, Super, Mount>>
AfterApp == <<DoAutorun, Super, Mount>>
AfterAutorun == <<Super, Mount>>
RootDots == Step("dots_block", ROOT, RootInode, Fatal)
Zeroing == Seq({write_inode(i, ZeroInode, Fatal) : i \in Inodes})
AfterZeroing ==
  <<bitmap_set_inode(ROOT, TRUE, Ignored), write_inode(ROOT, RootInode, Ignored), RootDots,
    DoApp, DoAutorun, Super, Mount>>

\* The writes of dots_block() that are left.
DotsAt(D, i, n, b, B, rest, td) ==
  LET zero == zero_block(b, Fatal)
      dots == Step("dots", b, <<i, ROOT>>, Ignored)
      new == write_inode(i, [n EXCEPT !.size = 2, !.block = b], Ignored)
  IN  /\ b \in Blocks \ B
      /\ \/ D.bbit = B /\ td = <<bitmap_set_block(b, TRUE, Fatal), zero, dots, new>> \o rest
         \/ D.bbit = B \cup {b} /\ td = <<zero, dots, new>> \o rest
         \/ D.bbit = B \cup {b} /\ td = <<dots, new>> \o rest
         \/ /\ D.bbit = B \cup {b} /\ td = <<new>> \o rest
            /\ D.block[b] = DirBlock(<<Entry(i, "dir", "."), Entry(ROOT, "dir", "..")>>)

FormattingRoot(D, quiet, td) ==
  \/ quiet /\ td = ipo_fs_format \o <<Mount>>
  \/ quiet /\ D.super /\ td = Tail(ipo_fs_format \o <<Mount>>)
  \/ quiet /\ D.super /\ D.ibit = {} /\ td = Tail(Tail(ipo_fs_format \o <<Mount>>))
  \/ quiet /\ D.super /\ D.ibit = {} /\ D.bbit = {} /\ \E zs \in Zeroing : td = zs \o AfterZeroing
  \/ quiet /\ D.super /\ D.ibit = {ROOT} /\ D.bbit = {} /\ td = Tail(AfterZeroing)
  \/ /\ D.super /\ D.ibit = {ROOT} /\ D.node[ROOT] = RootInode
     /\ \/ D.bbit = {} /\ td = <<RootDots>> \o AfterRoot
        \/ \E b \in Blocks : DotsAt(D, ROOT, RootInode, b, {}, AfterRoot, td)

\* The root is there with its dots and the links in L, and may take more.
Rooted(D, G, sz, L) ==
  /\ D.super /\ Sound(D, G) /\ Unique(D, G, {})
  /\ D.node[ROOT].mode = "dir" /\ D.node[ROOT].block # 0 /\ D.node[ROOT].size = sz
  /\ LiveIn(D, ROOT) = L

\* Inode i becomes /app.
AddApp(i) == Step("dir_add_entry", ROOT, Entry(i, "dir", "app"), Fatal)
AppDots(i) == Step("dots_block", i, AppInode, Fatal)
MakingApp(D, i, td) ==
  LET b == D.node[ROOT].block
      new == write_inode(i, AppInode, Ignored)
      rest == <<AddApp(i)>> \o AfterApp
  IN  \/ /\ D.ibit = {ROOT} /\ D.bbit = {b}
         /\ td = <<bitmap_set_inode(i, TRUE, Fatal), write_inode(i, ZeroInode, Ignored), new,
                   AppDots(i)>> \o rest
      \/ /\ D.ibit = {ROOT, i} /\ D.bbit = {b}
         /\ \/ td = <<write_inode(i, ZeroInode, Ignored), new, AppDots(i)>> \o rest
            \/ td = <<new, AppDots(i)>> \o rest
            \/ D.node[i] = AppInode /\ td = <<AppDots(i)>> \o rest
      \/ /\ D.ibit = {ROOT, i} /\ D.node[i] = AppInode
         /\ \E c \in Blocks : DotsAt(D, i, AppInode, c, {b}, rest, td)
      \/ /\ D.ibit = {ROOT, i} /\ D.node[i].prot /\ Newborn(D, {ROOT}, i, "dir") /\ D.node[i].block # b
         /\ \/ td = rest
            \/ Adding(D, {ROOT}, ROOT, Entry(i, "dir", "app"), b, Fatal, AfterApp, td)
FormattingApp(D, td) ==
  /\ Rooted(D, {ROOT}, 2, {})
  /\ \/ D.ibit = {ROOT} /\ D.bbit = {D.node[ROOT].block} /\ td = AfterRoot
     \/ \E i \in Inodes \ {ROOT} : MakingApp(D, i, td)

\* Inode i becomes /autorun, after inode a has become /app.
AddAutorun(i) == Step("dir_add_entry", ROOT, Entry(i, "file", "autorun"), Fatal)
MakingAutorun(D, a, i, td) ==
  LET new == write_inode(i, AutorunInode, Ignored)
      rest == <<AddAutorun(i)>> \o AfterAutorun
  IN  \/ td = <<bitmap_set_inode(i, TRUE, Fatal), write_inode(i, ZeroInode, Ignored), new>> \o rest
      \/ /\ i \in D.ibit
         /\ \/ td = <<write_inode(i, ZeroInode, Ignored), new>> \o rest
            \/ td = <<new>> \o rest
            \/ D.node[i] = AutorunInode /\ td = rest
            \/ /\ D.node[i] = AutorunInode
               /\ Adding(D, {ROOT, a}, ROOT, Entry(i, "file", "autorun"), D.node[ROOT].block, Fatal,
                         AfterAutorun, td)
FormattingAutorun(D, td) ==
  \E a \in Inodes \ {ROOT} :
    /\ Rooted(D, {ROOT, a}, 3, {2}) /\ SlotIn(D, ROOT, 2) = Entry(a, "dir", "app") /\ D.node[a].prot
    /\ \/ D.ibit = {ROOT, a} /\ td = AfterApp
       \/ \E i \in Inodes \ {ROOT, a} : MakingAutorun(D, a, i, td)

FormattingLast(D, td) ==
  /\ D.super /\ \E G \in SUBSET Inodes : Good(D, G)
  /\ td = AfterAutorun \/ td = <<Mount>>

-----------------------------------------------------------------------------
(***************************************************************************)
(* The inductive invariant.                                                *)
(***************************************************************************)
Typed ==
  /\ disk \in DiskT /\ todo \in Seq(StepT) /\ fs_mounted \in BOOLEAN
  /\ scars \subseteq Scars /\ faults \in 0 .. MAX_FAULTS

Quiet(D, sc) == sc = {} => D.node[ROOT].mode # "dir"
Booted(D, td) ==
  /\ td = Boot
  /\ IF D.super THEN \E G \in SUBSET Inodes : Good(D, G) ELSE D.node[ROOT].mode # "dir"
Formats(D, sc, td) ==
  \/ FormattingRoot(D, Quiet(D, sc), td) \/ FormattingApp(D, td)
  \/ FormattingAutorun(D, td) \/ FormattingLast(D, td)
Works(D, G, c, td) ==
  /\ D.super /\ Sound(D, G) /\ Protected(D)
  /\ \/ Unique(D, G, {}) /\ c.op = "none" /\ td = << >>
     \/ Unique(D, G, {}) /\ c.op = "create" /\ Creating(D, G, td)
     \/ Unique(D, G, {}) /\ c.op = "delete" /\ Deleting(D, G, c.victim, td)
     \/ Unique(D, G, {}) /\ c.op = "write" /\ Storing(D, G, td)
     \/ c.op = "rename" /\ Renaming(D, G, td)
Shape(D, m, c, td, sc) ==
  \/ ~m /\ c.op = "boot" /\ (Booted(D, td) \/ Formats(D, sc, td))
  \/ \E G \in SUBSET Inodes : Works(D, G, c, td)

IInv ==
  /\ Typed
  /\ scars \subseteq {"wiped"} => Shape(disk, fs_mounted, call, todo, scars)

-----------------------------------------------------------------------------
(***************************************************************************)
(* Natural numbers and recursive functions.                                *)
(***************************************************************************)
\* A set of natural numbers has a least element.
LEMMA LeastElement ==
  ASSUME NEW S \in SUBSET Nat, S # {}
  PROVE  \E n \in S : \A m \in S : n <= m
<1>1. PICK n \in S : TRUE
  OBVIOUS
<1> DEFINE T == {0 .. m : m \in {k \in S : k <= n}}
<1>2. T \subseteq FiniteSubsetsOf(0 .. n) /\ T # {}
  <2>1. IsFiniteSet(0 .. n)
    BY <1>1, FS_Interval
  <2>2. \A m \in S : IsFiniteSet(0 .. m)
    BY FS_Interval
  <2> QED
    BY <2>2, <1>1 DEF FiniteSubsetsOf
<1>3. IsWellFoundedOn(StrictSubsetOrdering(0 .. n), FiniteSubsetsOf(0 .. n))
  BY FS_StrictSubsetOrderingWellFounded
<1>4. PICK x \in T : \A y \in T : ~(<<y, x>> \in StrictSubsetOrdering(0 .. n))
  <2> HIDE DEF T
  <2> QED
    BY <1>2, <1>3, WFMin
<1>5. PICK m \in S : m <= n /\ x = 0 .. m
  BY <1>4
<1>6. \A k \in S : k < m => FALSE
  <2> SUFFICES ASSUME NEW k \in S, k < m PROVE FALSE
    OBVIOUS
  <2>1. 0 .. k \in T
    BY <1>1, <1>5
  <2>2. 0 .. k \subseteq 0 .. m /\ 0 .. k # 0 .. m
    BY <1>5
  <2>3. <<0 .. k, x>> \in StrictSubsetOrdering(0 .. n)
    BY <2>2, <1>5, <1>1 DEF StrictSubsetOrdering
  <2> QED
    BY <1>4, <2>1, <2>3
<1> QED
  BY <1>5, <1>6

\* Induction, with a set for the predicate.
LEMMA SetInduction ==
  ASSUME NEW S \in SUBSET Nat, 0 \in S, \A n \in S : n + 1 \in S
  PROVE  S = Nat
<1> SUFFICES ASSUME S # Nat PROVE FALSE
  OBVIOUS
<1>1. PICK n \in Nat \ S : \A m \in Nat \ S : n <= m
  BY LeastElement
<1>2. n - 1 \in S
  BY <1>1
<1> QED
  BY <1>1, <1>2

\* The first of some slots, inodes or blocks is one of them, and no other is before it.
LEMMA FirstIn ==
  ASSUME NEW S \in SUBSET Nat, S # {}
  PROVE  First(S) \in S /\ \A m \in S : First(S) <= m
<1>1. \E n \in S : \A m \in S : n <= m
  BY LeastElement
<1> QED
  BY <1>1 DEF First

Recursive(f, r, N, G) == f = [k \in 0 .. N |-> IF k = 0 THEN r ELSE G[<<f[k - 1], k>>]]
StepsOn(R, N) == [R \X (1 .. N) -> R]

\* A function can be defined by recursion on the numbers up to N.
LEMMA Recursion ==
  ASSUME NEW R, NEW r \in R, NEW N \in Nat, NEW G \in StepsOn(R, N)
  PROVE  \E f \in [0 .. N -> R] : Recursive(f, r, N, G)
<1> USE DEF Recursive, StepsOn
<1> DEFINE P(n, f) == f[0] = r /\ \A k \in 1 .. n : f[k] = G[<<f[k - 1], k>>]
           S == {n \in Nat : n <= N => \E f \in [0 .. n -> R] : P(n, f)}
<1>1. 0 \in S
  <2>1. P(0, [k \in 0 .. 0 |-> r]) /\ [k \in 0 .. 0 |-> r] \in [0 .. 0 -> R]
    OBVIOUS
  <2> QED
    BY <2>1
<1>2. ASSUME NEW n \in S
      PROVE  n + 1 \in S
  <2> SUFFICES ASSUME n + 1 <= N PROVE \E f \in [0 .. (n + 1) -> R] : P(n + 1, f)
    OBVIOUS
  <2>1. PICK f \in [0 .. n -> R] : P(n, f)
    OBVIOUS
  <2> DEFINE g == [k \in 0 .. (n + 1) |-> IF k = n + 1 THEN G[<<f[n], n + 1>>] ELSE f[k]]
  <2>2. n + 1 \in 1 .. N /\ f[n] \in R
    BY <2>1
  <2>3. G[<<f[n], n + 1>>] \in R
    BY <2>2
  <2>4. g \in [0 .. (n + 1) -> R]
    BY <2>1, <2>3
  <2>5. \A k \in 1 .. (n + 1) : g[k] = G[<<g[k - 1], k>>]
    <3> SUFFICES ASSUME NEW k \in 1 .. (n + 1)
                 PROVE  g[k] = G[<<g[k - 1], k>>]
      OBVIOUS
    <3>1. CASE k = n + 1
      <4>1. g[k - 1] = f[n] /\ k - 1 = n
        BY <3>1
      <4>2. g[k] = G[<<f[n], n + 1>>]
        BY <3>1
      <4> QED
        BY <3>1, <4>1, <4>2, Zenon
    <3>2. CASE k \in 1 .. n
      <4>1. g[k] = f[k] /\ g[k - 1] = f[k - 1]
        BY <3>2
      <4> QED
        BY <3>2, <4>1, <2>1
    <3> QED
      BY <3>1, <3>2
  <2>6. g[0] = r
    BY <2>1
  <2> QED
    BY <2>4, <2>5, <2>6
<1>3. S = Nat
  <2> HIDE DEF S
  <2> QED
    <3>1. S \in SUBSET Nat
      BY DEF S
    <3> QED
      BY <1>1, <1>2, <3>1, SetInduction
<1>4. PICK f \in [0 .. N -> R] : P(N, f)
  <2>1. N \in S
    BY <1>3
  <2> QED
    BY <2>1
<1>5. f = [k \in 0 .. N |-> IF k = 0 THEN r ELSE G[<<f[k - 1], k>>]]
  <2>1. \A k \in 0 .. N : f[k] = IF k = 0 THEN r ELSE G[<<f[k - 1], k>>]
    BY <1>4
  <2> QED
    BY <2>1
<1> QED
  BY <1>5

-----------------------------------------------------------------------------
(***************************************************************************)
(* Types of the disk and of the steps.                                     *)
(***************************************************************************)
\* The sector write of step w on disk D.
PutOn(D, w) ==
  CASE w.do = "superblock" -> [D EXCEPT !.super = TRUE]
    [] w.do = "inode bitmap" -> [D EXCEPT !.ibit = {}]
    [] w.do = "block bitmap" -> [D EXCEPT !.bbit = {}]
    [] w.do = "inode bit" -> [D EXCEPT !.ibit = IF w.val THEN @ \cup {w.at} ELSE @ \ {w.at}]
    [] w.do = "block bit" -> [D EXCEPT !.bbit = IF w.val THEN @ \cup {w.at} ELSE @ \ {w.at}]
    [] w.do = "inode" -> [D EXCEPT !.node[w.at] = w.val]
    [] w.do = "zero" -> [D EXCEPT !.block[w.at] = ZeroBlock]
    [] w.do = "slot" -> [D EXCEPT !.block[w.at].slot[w.val[1]] = w.val[2]]
    [] w.do = "data" -> [D EXCEPT !.block[w.at] = [ZeroBlock EXCEPT !.data = w.val]]
    [] w.do = "dots" -> [D EXCEPT !.block[w.at] =
                           DirBlock(<<Entry(w.val[1], "dir", "."), Entry(w.val[2], "dir", "..")>>)]

LEMMA PutDisk ==
  ASSUME NEW w PROVE Put(w) = PutOn(disk, w)
BY DEF Put, PutOn

\* The fields of a disk.
LEMMA DiskFields ==
  ASSUME NEW D \in DiskT
  PROVE  /\ D.super \in BOOLEAN /\ D.ibit \subseteq Inodes /\ D.bbit \subseteq Blocks
         /\ D.node \in [Inodes -> NodeT] /\ D.block \in [Blocks -> BlockT]
         /\ D = [super |-> D.super, ibit |-> D.ibit, bbit |-> D.bbit, node |-> D.node, block |-> D.block]
BY DEF DiskT

\* What is on a disk after a write: one field differs.
LEMMA PutSuper ==
  ASSUME NEW D \in DiskT, NEW w, w.do = "superblock"
  PROVE  /\ PutOn(D, w) \in DiskT
         /\ PutOn(D, w).super = TRUE /\ PutOn(D, w).ibit = D.ibit /\ PutOn(D, w).bbit = D.bbit
         /\ PutOn(D, w).node = D.node /\ PutOn(D, w).block = D.block
<1>1. PutOn(D, w) = [D EXCEPT !.super = TRUE]
  BY DEF PutOn
<1> QED
  BY <1>1 DEF DiskT

LEMMA PutInodeBitmap ==
  ASSUME NEW D \in DiskT, NEW w, w.do = "inode bitmap"
  PROVE  /\ PutOn(D, w) \in DiskT
         /\ PutOn(D, w).super = D.super /\ PutOn(D, w).ibit = {} /\ PutOn(D, w).bbit = D.bbit
         /\ PutOn(D, w).node = D.node /\ PutOn(D, w).block = D.block
<1>1. PutOn(D, w) = [D EXCEPT !.ibit = {}]
  BY DEF PutOn
<1> QED
  BY <1>1 DEF DiskT

LEMMA PutBlockBitmap ==
  ASSUME NEW D \in DiskT, NEW w, w.do = "block bitmap"
  PROVE  /\ PutOn(D, w) \in DiskT
         /\ PutOn(D, w).super = D.super /\ PutOn(D, w).ibit = D.ibit /\ PutOn(D, w).bbit = {}
         /\ PutOn(D, w).node = D.node /\ PutOn(D, w).block = D.block
<1>1. PutOn(D, w) = [D EXCEPT !.bbit = {}]
  BY DEF PutOn
<1> QED
  BY <1>1 DEF DiskT

LEMMA PutInodeBit ==
  ASSUME NEW D \in DiskT, NEW i \in Inodes, NEW v \in BOOLEAN, NEW err
  PROVE  LET E == PutOn(D, bitmap_set_inode(i, v, err))
         IN  /\ E \in DiskT
             /\ E.super = D.super /\ E.bbit = D.bbit /\ E.node = D.node /\ E.block = D.block
             /\ v => E.ibit = D.ibit \cup {i}
             /\ ~v => E.ibit = D.ibit \ {i}
<1> DEFINE w == bitmap_set_inode(i, v, err)
           bits == IF v THEN D.ibit \cup {i} ELSE D.ibit \ {i}
<1>1. w.do = "inode bit" /\ w.at = i /\ w.val = v
  BY DEF bitmap_set_inode, Step
<1>2. PutOn(D, w) = [D EXCEPT !.ibit = IF w.val THEN @ \cup {w.at} ELSE @ \ {w.at}]
  <2> HIDE DEF w
  <2> QED BY <1>1 DEF PutOn
<1>3. PutOn(D, w) = [D EXCEPT !.ibit = bits]
  <2> HIDE DEF w
  <2> QED BY <1>1, <1>2 DEF DiskT
<1>4. bits \subseteq Inodes
  BY DEF DiskT
<1> HIDE DEF w, bits
<1>5. /\ PutOn(D, w) \in DiskT /\ PutOn(D, w).ibit = bits
      /\ PutOn(D, w).super = D.super /\ PutOn(D, w).bbit = D.bbit /\ PutOn(D, w).node = D.node
      /\ PutOn(D, w).block = D.block
  BY <1>3, <1>4 DEF DiskT
<1> QED
  BY <1>5 DEF w, bits

LEMMA PutBlockBit ==
  ASSUME NEW D \in DiskT, NEW b \in Blocks, NEW v \in BOOLEAN, NEW err
  PROVE  LET E == PutOn(D, bitmap_set_block(b, v, err))
         IN  /\ E \in DiskT
             /\ E.super = D.super /\ E.ibit = D.ibit /\ E.node = D.node /\ E.block = D.block
             /\ v => E.bbit = D.bbit \cup {b}
             /\ ~v => E.bbit = D.bbit \ {b}
<1> DEFINE w == bitmap_set_block(b, v, err)
           bits == IF v THEN D.bbit \cup {b} ELSE D.bbit \ {b}
<1>1. w.do = "block bit" /\ w.at = b /\ w.val = v
  BY DEF bitmap_set_block, Step
<1>2. PutOn(D, w) = [D EXCEPT !.bbit = IF w.val THEN @ \cup {w.at} ELSE @ \ {w.at}]
  <2> HIDE DEF w
  <2> QED BY <1>1 DEF PutOn
<1>3. PutOn(D, w) = [D EXCEPT !.bbit = bits]
  <2> HIDE DEF w
  <2> QED BY <1>1, <1>2 DEF DiskT
<1>4. bits \subseteq Blocks
  BY DEF DiskT
<1> HIDE DEF w, bits
<1>5. /\ PutOn(D, w) \in DiskT /\ PutOn(D, w).bbit = bits
      /\ PutOn(D, w).super = D.super /\ PutOn(D, w).ibit = D.ibit /\ PutOn(D, w).node = D.node
      /\ PutOn(D, w).block = D.block
  BY <1>3, <1>4 DEF DiskT
<1> QED
  BY <1>5 DEF w, bits

LEMMA PutInode ==
  ASSUME NEW D \in DiskT, NEW i \in Inodes, NEW n \in NodeT, NEW err
  PROVE  LET E == PutOn(D, write_inode(i, n, err))
         IN  /\ E \in DiskT
             /\ E.super = D.super /\ E.ibit = D.ibit /\ E.bbit = D.bbit /\ E.block = D.block
             /\ E.node[i] = n /\ \A j \in Inodes \ {i} : E.node[j] = D.node[j]
<1> DEFINE w == write_inode(i, n, err)
<1>1. w.do = "inode" /\ w.at = i /\ w.val = n
  BY DEF write_inode, Step
<1> HIDE DEF w
<1>2. PutOn(D, w) = [D EXCEPT !.node[w.at] = w.val]
  BY <1>1 DEF PutOn
<1>3. PutOn(D, w) = [D EXCEPT !.node = [D.node EXCEPT ![i] = n]]
  BY <1>1, <1>2 DEF DiskT
<1> DEFINE N == [D.node EXCEPT ![i] = n]
<1>4. N \in [Inodes -> NodeT] /\ N[i] = n /\ \A j \in Inodes \ {i} : N[j] = D.node[j]
  BY DEF DiskT
<1> HIDE DEF N
<1>5. PutOn(D, w) = [D EXCEPT !.node = N]
  BY <1>3 DEF N
<1>6. /\ PutOn(D, w) \in DiskT /\ PutOn(D, w).node = N
      /\ PutOn(D, w).super = D.super /\ PutOn(D, w).ibit = D.ibit /\ PutOn(D, w).bbit = D.bbit
      /\ PutOn(D, w).block = D.block
  BY <1>5, <1>4 DEF DiskT
<1> QED
  BY <1>6, <1>4 DEF w


\* The disk E is D but for block b, which holds c.
BlockPut(D, E, b, c) ==
  /\ E \in DiskT
  /\ E.super = D.super /\ E.ibit = D.ibit /\ E.bbit = D.bbit /\ E.node = D.node
  /\ E.block[b] = c /\ \A a \in Blocks \ {b} : E.block[a] = D.block[a]

LEMMA PutBlockValue ==
  ASSUME NEW D \in DiskT, NEW b \in Blocks, NEW c \in BlockT
  PROVE  BlockPut(D, [D EXCEPT !.block[b] = c], b, c)
<1> DEFINE N == [D.block EXCEPT ![b] = c]
           E == [D EXCEPT !.block = N]
<1>1. [D EXCEPT !.block[b] = c] = E
  BY DEF DiskT
<1>2. N \in [Blocks -> BlockT] /\ N[b] = c /\ \A a \in Blocks \ {b} : N[a] = D.block[a]
  BY DEF DiskT
<1> HIDE DEF N
<1>3. /\ E \in DiskT /\ E.block = N
      /\ E.super = D.super /\ E.ibit = D.ibit /\ E.bbit = D.bbit /\ E.node = D.node
  BY <1>2 DEF DiskT
<1> HIDE DEF E
<1>4. BlockPut(D, E, b, c)
  BY <1>2, <1>3 DEF BlockPut
<1> QED
  BY <1>1, <1>4

LEMMA NoEntryTyped == NoEntry \in EntryT
BY DiskAssumption DEF NoEntry, Entry, EntryT, Modes, Dots

LEMMA ZeroBlockTyped ==
  /\ ZeroBlock \in BlockT /\ ZeroBlock.data = 0 /\ ZeroBlock.slot = NoEntries
  /\ \A k \in Slots : ZeroBlock.slot[k] = NoEntry
<1>1. NoEntries \in [Slots -> EntryT]
  BY NoEntryTyped DEF NoEntries
<1>2. 0 \in 0 .. INODE_COUNT
  BY DiskAssumption
<1>3. \A k \in Slots : NoEntries[k] = NoEntry
  BY DEF NoEntries
<1> QED
  BY <1>1, <1>2, <1>3 DEF ZeroBlock, BlockT

LEMMA PutZero ==
  ASSUME NEW D \in DiskT, NEW b \in Blocks, NEW err
  PROVE  BlockPut(D, PutOn(D, zero_block(b, err)), b, ZeroBlock)
<1> DEFINE w == zero_block(b, err)
<1>1. w.do = "zero" /\ w.at = b
  BY DEF zero_block, Step
<1> HIDE DEF w
<1>2. PutOn(D, w) = [D EXCEPT !.block[b] = ZeroBlock]
  BY <1>1 DEF PutOn
<1> QED
  BY <1>2, PutBlockValue, ZeroBlockTyped DEF w

DataBlock(i) == [ZeroBlock EXCEPT !.data = i]
LEMMA PutData ==
  ASSUME NEW D \in DiskT, NEW b \in Blocks, NEW i \in Inodes, NEW err
  PROVE  /\ BlockPut(D, PutOn(D, Step("data", b, i, err)), b, DataBlock(i))
         /\ DataBlock(i).data = i
<1> DEFINE w == Step("data", b, i, err)
<1>1. w.do = "data" /\ w.at = b /\ w.val = i
  BY DEF Step
<1> HIDE DEF w
<1>2. PutOn(D, w) = [D EXCEPT !.block[b] = DataBlock(i)]
  BY <1>1 DEF PutOn, DataBlock
<1>3. DataBlock(i) \in BlockT /\ DataBlock(i).data = i
  BY ZeroBlockTyped, DiskAssumption DEF DataBlock, BlockT, Inodes
<1> QED
  BY <1>2, <1>3, PutBlockValue DEF w

SlotBlock(D, b, k, e) == [D.block[b] EXCEPT !.slot = [D.block[b].slot EXCEPT ![k] = e]]
LEMMA SlotBlockValue ==
  ASSUME NEW D \in DiskT, NEW b \in Blocks, NEW k \in Slots, NEW e \in EntryT
  PROVE  /\ SlotBlock(D, b, k, e) \in BlockT
         /\ SlotBlock(D, b, k, e).slot[k] = e /\ SlotBlock(D, b, k, e).data = D.block[b].data
         /\ \A l \in Slots \ {k} : SlotBlock(D, b, k, e).slot[l] = D.block[b].slot[l]
<1> DEFINE c == SlotBlock(D, b, k, e)
           s == [D.block[b].slot EXCEPT ![k] = e]
<1>1. D.block \in [Blocks -> BlockT] /\ D.block[b] \in BlockT
  BY DEF DiskT
<1>2. /\ s \in [Slots -> EntryT] /\ s[k] = e
      /\ \A l \in Slots \ {k} : s[l] = D.block[b].slot[l]
  BY <1>1 DEF BlockT
<1>3. c = [D.block[b] EXCEPT !.slot = s]
  BY DEF SlotBlock
<1> HIDE DEF s
<1>4. c \in BlockT /\ c.slot = s /\ c.data = D.block[b].data
  BY <1>1, <1>2, <1>3 DEF BlockT
<1> HIDE DEF c
<1> QED
  BY <1>2, <1>4 DEF c

LEMMA PutSlot ==
  ASSUME NEW D \in DiskT, NEW b \in Blocks, NEW k \in Slots, NEW e \in EntryT, NEW err
  PROVE  BlockPut(D, PutOn(D, write_slot(b, k, e, err)), b, SlotBlock(D, b, k, e))
<1> DEFINE w == write_slot(b, k, e, err)
           c == SlotBlock(D, b, k, e)
<1>1. w.do = "slot" /\ w.at = b /\ w.val[1] = k /\ w.val[2] = e
  BY DEF write_slot, Step
<1> HIDE DEF w
<1>2. PutOn(D, w) = [D EXCEPT !.block[b].slot[k] = e]
  BY <1>1 DEF PutOn
<1>3. D.block \in [Blocks -> BlockT] /\ D.block[b] \in BlockT
  BY DEF DiskT
<1>4. PutOn(D, w) = [D EXCEPT !.block[b] = c]
  BY <1>2, <1>3 DEF DiskT, BlockT, SlotBlock
<1>5. c \in BlockT
  BY SlotBlockValue
<1> HIDE DEF c
<1>6. BlockPut(D, PutOn(D, w), b, c)
  BY <1>4, <1>5, PutBlockValue
<1> QED
  BY <1>6 DEF w, c

DotsBlock(i) == DirBlock(<<Entry(i, "dir", "."), Entry(ROOT, "dir", "..")>>)
LEMMA DotsBlockTyped ==
  ASSUME NEW i \in Inodes
  PROVE  /\ DotsBlock(i) \in BlockT /\ DotsBlock(i).data = 0
         /\ \A k \in Slots : DotsBlock(i).slot[k].name \in Dots
<1> DEFINE es == <<Entry(i, "dir", "."), Entry(ROOT, "dir", "..")>>
           s == [k \in Slots |-> IF k < Len(es) THEN es[k + 1] ELSE NoEntry]
<1>1. /\ Entry(i, "dir", ".") \in EntryT /\ Entry(ROOT, "dir", "..") \in EntryT
      /\ Entry(i, "dir", ".").name \in Dots /\ Entry(ROOT, "dir", "..").name \in Dots
  BY DiskAssumption DEF Entry, EntryT, Modes, Dots, Inodes, ROOT
<1>2. NoEntry.name \in Dots
  BY DEF NoEntry, Entry, Dots
<1>3. ASSUME NEW k \in Slots PROVE s[k] \in EntryT /\ s[k].name \in Dots
  <2>1. k \in Int /\ k >= 0
    BY DiskAssumption DEF Slots
  <2>2. CASE k = 0
    BY <2>2, <1>1
  <2>3. CASE k = 1
    BY <2>3, <1>1
  <2>4. CASE k >= 2
    BY <2>4, <2>1, <1>2, NoEntryTyped
  <2> QED
    BY <2>1, <2>2, <2>3, <2>4
<1>4. s \in [Slots -> EntryT]
  BY <1>3
<1>5. DotsBlock(i) = [ZeroBlock EXCEPT !.slot = s]
  BY DEF DotsBlock, DirBlock
<1> HIDE DEF s
<1> QED
  BY <1>3, <1>4, <1>5, ZeroBlockTyped DEF BlockT

LEMMA PutDots ==
  ASSUME NEW D \in DiskT, NEW b \in Blocks, NEW i \in Inodes, NEW err
  PROVE  BlockPut(D, PutOn(D, Step("dots", b, <<i, ROOT>>, err)), b, DotsBlock(i))
<1> DEFINE w == Step("dots", b, <<i, ROOT>>, err)
<1>1. w.do = "dots" /\ w.at = b /\ w.val[1] = i /\ w.val[2] = ROOT
  BY DEF Step
<1> HIDE DEF w
<1>2. PutOn(D, w) = [D EXCEPT !.block[b] = DotsBlock(i)]
  BY <1>1 DEF PutOn, DotsBlock
<1> QED
  BY <1>2, DotsBlockTyped, PutBlockValue DEF w


-----------------------------------------------------------------------------
(***************************************************************************)
(* Every step of a call is well formed, and so is the disk.                *)
(***************************************************************************)
Dos == OnBlock \cup OnInode \cup OnDisk

LEMMA StepTyped ==
  ASSUME NEW x \in Dos, NEW a \in AtOf(x), NEW v \in ValOf(x), NEW e \in Errs
  PROVE  Step(x, a, v, e) \in StepT
<1>1. Step(x, a, v, e) \in [do : {x}, at : AtOf(x), val : ValOf(x), err : Errs]
  BY DEF Step
<1> QED
  BY <1>1, Zenon DEF StepT, Dos

LEMMA StepFields ==
  ASSUME NEW w \in StepT
  PROVE  /\ w.do \in Dos /\ w.at \in AtOf(w.do) /\ w.val \in ValOf(w.do) /\ w.err \in Errs
         /\ w = Step(w.do, w.at, w.val, w.err)
<1>1. PICK x \in Dos : w \in [do : {x}, at : AtOf(x), val : ValOf(x), err : Errs]
  BY Zenon DEF StepT, Dos
<1>2. w.do = x
  BY <1>1
<1>3. w.at \in AtOf(x) /\ w.val \in ValOf(x) /\ w.err \in Errs
  BY <1>1
<1>4. w = [do |-> w.do, at |-> w.at, val |-> w.val, err |-> w.err]
  BY <1>1
<1> QED
  BY <1>2, <1>3, <1>4, Zenon DEF Step

LEMMA PutTyped ==
  ASSUME NEW D \in DiskT, NEW w \in StepT, w.do \notin Functions
  PROVE  PutOn(D, w) \in DiskT
<1>1. w.do \in Dos /\ w.at \in AtOf(w.do) /\ w.val \in ValOf(w.do) /\ w = Step(w.do, w.at, w.val, w.err)
  BY StepFields
<1>2. CASE w.do \in {"superblock", "inode bitmap", "block bitmap"}
  BY <1>2, PutSuper, PutInodeBitmap, PutBlockBitmap
<1>3. CASE w.do = "inode bit"
  <2>1. w.at \in Inodes /\ w.val \in BOOLEAN
    BY <1>1, <1>3 DEF AtOf, ValOf, OnBlock, OnInode
  <2>2. w = bitmap_set_inode(w.at, w.val, w.err)
    BY <1>1, <1>3 DEF bitmap_set_inode
  <2> QED
    BY <2>1, <2>2, PutInodeBit
<1>4. CASE w.do = "block bit"
  <2>1. w.at \in Blocks /\ w.val \in BOOLEAN
    BY <1>1, <1>4 DEF AtOf, ValOf, OnBlock, OnInode
  <2>2. w = bitmap_set_block(w.at, w.val, w.err)
    BY <1>1, <1>4 DEF bitmap_set_block
  <2> QED
    BY <2>1, <2>2, PutBlockBit
<1>5. CASE w.do = "inode"
  <2>1. w.at \in Inodes /\ w.val \in NodeT
    BY <1>1, <1>5 DEF AtOf, ValOf, OnBlock, OnInode
  <2>2. w = write_inode(w.at, w.val, w.err)
    BY <1>1, <1>5 DEF write_inode
  <2> QED
    BY <2>1, <2>2, PutInode
<1>6. CASE w.do = "zero"
  <2>1. w.at \in Blocks /\ w.val = 0
    BY <1>1, <1>6 DEF AtOf, ValOf, OnBlock, OnInode
  <2>2. w = zero_block(w.at, w.err)
    BY <1>1, <1>6, <2>1 DEF zero_block
  <2> QED
    BY <2>1, <2>2, PutZero DEF BlockPut
<1>7. CASE w.do = "slot"
  <2>1. w.at \in Blocks /\ w.val \in Slots \X EntryT
    BY <1>1, <1>7 DEF AtOf, ValOf, OnBlock, OnInode
  <2>2. PICK k \in Slots, e \in EntryT : w.val = <<k, e>>
    BY <2>1
  <2>3. w = write_slot(w.at, k, e, w.err)
    BY <1>1, <1>7, <2>2 DEF write_slot
  <2> QED
    BY <2>1, <2>2, <2>3, PutSlot DEF BlockPut
<1>8. CASE w.do = "data"
  <2>1. w.at \in Blocks /\ w.val \in Inodes
    BY <1>1, <1>8 DEF AtOf, ValOf, OnBlock, OnInode
  <2> QED
    BY <1>1, <1>8, <2>1, PutData DEF BlockPut
<1>9. CASE w.do = "dots"
  <2>1. w.at \in Blocks /\ w.val \in Inodes \X {ROOT}
    BY <1>1, <1>9 DEF AtOf, ValOf, OnBlock, OnInode
  <2>2. PICK i \in Inodes : w.val = <<i, ROOT>>
    BY <2>1
  <2> QED
    BY <1>1, <1>9, <2>1, <2>2, PutDots DEF BlockPut
<1> QED
  BY <1>1, <1>2, <1>3, <1>4, <1>5, <1>6, <1>7, <1>8, <1>9
     DEF Dos, OnBlock, OnInode, OnDisk, Functions

\* The steps the calls are made of.
LEMMA ErrsTyped ==
  /\ Ignored \in Errs /\ Fatal \in Errs
  /\ \A i \in Inodes : Instead(<<Step("free_inode", i, 0, Ignored)>>) \in Errs
  /\ \A i \in Inodes, n \in NodeT : Instead(<<write_inode(i, n, Ignored)>>) \in Errs
<1>1. Ignored \in Errs /\ Fatal \in Errs
  BY DEF Ignored, Fatal, Errs
<1>2. ASSUME NEW s \in Mends PROVE Instead(<<s>>) \in Errs
  <2>1. <<s>> \in {<<x>> : x \in Mends}
    OBVIOUS
  <2> HIDE DEF Mends
  <2> QED
    BY <2>1 DEF Instead, Errs
<1>3. \A i \in Inodes : Step("free_inode", i, 0, Ignored) \in Mends
  BY DEF Mends
<1>4. ASSUME NEW i \in Inodes, NEW n \in NodeT PROVE write_inode(i, n, Ignored) \in Mends
  <2>1. <<i, n>> \in Inodes \X NodeT
    OBVIOUS
  <2>2. write_inode(<<i, n>>[1], <<i, n>>[2], Ignored) = write_inode(i, n, Ignored)
    OBVIOUS
  <2> QED
    BY <2>1, <2>2 DEF Mends
<1> QED
  BY <1>1, <1>2, <1>3, <1>4


LEMMA WritesTyped ==
  ASSUME NEW err \in Errs
  PROVE  /\ \A i \in Inodes, v \in BOOLEAN : bitmap_set_inode(i, v, err) \in StepT
         /\ \A b \in Blocks, v \in BOOLEAN : bitmap_set_block(b, v, err) \in StepT
         /\ \A i \in Inodes, n \in NodeT : write_inode(i, n, err) \in StepT
         /\ \A b \in Blocks : zero_block(b, err) \in StepT
         /\ \A b \in Blocks, k \in Slots, e \in EntryT : write_slot(b, k, e, err) \in StepT
         /\ \A b \in Blocks, i \in Inodes : Step("data", b, i, err) \in StepT
         /\ \A b \in Blocks, i \in Inodes : Step("dots", b, <<i, ROOT>>, err) \in StepT
<1> USE DEF AtOf, ValOf, OnBlock, OnInode, OnDisk, Dos
<1>1. \A i \in Inodes, v \in BOOLEAN : bitmap_set_inode(i, v, err) \in StepT
  BY StepTyped DEF bitmap_set_inode
<1>2. \A b \in Blocks, v \in BOOLEAN : bitmap_set_block(b, v, err) \in StepT
  BY StepTyped DEF bitmap_set_block
<1>3. \A i \in Inodes, n \in NodeT : write_inode(i, n, err) \in StepT
  BY StepTyped DEF write_inode
<1>4. \A b \in Blocks : zero_block(b, err) \in StepT
  BY StepTyped DEF zero_block
<1>5. \A b \in Blocks, k \in Slots, e \in EntryT : write_slot(b, k, e, err) \in StepT
  <2> SUFFICES ASSUME NEW b \in Blocks, NEW k \in Slots, NEW e \in EntryT
               PROVE  write_slot(b, k, e, err) \in StepT
    OBVIOUS
  <2>1. <<k, e>> \in Slots \X EntryT
    OBVIOUS
  <2>2. "slot" \in Dos /\ b \in AtOf("slot") /\ <<k, e>> \in ValOf("slot")
    BY <2>1
  <2> QED
    BY <2>2, StepTyped, Zenon DEF write_slot
<1>6. \A b \in Blocks, i \in Inodes : Step("data", b, i, err) \in StepT
  BY StepTyped
<1>7. \A b \in Blocks, i \in Inodes : Step("dots", b, <<i, ROOT>>, err) \in StepT
  <2> SUFFICES ASSUME NEW b \in Blocks, NEW i \in Inodes
               PROVE  Step("dots", b, <<i, ROOT>>, err) \in StepT
    OBVIOUS
  <2>1. <<i, ROOT>> \in Inodes \X {ROOT}
    OBVIOUS
  <2>2. "dots" \in Dos /\ b \in AtOf("dots") /\ <<i, ROOT>> \in ValOf("dots")
    BY <2>1
  <2> QED
    BY <2>2, StepTyped, Zenon
<1> QED
  BY <1>1, <1>2, <1>3, <1>4, <1>5, <1>6, <1>7

LEMMA CallsTyped ==
  ASSUME NEW err \in Errs
  PROVE  /\ \A x \in OnDisk : Step(x, 0, 0, err) \in StepT
         /\ \A i \in Inodes : Step("free_inode", i, 0, err) \in StepT
         /\ \A i \in Inodes, n \in Names : Step("dir_remove_entry", i, n, err) \in StepT
         /\ \A i, j \in Inodes : Step("update_dots", i, j, err) \in StepT
         /\ \A i \in Inodes, n \in NodeT : Step("dots_block", i, n, err) \in StepT
         /\ \A i \in Inodes, e \in EntryT : e.inode # 0 => Step("dir_add_entry", i, e, err) \in StepT
<1> USE DEF AtOf, ValOf, OnBlock, OnInode, OnDisk, Dos
<1>1. \A x \in OnDisk : Step(x, 0, 0, err) \in StepT
  BY StepTyped
<1>2. \A i \in Inodes : Step("free_inode", i, 0, err) \in StepT
  BY StepTyped
<1>3. \A i \in Inodes, n \in Names : Step("dir_remove_entry", i, n, err) \in StepT
  BY StepTyped
<1>4. \A i, j \in Inodes : Step("update_dots", i, j, err) \in StepT
  BY StepTyped
<1>5. \A i \in Inodes, n \in NodeT : Step("dots_block", i, n, err) \in StepT
  BY StepTyped
<1>6. \A i \in Inodes, e \in EntryT : e.inode # 0 => Step("dir_add_entry", i, e, err) \in StepT
  BY StepTyped
<1> QED
  BY <1>1, <1>2, <1>3, <1>4, <1>5, <1>6

\* What the caller does instead is well formed too.
LEMMA MendsTyped ==
  ASSUME NEW e \in Errs
  PROVE  e.fatal \in BOOLEAN /\ e.then \in Seq(StepT)
<1>1. \A s \in Mends : s \in StepT
  <2> SUFFICES ASSUME NEW s \in Mends PROVE s \in StepT
    OBVIOUS
  <2>1. CASE s \in {Step("free_inode", i, 0, Ignored) : i \in Inodes}
    BY <2>1, CallsTyped, ErrsTyped
  <2>2. CASE s \in {write_inode(p[1], p[2], Ignored) : p \in Inodes \X NodeT}
    <3>1. PICK p \in Inodes \X NodeT : s = write_inode(p[1], p[2], Ignored)
      BY <2>2
    <3>2. p[1] \in Inodes /\ p[2] \in NodeT
      BY <3>1
    <3> QED
      BY <3>1, <3>2, WritesTyped, ErrsTyped
  <2> QED
    BY <2>1, <2>2 DEF Mends
<1>2. e.fatal \in BOOLEAN /\ e.then \in {<< >>} \cup {<<s>> : s \in Mends}
  BY DEF Errs
<1>3. << >> \in Seq(StepT)
  OBVIOUS
<1>4. ASSUME NEW s \in Mends PROVE <<s>> \in Seq(StepT)
  BY <1>1, <1>4
<1> QED
  BY <1>2, <1>3, <1>4

LEMMA NodesTyped ==
  /\ ZeroInode \in NodeT /\ RootInode \in NodeT /\ AppInode \in NodeT /\ AutorunInode \in NodeT
  /\ \A t \in Types : Inode(t, FALSE, 0, 0) \in NodeT
  /\ ROOT \in Inodes
BY DiskAssumption, CallersAssumption
   DEF ZeroInode, RootInode, AppInode, AutorunInode, Inode, NodeT, Modes, ROOT, Inodes


\* The inodes the calls write.
LEMMA NodeUpdates ==
  ASSUME NEW n \in NodeT
  PROVE  /\ \A p \in Blocks : n.size < MAX_ENTRIES =>
              /\ Counted(n, p) \in NodeT
              /\ [n EXCEPT !.size = @ + 1, !.block = p] = Counted(n, p)
         /\ \A b \in Blocks : [n EXCEPT !.size = 2, !.block = b] \in NodeT
         /\ \A b \in Blocks : [n EXCEPT !.size = 1, !.block = b] \in NodeT
         /\ [n EXCEPT !.block = 0] \in NodeT
<1>1. /\ n \in [mode : Modes, prot : BOOLEAN, size : 0 .. MAX_ENTRIES, block : 0 .. NBLOCKS]
      /\ n.size \in 0 .. MAX_ENTRIES
  BY DEF NodeT
<1>2. ASSUME NEW p \in Blocks, n.size < MAX_ENTRIES
      PROVE  Counted(n, p) \in NodeT /\ [n EXCEPT !.size = @ + 1, !.block = p] = Counted(n, p)
  <2>1. n.size + 1 \in 0 .. MAX_ENTRIES /\ p \in 0 .. NBLOCKS
    BY <1>1, <1>2, DiskAssumption DEF Blocks
  <2> QED
    BY <1>1, <2>1 DEF Counted, NodeT
<1>3. ASSUME NEW b \in Blocks
      PROVE  [n EXCEPT !.size = 2, !.block = b] \in NodeT /\ [n EXCEPT !.size = 1, !.block = b] \in NodeT
  <2>1. 1 \in 0 .. MAX_ENTRIES /\ 2 \in 0 .. MAX_ENTRIES /\ b \in 0 .. NBLOCKS
    BY DiskAssumption DEF Blocks
  <2> QED
    BY <1>1, <2>1 DEF NodeT
<1>4. [n EXCEPT !.block = 0] \in NodeT
  <2>1. 0 \in 0 .. NBLOCKS
    BY DiskAssumption
  <2> QED
    BY <1>1, <2>1 DEF NodeT
<1> QED
  BY <1>2, <1>3, <1>4

LEMMA EntryTyped ==
  ASSUME NEW i \in Inodes, NEW t \in Modes, NEW m \in Names \cup {"app", "autorun"}
  PROVE  Entry(i, t, m) \in EntryT /\ Entry(i, t, m).inode = i /\ Entry(i, t, m).name = m
         /\ Entry(i, t, m).type = t /\ i # 0 /\ m \notin Dots
<1>1. i \in 0 .. INODE_COUNT /\ i # 0
  BY DiskAssumption DEF Inodes
<1>2. m \notin Dots
  BY CallersAssumption DEF Dots, NoName
<1> QED
  BY <1>1, <1>2 DEF Entry, EntryT

\* Slots of a directory, and what they hold.
LEMMA SlotTyped ==
  ASSUME NEW D \in DiskT, NEW i \in Inodes
  PROVE  /\ D.node[i] \in NodeT
         /\ LiveIn(D, i) \subseteq Slots
         /\ LiveIn(D, i) # {} => D.node[i].block \in Blocks /\ D.node[i].mode = "dir"
         /\ D.node[i].block # 0 => D.node[i].block \in Blocks
         /\ D.node[i].block # 0 => \A k \in Slots : SlotIn(D, i, k) \in EntryT
         /\ \A k \in LiveIn(D, i) : SlotIn(D, i, k).inode \in Inodes
         /\ D.node[i].size \in 0 .. MAX_ENTRIES
<1>1. D.node[i] \in NodeT /\ D.block \in [Blocks -> BlockT]
  BY DEF DiskT
<1>2. D.node[i].size \in 0 .. MAX_ENTRIES /\ D.node[i].block \in 0 .. NBLOCKS
  BY <1>1 DEF NodeT
<1>3. D.node[i].block # 0 => D.node[i].block \in Blocks
  BY <1>2, DiskAssumption DEF Blocks
<1>4. LiveIn(D, i) \subseteq 0 .. (D.node[i].size - 1)
  BY DEF LiveIn
<1>5. LiveIn(D, i) \subseteq Slots
  BY <1>2, <1>4, DiskAssumption DEF Slots
<1>6. LiveIn(D, i) # {} => D.node[i].block # 0 /\ D.node[i].mode = "dir"
  BY DEF LiveIn
<1>7. D.node[i].block # 0 => \A k \in Slots : SlotIn(D, i, k) \in EntryT
  BY <1>1, <1>3 DEF SlotIn, BlockT
<1>8. ASSUME NEW k \in LiveIn(D, i) PROVE SlotIn(D, i, k).inode \in Inodes
  <2>1. SlotIn(D, i, k) \in EntryT /\ SlotIn(D, i, k).inode # 0
    BY <1>5, <1>6, <1>7 DEF LiveIn
  <2>2. SlotIn(D, i, k).inode \in 0 .. INODE_COUNT
    BY <2>1 DEF EntryT
  <2> QED
    BY <2>1, <2>2, DiskAssumption DEF Inodes
<1> QED
  BY <1>1, <1>2, <1>3, <1>5, <1>6, <1>7, <1>8

\* The disk's own names for these.
LEMMA DiskNames ==
  ASSUME NEW i
  PROVE  /\ Live(i) = LiveIn(disk, i) /\ \A k : SlotOf(i, k) = SlotIn(disk, i, k)
         /\ IsDir(i) <=> disk.node[i].mode = "dir"
BY DEF Live, LiveIn, SlotOf, SlotIn, IsDir, Dots

LEMMA TwoSteps ==
  ASSUME NEW a \in StepT, NEW b \in StepT
  PROVE  <<a>> \in Seq(StepT) /\ <<a, b>> \in Seq(StepT)
OBVIOUS

LEMMA MoreSteps ==
  ASSUME NEW s \in Seq(StepT), NEW t \in Seq(StepT)
  PROVE  s \o t \in Seq(StepT)
BY ConcatProperties

LEMMA AddTyped ==
  ASSUME disk \in DiskT, NEW i \in Inodes, NEW e \in EntryT, NEW b, NEW err \in Errs,
         disk.node[i].size < MAX_ENTRIES,
         disk.node[i].block = 0 => b \in Blocks
  PROVE  dir_add_entry(i, e, b, err) \in Seq(StepT)
<1> DEFINE n == disk.node[i]
           p == IF n.block = 0 THEN b ELSE n.block
<1>1. n \in NodeT /\ p \in Blocks /\ n.size \in Slots
  BY SlotTyped, DiskAssumption DEF Slots
<1>2. [n EXCEPT !.size = @ + 1, !.block = p] \in NodeT
  <2>1. n.size < MAX_ENTRIES
    OBVIOUS
  <2> HIDE DEF n, p
  <2>2. [n EXCEPT !.size = @ + 1, !.block = p] = Counted(n, p) /\ Counted(n, p) \in NodeT
    BY <1>1, <2>1, NodeUpdates, Zenon
  <2> QED
    BY <2>2
<1>3. /\ write_slot(p, n.size, e, err) \in StepT
      /\ write_inode(i, [n EXCEPT !.size = @ + 1, !.block = p], Ignored) \in StepT
  BY <1>1, <1>2, WritesTyped, ErrsTyped
<1>4. n.block = 0 => allocate_block(b, err) \in Seq(StepT)
  BY WritesTyped, TwoSteps DEF allocate_block
<1>5. (IF n.block = 0 THEN allocate_block(b, err) ELSE << >>) \in Seq(StepT)
  BY <1>4
<1> HIDE DEF n, p
<1>6. <<write_slot(p, n.size, e, err), write_inode(i, [n EXCEPT !.size = @ + 1, !.block = p], Ignored)>>
        \in Seq(StepT)
  BY <1>3, TwoSteps
<1> QED
  BY <1>5, <1>6, MoreSteps DEF dir_add_entry, n, p

LEMMA FreeTyped ==
  ASSUME disk \in DiskT, NEW i \in Inodes
  PROVE  free_inode(i) \in Seq(StepT)
<1> DEFINE n == disk.node[i]
           frees == n.size > 0 /\ n.block # 0
           m == IF frees THEN [n EXCEPT !.block = 0] ELSE n
           first == IF frees THEN <<bitmap_set_block(n.block, FALSE, Ignored)>> ELSE << >>
<1>1. n \in NodeT /\ (n.block # 0 => n.block \in Blocks)
  BY SlotTyped
<1>2. m \in NodeT
  BY <1>1, NodeUpdates
<1>3. first \in Seq(StepT)
  <2>1. frees => bitmap_set_block(n.block, FALSE, Ignored) \in StepT
    BY <1>1, WritesTyped, ErrsTyped
  <2>2. frees => <<bitmap_set_block(n.block, FALSE, Ignored)>> \in Seq(StepT)
    BY <2>1, TwoSteps
  <2>3. << >> \in Seq(StepT)
    OBVIOUS
  <2> HIDE DEF frees, n
  <2> QED
    BY <2>2, <2>3
<1> HIDE DEF m
<1>4. bitmap_set_inode(i, FALSE, Ignored) \in StepT /\ write_inode(i, m, Ignored) \in StepT
  BY <1>2, WritesTyped, ErrsTyped
<1> HIDE DEF first
<1>5. first \o <<bitmap_set_inode(i, FALSE, Ignored), write_inode(i, m, Ignored)>> \in Seq(StepT)
  BY <1>3, <1>4, TwoSteps, MoreSteps
<1> QED
  BY <1>5 DEF free_inode, m, first

LEMMA DotsTyped ==
  ASSUME NEW i \in Inodes, NEW n \in NodeT, NEW b \in Blocks
  PROVE  dots_block(i, n, b) \in Seq(StepT)
<1>1. allocate_block(b, Fatal) \in Seq(StepT)
  BY WritesTyped, ErrsTyped, TwoSteps DEF allocate_block
<1>2. [n EXCEPT !.size = 2, !.block = b] \in NodeT
  BY NodeUpdates
<1> DEFINE m == [n EXCEPT !.size = 2, !.block = b]
<1> HIDE DEF m
<1>3. Step("dots", b, <<i, ROOT>>, Ignored) \in StepT /\ write_inode(i, m, Ignored) \in StepT
  BY <1>2, WritesTyped, ErrsTyped DEF m
<1>4. <<Step("dots", b, <<i, ROOT>>, Ignored), write_inode(i, m, Ignored)>> \in Seq(StepT)
  BY <1>3, TwoSteps
<1> QED
  BY <1>1, <1>4, MoreSteps DEF dots_block, m

LEMMA AllocateInodeTyped ==
  ASSUME NEW i \in Inodes, NEW err \in Errs
  PROVE  allocate_inode(i, err) \in Seq(StepT)
<1>1. bitmap_set_inode(i, TRUE, err) \in StepT /\ write_inode(i, ZeroInode, Ignored) \in StepT
  BY WritesTyped, ErrsTyped, NodesTyped
<1> QED
  BY <1>1, TwoSteps DEF allocate_inode

LEMMA ProtectedTyped ==
  ASSUME NEW i \in Inodes
  PROVE  protected_app(i) \in Seq(StepT) /\ protected_autorun(i) \in Seq(StepT)
<1>1. allocate_inode(i, Fatal) \in Seq(StepT)
  BY AllocateInodeTyped, ErrsTyped
<1>2. /\ write_inode(i, AppInode, Ignored) \in StepT /\ write_inode(i, AutorunInode, Ignored) \in StepT
      /\ Step("dots_block", i, AppInode, Fatal) \in StepT
  BY WritesTyped, CallsTyped, ErrsTyped, NodesTyped
<1>3. /\ Entry(i, "dir", "app") \in EntryT /\ Entry(i, "file", "autorun") \in EntryT
      /\ Entry(i, "dir", "app").inode # 0 /\ Entry(i, "file", "autorun").inode # 0
  BY EntryTyped DEF Modes
<1>4. /\ Step("dir_add_entry", ROOT, Entry(i, "dir", "app"), Fatal) \in StepT
      /\ Step("dir_add_entry", ROOT, Entry(i, "file", "autorun"), Fatal) \in StepT
  BY <1>3, CallsTyped, ErrsTyped, NodesTyped
<1>5. /\ <<write_inode(i, AppInode, Ignored), Step("dots_block", i, AppInode, Fatal),
           Step("dir_add_entry", ROOT, Entry(i, "dir", "app"), Fatal)>> \in Seq(StepT)
      /\ <<write_inode(i, AutorunInode, Ignored),
           Step("dir_add_entry", ROOT, Entry(i, "file", "autorun"), Fatal)>> \in Seq(StepT)
  BY <1>2, <1>4
<1> QED
  BY <1>1, <1>5, MoreSteps DEF protected_app, protected_autorun

LEMMA FormatTyped == ipo_fs_format \o <<Step("ipo_fs_mount", 0, 0, Ignored)>> \in Seq(StepT)
<1>1. /\ Step("superblock", 0, 0, Fatal) \in StepT /\ Step("inode bitmap", 0, 0, Fatal) \in StepT
      /\ Step("block bitmap", 0, 0, Fatal) \in StepT /\ Step("protected_app", 0, 0, Fatal) \in StepT
      /\ Step("protected_autorun", 0, 0, Fatal) \in StepT /\ Step("ipo_fs_mount", 0, 0, Ignored) \in StepT
  BY CallsTyped, ErrsTyped DEF OnDisk
<1>2. /\ bitmap_set_inode(ROOT, TRUE, Ignored) \in StepT /\ write_inode(ROOT, RootInode, Ignored) \in StepT
      /\ Step("dots_block", ROOT, RootInode, Fatal) \in StepT
      /\ \A i \in Inodes : write_inode(i, ZeroInode, Fatal) \in StepT
  BY CallsTyped, WritesTyped, ErrsTyped, NodesTyped
<1> DEFINE zs == [i \in Inodes |-> write_inode(i, ZeroInode, Fatal)]
           as == <<Step("superblock", 0, 0, Fatal), Step("inode bitmap", 0, 0, Fatal),
                   Step("block bitmap", 0, 0, Fatal)>>
           bs == <<bitmap_set_inode(ROOT, TRUE, Ignored), write_inode(ROOT, RootInode, Ignored),
                   Step("dots_block", ROOT, RootInode, Fatal),
                   Step("protected_app", 0, 0, Fatal), Step("protected_autorun", 0, 0, Fatal),
                   Step("superblock", 0, 0, Fatal)>>
<1>3. zs \in Seq(StepT)
  <2>1. zs \in [1 .. INODE_COUNT -> StepT]
    BY <1>2 DEF Inodes
  <2> HIDE DEF zs
  <2> QED
    BY <2>1, DiskAssumption, SeqDef
<1>4. as \in Seq(StepT) /\ bs \in Seq(StepT) /\ <<Step("ipo_fs_mount", 0, 0, Ignored)>> \in Seq(StepT)
  <2>1. as \in Seq(StepT)
    <3>1. ASSUME NEW s1 \in StepT, NEW s2 \in StepT, NEW s3 \in StepT
          PROVE  <<s1, s2, s3>> \in Seq(StepT)
      OBVIOUS
    <3> QED
      BY <1>1, <3>1, Zenon
  <2>2. <<Step("ipo_fs_mount", 0, 0, Ignored)>> \in Seq(StepT)
    BY <1>1, TwoSteps
  <2>3. ASSUME NEW s1 \in StepT, NEW s2 \in StepT, NEW s3 \in StepT, NEW s4 \in StepT, NEW s5 \in StepT,
               NEW s6 \in StepT
        PROVE  <<s1, s2, s3, s4, s5, s6>> \in Seq(StepT)
    OBVIOUS
  <2>4. bs \in Seq(StepT)
    BY <1>1, <1>2, <2>3, Zenon
  <2> QED
    BY <2>1, <2>2, <2>4
<1>5. ipo_fs_format = as \o zs \o bs
  BY DEF ipo_fs_format
<1> HIDE DEF as, bs, zs
<1> QED
  BY <1>3, <1>4, <1>5, MoreSteps

-----------------------------------------------------------------------------
(***************************************************************************)
(* What paths lead to.                                                     *)
(***************************************************************************)
LEMMA BelowLeast ==
  ASSUME NEW D \in DiskT, NEW i \in Inodes
  PROVE  /\ i \in BelowIn(D, i) /\ BelowIn(D, i) \subseteq Inodes
         /\ Closed(D, BelowIn(D, i))
         /\ \A C \in SUBSET Inodes : i \in C /\ Closed(D, C) => BelowIn(D, i) \subseteq C
<1>1. ASSUME NEW j \in BelowIn(D, i), NEW h \in Linked(D, j) PROVE h \in BelowIn(D, i)
  <2>1. j \in Inodes
    BY DEF BelowIn
  <2>2. h \in Inodes
    BY <2>1, SlotTyped DEF Linked
  <2> QED
    BY <2>2 DEF BelowIn, Closed
<1> QED
  BY <1>1 DEF BelowIn, Closed

\* A set that grows inside A, step by step.
Growing(N, A, f, L) ==
  /\ N \in Nat /\ IsFiniteSet(A) /\ Cardinality(A) <= N
  /\ f \in [0 .. N -> SUBSET A] /\ f[0] # {} /\ L \in [SUBSET A -> SUBSET A]
  /\ \A S \in SUBSET A : S \subseteq L[S]
  /\ \A k \in 1 .. N : f[k] = L[f[k - 1]]

\* If A has N elements, it stops growing after at most N steps.
LEMMA GrowsNoMore ==
  ASSUME NEW N, NEW A, NEW f, NEW L, Growing(N, A, f, L)
  PROVE  L[f[N]] = f[N]
<1> USE DEF Growing
<1>1. \A S \in SUBSET A : IsFiniteSet(S) /\ Cardinality(S) \in Nat /\ Cardinality(S) <= Cardinality(A)
  BY FS_Subset, FS_CardinalityType
<1>2. Cardinality(A) \in Nat
  BY FS_CardinalityType
<1> DEFINE T == {n \in Nat : n <= N => L[f[n]] = f[n] \/ Cardinality(f[n]) >= n + 1}
<1>3. 0 \in T
  <2>1. f[0] \in SUBSET A
    OBVIOUS
  <2>2. Cardinality(f[0]) # 0 /\ Cardinality(f[0]) \in Nat
    BY <2>1, <1>1, FS_EmptySet
  <2> QED
    BY <2>2
<1>4. ASSUME NEW n \in T PROVE n + 1 \in T
  <2> SUFFICES ASSUME n + 1 <= N PROVE L[f[n + 1]] = f[n + 1] \/ Cardinality(f[n + 1]) >= (n + 1) + 1
    OBVIOUS
  <2>1. n \in 0 .. N /\ n + 1 \in 1 .. N /\ n \in Nat /\ n <= N /\ n + 1 \in 0 .. N
    OBVIOUS
  <2>2. f[n] \in SUBSET A /\ f[n + 1] \in SUBSET A
    BY <2>1
  <2>3. f[n + 1] = L[f[n]]
    <3>1. f[n + 1] = L[f[(n + 1) - 1]] /\ (n + 1) - 1 = n
      BY <2>1
    <3> QED
      BY <3>1
  <2>4. CASE L[f[n]] = f[n]
    BY <2>3, <2>4
  <2>5. CASE L[f[n]] # f[n]
    <3>1. Cardinality(f[n]) >= n + 1
      BY <2>5, <2>1
    <3>2. f[n] \subseteq f[n + 1] /\ f[n] # f[n + 1]
      BY <2>2, <2>3, <2>5
    <3>3. Cardinality(f[n]) < Cardinality(f[n + 1])
      BY <3>2, <2>2, <1>1, FS_Subset
    <3> QED
      BY <3>1, <3>3, <1>1, <2>1, <2>2
  <2> QED
    BY <2>4, <2>5
<1>5. T = Nat
  <2>1. T \in SUBSET Nat
    OBVIOUS
  <2> HIDE DEF T
  <2> QED
    BY <1>3, <1>4, <2>1, SetInduction
<1>6. N \in 0 .. N /\ f[N] \in SUBSET A
  OBVIOUS
<1>7. L[f[N]] = f[N] \/ Cardinality(f[N]) >= N + 1
  BY <1>5
<1> QED
  BY <1>6, <1>7, <1>1, <1>2


LEMMA BelowDisk ==
  ASSUME disk \in DiskT, NEW i \in Inodes
  PROVE  Below(i) = BelowIn(disk, i)
<1> DEFINE more(S) == S \cup UNION {{SlotOf(j, s).inode : s \in Live(j)} : j \in S}
           reach[k \in 0 .. INODE_COUNT] == IF k = 0 THEN {i} ELSE more(reach[k - 1])
           R == SUBSET Inodes
           N == INODE_COUNT
           G == [x \in R \X (1 .. N) |-> more(x[1])]
           L == [S \in R |-> more(S)]
<1>1. Below(i) = reach[INODE_COUNT]
  BY DEF Below
<1>2. \A S \in R : more(S) = S \cup UNION {Linked(disk, j) : j \in S}
  BY DiskNames DEF Linked
<1>3. \A S \in R : more(S) \in R /\ S \subseteq more(S)
  <2>1. \A j \in Inodes : Linked(disk, j) \subseteq Inodes
    BY SlotTyped DEF Linked
  <2> HIDE DEF more
  <2> QED
    BY <1>2, <2>1
<1> HIDE DEF more
<1>4. N \in Nat /\ {i} \in R
  BY DiskAssumption
<1>5. G \in StepsOn(R, N)
  BY <1>3 DEF StepsOn
<1>6. PICK f \in [0 .. N -> R] : Recursive(f, {i}, N, G)
  <2> HIDE DEF G, N, R, reach
  <2> QED
    BY <1>4, <1>5, Recursion, Zenon
<1>7. f = [k \in 0 .. N |-> IF k = 0 THEN {i} ELSE more(f[k - 1])]
  <2>1. \A k \in 0 .. N : k # 0 => G[<<f[k - 1], k>>] = more(f[k - 1])
    <3> SUFFICES ASSUME NEW k \in 0 .. N, k # 0
                 PROVE  G[<<f[k - 1], k>>] = more(f[k - 1])
      OBVIOUS
    <3> HIDE DEF reach
    <3>1. f[k - 1] \in R /\ k \in 1 .. N
      <4> HIDE DEF N, G, R
      <4>1. k - 1 \in 0 .. N /\ k \in 1 .. N
        BY <1>4
      <4> QED
        BY <4>1
    <3> HIDE DEF R
    <3> QED
      BY <3>1
  <2> HIDE DEF G, reach, R
  <2> QED
    BY <1>6, <2>1 DEF Recursive
<1>8. reach = [k \in 0 .. N |-> IF k = 0 THEN {i} ELSE more(reach[k - 1])]
  BY <1>7
<1> HIDE DEF reach
<1>9. reach \in [0 .. N -> R] /\ reach[0] = {i} /\ \A k \in 1 .. N : reach[k] = L[reach[k - 1]]
  <2> DEFINE S == {n \in Nat : n <= N => reach[n] \in R}
  <2>0. \A k \in 0 .. N : reach[k] = IF k = 0 THEN {i} ELSE more(reach[k - 1])
    BY <1>8
  <2>1. 0 \in S
    BY <2>0, <1>4
  <2>2. ASSUME NEW n \in S PROVE n + 1 \in S
    <3> SUFFICES ASSUME n + 1 <= N PROVE reach[n + 1] \in R
      OBVIOUS
    <3>1. reach[n] \in R /\ n + 1 \in 0 .. N /\ n + 1 # 0 /\ (n + 1) - 1 = n
      BY <1>4
    <3>2. reach[n + 1] = more(reach[n])
      BY <2>0, <3>1
    <3> HIDE DEF R, S
    <3> QED
      BY <3>1, <3>2, <1>3
  <2>3. S = Nat
    <3>1. S \in SUBSET Nat
      OBVIOUS
    <3> HIDE DEF S
    <3> QED
      BY <2>1, <2>2, <3>1, SetInduction
  <2>4. \A k \in 0 .. N : reach[k] \in R
    BY <2>3
  <2>5. ASSUME NEW k \in 1 .. N PROVE reach[k] = L[reach[k - 1]]
    <3>1. k \in 0 .. N /\ k # 0 /\ k - 1 \in 0 .. N
      BY <1>4
    <3>2. reach[k - 1] \in R
      BY <3>1, <2>4
    <3> HIDE DEF R
    <3>3. reach[k] = more(reach[k - 1]) /\ L[reach[k - 1]] = more(reach[k - 1])
      BY <3>1, <3>2, <2>0
    <3> QED
      BY <3>3
  <2> HIDE DEF R, L, N
  <2>6. reach \in [0 .. N -> R]
    BY <1>8, <2>4
  <2> QED
    BY <2>0, <2>5, <2>6, <1>4
<1>10. IsFiniteSet(Inodes) /\ Cardinality(Inodes) <= N
  BY FS_Interval, DiskAssumption DEF Inodes
<1>11. L \in [SUBSET Inodes -> SUBSET Inodes] /\ \A S \in SUBSET Inodes : S \subseteq L[S]
  BY <1>3
<1>12. L[reach[N]] = reach[N]
  <2>1. reach[0] # {} /\ reach \in [0 .. N -> SUBSET Inodes]
    BY <1>9
  <2>2. \A k \in 1 .. N : reach[k] = L[reach[k - 1]]
    BY <1>9
  <2> HIDE DEF L, N
  <2>3. Growing(N, Inodes, reach, L)
    BY <1>4, <2>1, <2>2, <1>10, <1>11 DEF Growing
  <2> QED
    BY <2>3, GrowsNoMore
<1>13. reach[N] \in R
  BY <1>9, <1>4
<1>14. Closed(disk, reach[N])
  <2>1. reach[N] \cup UNION {Linked(disk, j) : j \in reach[N]} = reach[N]
    BY <1>12, <1>13, <1>2
  <2> HIDE DEF N
  <2> QED
    BY <2>1 DEF Closed
<1>15. \A k \in 0 .. N : i \in reach[k] /\ reach[k] \subseteq BelowIn(disk, i)
  <2> DEFINE S == {n \in Nat : n <= N => i \in reach[n] /\ reach[n] \subseteq BelowIn(disk, i)}
  <2>0. i \in BelowIn(disk, i) /\ Closed(disk, BelowIn(disk, i))
    BY BelowLeast
  <2>1. 0 \in S
    BY <1>9, <2>0
  <2>2. ASSUME NEW n \in S PROVE n + 1 \in S
    <3> SUFFICES ASSUME n + 1 <= N PROVE i \in reach[n + 1] /\ reach[n + 1] \subseteq BelowIn(disk, i)
      OBVIOUS
    <3>1. n + 1 \in 1 .. N /\ n \in 0 .. N /\ (n + 1) - 1 = n
      BY <1>4
    <3>2. reach[n] \in R /\ i \in reach[n] /\ reach[n] \subseteq BelowIn(disk, i)
      BY <3>1, <1>9
    <3>3. reach[n + 1] = more(reach[n])
      <4>1. reach[n + 1] = L[reach[n]]
        BY <1>9, <3>1
      <4> QED
        BY <4>1, <3>2
    <3>4. reach[n + 1] = reach[n] \cup UNION {Linked(disk, j) : j \in reach[n]}
      BY <3>2, <3>3, <1>2
    <3> QED
      BY <3>2, <3>4, <2>0 DEF Closed
  <2>3. S = Nat
    <3>1. S \in SUBSET Nat
      OBVIOUS
    <3> HIDE DEF S
    <3> QED
      BY <2>1, <2>2, <3>1, SetInduction
  <2> QED
    BY <2>3
<1>16. i \in reach[N] /\ reach[N] \subseteq BelowIn(disk, i)
  BY <1>15, <1>4
<1>17. BelowIn(disk, i) \subseteq reach[N]
  BY <1>13, <1>14, <1>16, BelowLeast
<1> QED
  BY <1>1, <1>16, <1>17


-----------------------------------------------------------------------------
(***************************************************************************)
(* Every action keeps the types.                                           *)
(***************************************************************************)
\* The list after the step at its head failed.
FailList(td) == IF Head(td).err.fatal THEN Head(td).err.then ELSE Tail(td)

LEMMA HeadTyped ==
  ASSUME NEW td \in Seq(StepT), td # << >>
  PROVE  Head(td) \in StepT /\ Tail(td) \in Seq(StepT) /\ FailList(td) \in Seq(StepT)
<1>1. Head(td) \in StepT /\ Tail(td) \in Seq(StepT)
  OBVIOUS
<1>2. Head(td).err \in Errs
  BY <1>1, StepFields
<1> QED
  BY <1>1, <1>2, MendsTyped DEF FailList

LEMMA ScanTyped ==
  ASSUME NEW all \in SUBSET Nat, NEW bits \in SUBSET all, NEW b \in Scan(all, bits)
  PROVE  /\ b \in all
         /\ b \in bits => "read" \in Faults /\ faults < MAX_FAULTS
         /\ ~(all \subseteq bits) \/ b \in bits
<1>1. CASE ~(all \subseteq bits)
  <2>1. First(all \ bits) \in all \ bits
    BY <1>1, FirstIn
  <2> QED
    BY <2>1, <1>1 DEF Scan, Can
<1>2. CASE all \subseteq bits
  BY <1>2 DEF Scan, Can
<1> QED
  BY <1>1, <1>2

LEMMA TookTyped ==
  ASSUME Typed, NEW all \in SUBSET Nat, NEW bits \in SUBSET all, NEW b \in Scan(all, bits), Took(b, bits)
  PROVE  /\ scars' \subseteq Scars /\ faults' \in 0 .. MAX_FAULTS
         /\ scars' \subseteq {"wiped"} => scars' = scars /\ b \notin bits
<1>1. b \in bits => faults < MAX_FAULTS
  BY ScanTyped
<1>2. faults \in Nat /\ faults <= MAX_FAULTS /\ MAX_FAULTS \in Nat
  BY FaultsAssumption DEF Typed
<1>3. faults' \in 0 .. MAX_FAULTS
  BY <1>1, <1>2 DEF Took
<1> QED
  BY <1>3 DEF Took, Typed, Scars

LEMMA TookNoneTyped ==
  ASSUME Typed, TookNone
  PROVE  scars' \subseteq Scars /\ faults' \in 0 .. MAX_FAULTS
BY DEF Typed, TookNone

LEMMA BitsTyped ==
  ASSUME disk \in DiskT
  PROVE  /\ Inodes \in SUBSET Nat /\ Blocks \in SUBSET Nat
         /\ disk.ibit \in SUBSET Inodes /\ disk.bbit \in SUBSET Blocks
BY DiskFields, DiskAssumption DEF Inodes, Blocks

LEMMA MountTyped ==
  ASSUME Typed, ensure_fs_mounted \/ ipo_fs_mount
  PROVE  Typed'
<1>1. todo # << >> /\ TookNone
  BY DEF ensure_fs_mounted, ipo_fs_mount, At
<1>2. Tail(todo) \in Seq(StepT) /\ disk.super \in BOOLEAN
  BY <1>1, HeadTyped, DiskFields DEF Typed
<1>3. ipo_fs_format \o <<Step("ipo_fs_mount", 0, 0, Ignored)>> \o Tail(todo) \in Seq(StepT)
  BY <1>2, FormatTyped, MoreSteps
<1> QED
  BY <1>1, <1>2, <1>3, TookNoneTyped DEF Typed, ensure_fs_mounted, ipo_fs_mount, Returns, Becomes, Goes

\* A function that gives up.
LEMMA RefusesTyped ==
  ASSUME Typed, todo # << >>, Refuses
  PROVE  Typed'
<1>1. FailList(todo) \in Seq(StepT)
  BY HeadTyped DEF Typed
<1> QED
  BY <1>1, TookNoneTyped DEF Typed, Refuses, Fails, Goes, FailList, Arg

LEMMA BecomesTyped ==
  ASSUME Typed, todo # << >>, NEW steps \in Seq(StepT), Becomes(steps),
         scars' \subseteq Scars, faults' \in 0 .. MAX_FAULTS
  PROVE  Typed'
<1>1. steps \o Tail(todo) \in Seq(StepT)
  BY HeadTyped, MoreSteps DEF Typed
<1> QED
  BY <1>1 DEF Typed, Becomes, Goes

LEMMA FormatDotsTyped ==
  ASSUME Typed, format_dots
  PROVE  Typed'
<1>1. todo # << >> /\ Arg.do = "dots_block"
  BY DEF format_dots, At, Arg
<1>2. Arg \in StepT
  BY <1>1, HeadTyped DEF Arg, Typed
<1>3. Arg.at \in Inodes /\ Arg.val \in NodeT
  BY <1>1, <1>2, StepFields DEF AtOf, ValOf, OnBlock, OnInode
<1>4. CASE Refuses
  BY <1>1, <1>4, RefusesTyped
<1>5. ASSUME NEW b \in Scan(Blocks, disk.bbit), Becomes(dots_block(Arg.at, Arg.val, b)), Took(b, disk.bbit)
      PROVE  Typed'
  <2>1. Blocks \in SUBSET Nat /\ disk.bbit \in SUBSET Blocks
    BY BitsTyped DEF Typed
  <2>2. b \in Blocks
    BY <2>1, ScanTyped
  <2>3. dots_block(Arg.at, Arg.val, b) \in Seq(StepT)
    BY <1>3, <2>2, DotsTyped
  <2>4. scars' \subseteq Scars /\ faults' \in 0 .. MAX_FAULTS
    BY <2>1, <1>5, TookTyped
  <2> QED
    BY <1>1, <1>5, <2>3, <2>4, BecomesTyped
<1> QED
  BY <1>4, <1>5 DEF format_dots

LEMMA FormatProtectedTyped ==
  ASSUME Typed, format_protected
  PROVE  Typed'
<1>1. todo # << >>
  BY DEF format_protected, At
<1>2. CASE Refuses
  BY <1>1, <1>2, RefusesTyped
<1>3. ASSUME NEW i \in Scan(Inodes, disk.ibit), Took(i, disk.ibit),
             Becomes(IF At("protected_app") THEN protected_app(i) ELSE protected_autorun(i))
      PROVE  Typed'
  <2>1. Inodes \in SUBSET Nat /\ disk.ibit \in SUBSET Inodes
    BY BitsTyped DEF Typed
  <2>2. i \in Inodes
    BY <2>1, ScanTyped
  <2>3. (IF At("protected_app") THEN protected_app(i) ELSE protected_autorun(i)) \in Seq(StepT)
    BY <2>2, ProtectedTyped
  <2>4. scars' \subseteq Scars /\ faults' \in 0 .. MAX_FAULTS
    BY <2>1, <1>3, TookTyped
  <2> QED
    BY <1>1, <1>3, <2>3, <2>4, BecomesTyped
<1> QED
  BY <1>2, <1>3 DEF format_protected

LEMMA MayTyped ==
  ASSUME Typed, NEW fault, May(fault)
  PROVE  faults' \in 0 .. MAX_FAULTS
BY FaultsAssumption DEF Typed, May, Can

\* A fault that leaves no mark.
LEMMA OverlooksTyped ==
  ASSUME Typed, Overlooks
  PROVE  faults' \in 0 .. MAX_FAULTS /\ scars' \subseteq Scars
BY MayTyped DEF Overlooks, Typed

\* The entry a search finds.
LEMMA FindTyped ==
  ASSUME disk \in DiskT, NEW i \in Inodes, NEW n, Find(i, n) # {}
  PROVE  /\ First(Find(i, n)) \in LiveIn(disk, i) /\ First(Find(i, n)) \in Slots
         /\ SlotIn(disk, i, First(Find(i, n))).name = n
         /\ \A l \in LiveIn(disk, i) : SlotIn(disk, i, l).name = n => First(Find(i, n)) <= l
         /\ disk.node[i].block \in Blocks
<1>1. Find(i, n) \subseteq LiveIn(disk, i) /\ LiveIn(disk, i) \subseteq Slots
  BY DiskNames, SlotTyped DEF Find
<1>2. Find(i, n) \in SUBSET Nat
  BY <1>1, DiskAssumption DEF Slots
<1>3. First(Find(i, n)) \in Find(i, n) /\ \A l \in Find(i, n) : First(Find(i, n)) <= l
  BY <1>2, FirstIn
<1>4. \A l \in LiveIn(disk, i) : SlotIn(disk, i, l).name = n => l \in Find(i, n)
  BY DiskNames DEF Find
<1>5. SlotIn(disk, i, First(Find(i, n))).name = n
  BY <1>3, DiskNames DEF Find
<1>6. disk.node[i].block \in Blocks
  BY <1>1, SlotTyped
<1> QED
  BY <1>1, <1>3, <1>4, <1>5, <1>6

LEMMA RunAddTyped ==
  ASSUME Typed, run_dir_add_entry
  PROVE  Typed'
<1>1. todo # << >> /\ Arg.do = "dir_add_entry"
  BY DEF run_dir_add_entry, At, Arg
<1>2. Arg \in StepT
  BY <1>1, HeadTyped DEF Arg, Typed
<1>3. Arg.at \in Inodes /\ Arg.val \in EntryT /\ Arg.err \in Errs
  BY <1>1, <1>2, StepFields DEF AtOf, ValOf, OnBlock, OnInode
<1>4. CASE Refuses
  BY <1>1, <1>4, RefusesTyped
<1>5. ASSUME IsDir(Arg.at), HasRoom(Arg.at), ~NeedsBlock,
             Becomes(dir_add_entry(Arg.at, Arg.val, 0, Arg.err)), TookNone
      PROVE  Typed'
  <2>1. dir_add_entry(Arg.at, Arg.val, 0, Arg.err) \in Seq(StepT)
    BY <1>3, <1>5, AddTyped DEF Typed, NeedsBlock, HasRoom
  <2> QED
    BY <1>1, <1>5, <2>1, TookNoneTyped, BecomesTyped
<1>6. ASSUME IsDir(Arg.at), HasRoom(Arg.at), NEW b \in Scan(Blocks, disk.bbit),
             Becomes(dir_add_entry(Arg.at, Arg.val, b, Arg.err)), Took(b, disk.bbit)
      PROVE  Typed'
  <2>1. Blocks \in SUBSET Nat /\ disk.bbit \in SUBSET Blocks
    BY BitsTyped DEF Typed
  <2>2. b \in Blocks
    BY <2>1, ScanTyped
  <2>3. dir_add_entry(Arg.at, Arg.val, b, Arg.err) \in Seq(StepT)
    BY <1>3, <1>6, <2>2, AddTyped DEF Typed, HasRoom
  <2>4. scars' \subseteq Scars /\ faults' \in 0 .. MAX_FAULTS
    BY <2>1, <1>6, TookTyped
  <2> QED
    BY <1>1, <1>6, <2>3, <2>4, BecomesTyped
<1>7. ASSUME IsDir(Arg.at), HasRoom(Arg.at), Find(Arg.at, Arg.val.name) # {},
             Becomes(dir_add_entry(Arg.at, Arg.val, 0, Arg.err)),
             May("read"), scars' = scars \cup {"misread"}
      PROVE  Typed'
  <2>1. disk.node[Arg.at].block # 0
    BY <1>3, <1>7, FindTyped, DiskAssumption DEF Typed, Blocks
  <2>2. dir_add_entry(Arg.at, Arg.val, 0, Arg.err) \in Seq(StepT)
    BY <1>3, <1>7, <2>1, AddTyped DEF Typed, HasRoom
  <2>3. scars' \subseteq Scars /\ faults' \in 0 .. MAX_FAULTS
    BY <1>7, MayTyped DEF Typed, Scars
  <2> QED
    BY <1>1, <1>7, <2>2, <2>3, BecomesTyped
<1> QED
  BY <1>4, <1>5, <1>6, <1>7 DEF run_dir_add_entry

LEMMA RunRemoveTyped ==
  ASSUME Typed, run_dir_remove_entry
  PROVE  Typed'
<1>1. todo # << >> /\ Arg.do = "dir_remove_entry"
  BY DEF run_dir_remove_entry, At, Arg
<1>2. Arg \in StepT
  BY <1>1, HeadTyped DEF Arg, Typed
<1>3. Arg.at \in Inodes /\ Arg.err \in Errs
  BY <1>1, <1>2, StepFields DEF AtOf, OnBlock, OnInode
<1>4. CASE Refuses
  BY <1>1, <1>4, RefusesTyped
<1>5. CASE Removable(Arg.at, Arg.val)
  <2> DEFINE k == First(Find(Arg.at, Arg.val))
             w == write_slot(disk.node[Arg.at].block, k, NoEntry, Arg.err)
  <2>1. Find(Arg.at, Arg.val) # {}
    BY <1>5 DEF Removable
  <2>2. k \in Slots /\ disk.node[Arg.at].block \in Blocks
    BY <1>3, <2>1, FindTyped DEF Typed
  <2>3. w \in StepT
    BY <1>3, <2>2, WritesTyped, NoEntryTyped
  <2>4. Becomes(<<w>>) /\ TookNone
    BY <1>5 DEF run_dir_remove_entry
  <2> HIDE DEF w
  <2>5. <<w>> \in Seq(StepT)
    BY <2>3, TwoSteps
  <2> QED
    BY <1>1, <2>4, <2>5, TookNoneTyped, BecomesTyped
<1> QED
  BY <1>4, <1>5 DEF run_dir_remove_entry

LEMMA UpdateDotsTyped ==
  ASSUME Typed, update_dots
  PROVE  Typed'
<1>1. todo # << >> /\ Arg.do = "update_dots"
  BY DEF update_dots, At, Arg
<1>2. Arg \in StepT
  BY <1>1, HeadTyped DEF Arg, Typed
<1>3. Arg.at \in Inodes /\ Arg.err \in Errs /\ Arg.val \in Inodes
  BY <1>1, <1>2, StepFields DEF AtOf, ValOf, OnBlock, OnInode
<1> DEFINE b == disk.node[Arg.at].block
           e == SlotOf(Arg.at, 1)
           w == write_slot(b, 1, [e EXCEPT !.inode = Arg.val], Arg.err)
<1>4. CASE b = 0
  <2>1. Becomes(<< >>) /\ TookNone /\ << >> \in Seq(StepT)
    BY <1>4 DEF update_dots
  <2> QED
    BY <1>1, <2>1, TookNoneTyped, BecomesTyped
<1>5. CASE b # 0
  <2>1. b \in Blocks /\ 1 \in Slots
    BY <1>3, <1>5, SlotTyped, DiskAssumption DEF Typed, Slots
  <2>2. e \in EntryT
    BY <1>3, <1>5, <2>1, SlotTyped, DiskNames DEF Typed
  <2>3. Arg.val \in 0 .. INODE_COUNT /\ Arg.val # 0
    BY <1>3, DiskAssumption DEF Inodes
  <2>4. [e EXCEPT !.inode = Arg.val] \in EntryT
    <3> HIDE DEF e
    <3> QED
      BY <2>2, <2>3 DEF EntryT
  <2>5. w \in StepT
    BY <1>3, <2>1, <2>4, WritesTyped
  <2>6. /\ Becomes(<<w>>)
        /\ scars' = IF 1 \in Live(Arg.at) THEN scars \cup {"dots"} ELSE scars
        /\ UNCHANGED faults
    BY <1>5 DEF update_dots
  <2>7. scars' \subseteq Scars /\ faults' \in 0 .. MAX_FAULTS
    BY <2>6 DEF Typed, Scars
  <2> HIDE DEF w
  <2>8. <<w>> \in Seq(StepT)
    BY <2>5, TwoSteps
  <2> QED
    BY <1>1, <2>6, <2>7, <2>8, BecomesTyped
<1> QED
  BY <1>4, <1>5

LEMMA RunFreeTyped ==
  ASSUME Typed, run_free_inode
  PROVE  Typed'
<1>1. todo # << >> /\ Arg.do = "free_inode"
  BY DEF run_free_inode, At, Arg
<1>2. Arg \in StepT
  BY <1>1, HeadTyped DEF Arg, Typed
<1>3. Arg.at \in Inodes
  BY <1>1, <1>2, StepFields DEF AtOf, OnBlock, OnInode
<1>4. free_inode(Arg.at) \in Seq(StepT)
  BY <1>3, FreeTyped DEF Typed
<1>5. CASE Becomes(free_inode(Arg.at)) /\ TookNone
  BY <1>1, <1>4, <1>5, TookNoneTyped, BecomesTyped
<1>6. ASSUME NEW b \in Blocks, Becomes(free_inode_unread(Arg.at, b)),
             May("read"), scars' = scars \cup {"misread"}
      PROVE  Typed'
  <2> DEFINE w == bitmap_set_block(b, FALSE, Ignored)
  <2>1. w \in StepT
    BY WritesTyped, ErrsTyped
  <2>2. free_inode_unread(Arg.at, b) = <<w>> \o free_inode(Arg.at)
    BY DEF free_inode_unread
  <2> HIDE DEF w
  <2>3. free_inode_unread(Arg.at, b) \in Seq(StepT)
    BY <1>4, <2>1, <2>2, TwoSteps, MoreSteps
  <2>4. scars' \subseteq Scars /\ faults' \in 0 .. MAX_FAULTS
    BY <1>6, MayTyped DEF Typed, Scars
  <2> QED
    BY <1>1, <1>6, <2>3, <2>4, BecomesTyped
<1> QED
  BY <1>5, <1>6 DEF run_free_inode

LEMMA CutShortTyped == CutShort \subseteq Scars
BY DEF CutShort, Scars

LEMMA WriteFailsMay ==
  ASSUME write_fails
  PROVE  May("read") \/ May("write")
BY DEF write_fails

LEMMA WriteTyped ==
  ASSUME Typed, block_write \/ write_fails
  PROVE  Typed'
<1>1. todo # << >> /\ Arg.do \notin Functions
  BY DEF block_write, write_fails, Writing
<1>2. Arg \in StepT /\ Tail(todo) \in Seq(StepT) /\ FailList(todo) \in Seq(StepT)
  BY <1>1, HeadTyped DEF Arg, Typed
<1>3. Put(Arg) \in DiskT
  BY <1>1, <1>2, PutTyped, PutDisk DEF Typed
<1>4. disk' \in DiskT
  BY <1>3 DEF block_write, write_fails, Typed
<1>5. todo' \in Seq(StepT)
  BY <1>2 DEF block_write, write_fails, Returns, Fails, Goes, FailList, Arg
<1>6. faults' \in 0 .. MAX_FAULTS
  BY WriteFailsMay, MayTyped DEF block_write, TookNone, Typed
<1>7. scars' \subseteq Scars
  <2>1. CASE block_write
    BY <2>1 DEF block_write, TookNone, Typed
  <2>2. CASE write_fails
    <3>1. PICK stored \in BOOLEAN :
            scars' = scars \cup CutShort \cup (IF Arg.do = "inode" /\ ~stored THEN {"inode"} ELSE {})
      BY <2>2 DEF write_fails
    <3> QED
      BY <3>1, CutShortTyped DEF Typed, Scars
  <2> QED
    BY <2>1, <2>2
<1>8. fs_mounted' \in BOOLEAN
  BY DEF block_write, write_fails, Typed
<1> QED
  BY <1>4, <1>5, <1>6, <1>7, <1>8 DEF Typed

LEMMA DataTyped ==
  ASSUME Typed, data_unread
  PROVE  Typed'
<1>1. todo # << >> /\ Arg.do = "data"
  BY DEF data_unread, Writing
<1>2. Arg \in StepT /\ Tail(todo) \in Seq(StepT)
  BY <1>1, HeadTyped DEF Arg, Typed
<1>3. PICK j \in Inodes : disk' = Put([Arg EXCEPT !.val = j])
  BY DEF data_unread
<1> DEFINE w == Step("data", Arg.at, j, Arg.err)
<1>4. Arg.at \in Blocks /\ Arg.err \in Errs
  BY <1>1, <1>2, StepFields DEF AtOf, OnBlock
<1>5. w \in StepT
  BY <1>4, WritesTyped
<1>6. [Arg EXCEPT !.val = j] = w
  BY <1>1, <1>2, StepFields DEF Step
<1>7. disk' \in DiskT
  <2>1. w.do \notin Functions
    BY DEF Step, Functions
  <2> HIDE DEF w
  <2> QED
    BY <1>3, <1>5, <1>6, <2>1, PutTyped, PutDisk DEF Typed
<1>8. todo' \in Seq(StepT) /\ fs_mounted' \in BOOLEAN
  BY <1>2 DEF data_unread, Returns, Goes, Typed
<1>9. scars' \subseteq Scars /\ faults' \in 0 .. MAX_FAULTS
  BY MayTyped DEF data_unread, Typed, Scars
<1> QED
  BY <1>7, <1>8, <1>9 DEF Typed

LEMMA ReadFailsTyped ==
  ASSUME Typed, read_fails
  PROVE  Typed'
<1>1. todo # << >> /\ faults' \in 0 .. MAX_FAULTS
  BY MayTyped DEF read_fails
<1>2. CASE At("ensure_fs_mounted")
  <2>1. /\ Becomes(ipo_fs_format \o <<Step("ipo_fs_mount", 0, 0, Ignored)>>)
        /\ scars' = IF disk.super THEN scars \cup {"wiped"} ELSE scars
    BY <1>2 DEF read_fails
  <2>2. scars' \subseteq Scars
    BY <2>1 DEF Typed, Scars
  <2> QED
    BY <1>1, <2>1, <2>2, FormatTyped, BecomesTyped
<1>3. CASE ~At("ensure_fs_mounted")
  <2>1. Fails /\ UNCHANGED <<disk, fs_mounted>> /\ scars' = scars \cup CutShort
    BY <1>3 DEF read_fails
  <2>2. FailList(todo) \in Seq(StepT)
    BY <1>1, HeadTyped DEF Typed
  <2> QED
    BY <1>1, <2>1, <2>2, CutShortTyped DEF Typed, Fails, Goes, FailList, Arg
<1> QED
  BY <1>2, <1>3

LEMMA ResetTyped ==
  ASSUME Typed, reset
  PROVE  Typed'
<1>1. Boot \in Seq(StepT)
  BY CallsTyped, ErrsTyped, TwoSteps DEF Boot, OnDisk
<1>2. faults' \in 0 .. MAX_FAULTS
  BY MayTyped DEF reset
<1> QED
  BY <1>1, <1>2, CutShortTyped DEF reset, Typed

\* Where a call's paths lead is an inode.
LEMMA PathsTyped ==
  ASSUME Typed, NEW d \in Paths
  PROVE  d \in Inodes /\ d \in BelowIn(disk, ROOT)
<1>1. Below(ROOT) = BelowIn(disk, ROOT) /\ BelowIn(disk, ROOT) \subseteq Inodes
  BY BelowDisk, BelowLeast, NodesTyped DEF Typed
<1> QED
  BY <1>1 DEF Paths, Reached

LEMMA CreateTyped ==
  ASSUME Typed, NEW d \in Paths, NEW n \in Names, NEW t \in Types, ipo_fs_create(d, n, t)
  PROVE  Typed'
<1>1. d \in Inodes
  BY PathsTyped
<1>2. Inodes \in SUBSET Nat /\ disk.ibit \in SUBSET Inodes
  BY BitsTyped DEF Typed
<1>3. PICK i \in Scan(Inodes, disk.ibit) :
        /\ Begin("create", 0, CreateSteps(d, n, t, i))
        /\ Took(i, disk.ibit) \/ Overlooks
  BY DEF ipo_fs_create
<1>4. i \in Inodes
  BY <1>2, ScanTyped
<1>5. scars' \subseteq Scars /\ faults' \in 0 .. MAX_FAULTS
  BY <1>2, <1>3, TookTyped, OverlooksTyped
<1>6. Entry(i, t, n) \in EntryT /\ Entry(i, t, n).inode # 0
  BY <1>4, EntryTyped, CallersAssumption DEF Modes
<1> DEFINE a == write_inode(i, Inode(t, FALSE, 0, 0), Ignored)
           b == Step("dir_add_entry", d, Entry(i, t, n), Instead(<<Step("free_inode", i, 0, Ignored)>>))
<1>7. a \in StepT
  BY <1>4, WritesTyped, ErrsTyped, NodesTyped
<1>8. b \in StepT
  <2>1. Instead(<<Step("free_inode", i, 0, Ignored)>>) \in Errs
    BY <1>4, ErrsTyped
  <2> QED
    BY <2>1, <1>1, <1>6, CallsTyped
<1> HIDE DEF a, b
<1>9. allocate_inode(i, Fatal) \o <<a, b>> \in Seq(StepT)
  BY <1>4, <1>7, <1>8, TwoSteps, MoreSteps, AllocateInodeTyped, ErrsTyped
<1>10. todo' = allocate_inode(i, Fatal) \o <<a, b>> /\ UNCHANGED <<disk, fs_mounted>>
  BY <1>3 DEF Begin, CreateSteps, a, b
<1> QED
  BY <1>5, <1>9, <1>10 DEF Typed

\* The entry a delete or a rename works on.
LEMMA FoundTyped ==
  ASSUME Typed, NEW d \in Inodes, NEW n \in Names, Find(d, n) # {}
  PROVE  LET e == dir_find_entry(d, n)
             k == First(Find(d, n))
         IN  /\ e = SlotIn(disk, d, k) /\ e \in EntryT /\ e.inode \in Inodes /\ e.type \in Modes
             /\ k \in Slots /\ FoundAt(disk, d, n, k, e.inode)
<1> DEFINE k == First(Find(d, n))
           e == SlotIn(disk, d, k)
<1>1. dir_find_entry(d, n) = e
  BY DiskNames DEF dir_find_entry
<1>2. /\ k \in LiveIn(disk, d) /\ k \in Slots /\ e.name = n
      /\ \A l \in LiveIn(disk, d) : SlotIn(disk, d, l).name = n => k <= l
      /\ disk.node[d].block \in Blocks
  BY FindTyped DEF Typed
<1>3. disk.node[d].block # 0
  BY <1>2, DiskAssumption DEF Blocks
<1>4. e \in EntryT /\ e.inode \in Inodes
  BY <1>2, <1>3, SlotTyped DEF Typed
<1>5. e.type \in Modes
  <2> HIDE DEF e
  <2> QED
    BY <1>4 DEF EntryT
<1>6. FoundAt(disk, d, n, k, e.inode)
  BY <1>2 DEF FoundAt
<1> QED
  BY <1>1, <1>2, <1>4, <1>5, <1>6, Zenon

LEMMA DeleteTyped ==
  ASSUME Typed, NEW d \in Paths, NEW n \in Names, ipo_fs_delete(d, n)
  PROVE  Typed'
<1> DEFINE e == dir_find_entry(d, n)
<1>1. d \in Inodes /\ Find(d, n) # {}
  BY PathsTyped DEF ipo_fs_delete
<1>2. e.inode \in Inodes
  BY <1>1, FoundTyped
<1>3. /\ todo' = DeleteSteps(d, n, e) /\ UNCHANGED <<disk, fs_mounted>>
      /\ TookNone \/ Overlooks
  BY DEF ipo_fs_delete, Begin
<1> HIDE DEF e
<1>4. Step("dir_remove_entry", d, n, Fatal) \in StepT /\ Step("free_inode", e.inode, 0, Ignored) \in StepT
  BY <1>1, <1>2, CallsTyped, ErrsTyped
<1>5. DeleteSteps(d, n, e) \in Seq(StepT)
  BY <1>4, TwoSteps DEF DeleteSteps
<1> QED
  BY <1>3, <1>5, TookNoneTyped, OverlooksTyped DEF Typed

LEMMA RenameTyped ==
  ASSUME Typed, NEW d \in Paths, NEW n \in Names, NEW to \in Paths, NEW m \in Names,
         ipo_fs_rename(d, n, to, m)
  PROVE  Typed'
<1> DEFINE e == dir_find_entry(d, n)
<1>1. d \in Inodes /\ to \in Inodes /\ Find(d, n) # {}
  BY PathsTyped DEF ipo_fs_rename
<1>2. e.inode \in Inodes /\ e.type \in Modes
  BY <1>1, FoundTyped
<1>3. /\ todo' = RenameSteps(d, n, to, m, e) /\ UNCHANGED <<disk, fs_mounted>>
      /\ TookNone \/ Overlooks
  BY DEF ipo_fs_rename, Begin
<1> HIDE DEF e
<1>4. Entry(e.inode, e.type, m) \in EntryT /\ Entry(e.inode, e.type, m).inode # 0
  BY <1>2, EntryTyped
<1> DEFINE a == Step("dir_add_entry", to, Entry(e.inode, e.type, m), Fatal)
           b == Step("update_dots", e.inode, to, Fatal)
           c == Step("dir_remove_entry", d, n, Fatal)
<1>5. a \in StepT /\ b \in StepT /\ c \in StepT
  BY <1>1, <1>2, <1>4, CallsTyped, ErrsTyped
<1>6. RenameSteps(d, n, to, m, e) = <<a>> \o (IF e.type = "dir" THEN <<b>> ELSE << >>) \o <<c>>
  BY DEF RenameSteps
<1> HIDE DEF a, b, c
<1>7. (IF e.type = "dir" THEN <<b>> ELSE << >>) \in Seq(StepT)
  <2>1. <<b>> \in Seq(StepT) /\ << >> \in Seq(StepT)
    BY <1>5
  <2> QED
    BY <2>1
<1> DEFINE mid == IF e.type = "dir" THEN <<b>> ELSE << >>
<1> HIDE DEF mid
<1>8. <<a>> \o mid \o <<c>> \in Seq(StepT)
  BY <1>5, <1>7, TwoSteps, MoreSteps DEF mid
<1> QED
  BY <1>3, <1>6, <1>8, TookNoneTyped, OverlooksTyped DEF Typed, mid

LEMMA StoreTyped ==
  ASSUME Typed, NEW i \in Paths, ipo_fs_write(i)
  PROVE  Typed'
<1> DEFINE n == disk.node[i]
           new(b) == write_inode(i, [n EXCEPT !.size = 1, !.block = b], Ignored)
           store(b) == <<Step("data", b, i, Ignored), new(b)>>
           broken == <<write_inode(i, n, Ignored)>>
<1>1. i \in Inodes
  BY PathsTyped
<1>2. n \in NodeT /\ (n.block # 0 => n.block \in Blocks)
  BY <1>1, SlotTyped DEF Typed
<1>3. broken \in Seq(StepT) /\ Instead(broken) \in Errs
  BY <1>1, <1>2, WritesTyped, ErrsTyped, TwoSteps
<1>4. ASSUME NEW b \in Blocks PROVE store(b) \in Seq(StepT)
  <2>1. [n EXCEPT !.size = 1, !.block = b] \in NodeT
    BY <1>2, NodeUpdates
  <2> HIDE DEF n
  <2>2. new(b) \in StepT /\ Step("data", b, i, Ignored) \in StepT
    BY <1>1, <2>1, WritesTyped, ErrsTyped
  <2> HIDE DEF new
  <2> QED
    BY <2>2, TwoSteps
<1>5. CASE n.block # 0 /\ Begin("write", 0, store(n.block)) /\ TookNone
  <2>1. store(n.block) \in Seq(StepT)
    BY <1>2, <1>4, <1>5
  <2> HIDE DEF store, n
  <2> QED
    BY <1>5, <2>1, TookNoneTyped DEF Begin, Typed
<1>6. ASSUME NEW b \in Scan(Blocks, disk.bbit), Took(b, disk.bbit),
             Begin("write", 0, allocate_block(b, Instead(broken)) \o store(b))
      PROVE  Typed'
  <2>1. Blocks \in SUBSET Nat /\ disk.bbit \in SUBSET Blocks
    BY BitsTyped DEF Typed
  <2>2. b \in Blocks
    BY <2>1, ScanTyped
  <2>3. scars' \subseteq Scars /\ faults' \in 0 .. MAX_FAULTS
    BY <2>1, <1>6, TookTyped
  <2>4. allocate_block(b, Instead(broken)) \in Seq(StepT)
    <3> HIDE DEF broken
    <3> QED
      BY <2>2, <1>3, WritesTyped, TwoSteps DEF allocate_block
  <2>5. store(b) \in Seq(StepT)
    BY <2>2, <1>4
  <2> HIDE DEF broken, store
  <2>6. allocate_block(b, Instead(broken)) \o store(b) \in Seq(StepT)
    BY <2>4, <2>5, MoreSteps
  <2> QED
    BY <1>6, <2>3, <2>6 DEF Begin, Typed
<1>7. CASE Begin("write", 0, broken) /\ TookNone
  <2> HIDE DEF broken
  <2> QED
    BY <1>3, <1>7, TookNoneTyped DEF Begin, Typed
<1> QED
  BY <1>5, <1>6, <1>7 DEF ipo_fs_write


-----------------------------------------------------------------------------
(***************************************************************************)
(* Writes that change nothing for the inodes of G.                         *)
(***************************************************************************)
SameNames(D, E, G) ==
  \A i \in G : /\ E.node[i].mode = D.node[i].mode /\ E.node[i].prot = D.node[i].prot
               /\ LiveIn(E, i) = LiveIn(D, i)
               /\ \A k \in LiveIn(D, i) : SlotIn(E, i, k) = SlotIn(D, i, k)
Kept(D, E, G) == SameNames(D, E, G) /\ E.super = D.super /\ Apart(E, G)

\* G holds what is below its inodes.
LEMMA LinkingClosed ==
  ASSUME NEW D \in DiskT, NEW G, Linking(D, G)
  PROVE  /\ Closed(D, G) /\ ROOT \in G /\ G \in SUBSET Inodes
         /\ \A i \in G : BelowIn(D, i) \subseteq G
<1>1. Closed(D, G) /\ ROOT \in G /\ G \in SUBSET Inodes
  BY DEF Closed, Linked, Linking
<1> QED
  BY <1>1, BelowLeast

LEMMA SameBelow ==
  ASSUME NEW D \in DiskT, NEW E \in DiskT, NEW G, Linking(D, G), SameNames(D, E, G)
  PROVE  /\ \A C \in SUBSET G : Closed(D, C) => Closed(E, C)
         /\ \A i \in G : BelowIn(E, i) = BelowIn(D, i)
<1>1. \A i \in G : Linked(E, i) = Linked(D, i)
  BY DEF Linked, SameNames
<1>2. \A C \in SUBSET G : Closed(D, C) <=> Closed(E, C)
  BY <1>1 DEF Closed
<1>3. Closed(D, G) /\ G \in SUBSET Inodes /\ Closed(E, G)
  BY <1>2, LinkingClosed
<1>4. ASSUME NEW i \in G PROVE BelowIn(E, i) = BelowIn(D, i)
  <2>1. i \in Inodes
    BY <1>3
  <2>2. BelowIn(D, i) \subseteq G /\ BelowIn(E, i) \subseteq G
    BY <1>3, <2>1, BelowLeast
  <2>3. Closed(E, BelowIn(D, i)) /\ Closed(D, BelowIn(E, i))
    BY <1>2, <2>1, <2>2, BelowLeast
  <2>4. /\ BelowIn(D, i) \in SUBSET Inodes /\ i \in BelowIn(D, i)
        /\ BelowIn(E, i) \in SUBSET Inodes /\ i \in BelowIn(E, i)
    BY <2>1, BelowLeast
  <2>5. BelowIn(E, i) \subseteq BelowIn(D, i)
    BY <2>1, <2>3, <2>4, BelowLeast
  <2>6. BelowIn(D, i) \subseteq BelowIn(E, i)
    BY <2>1, <2>3, <2>4, BelowLeast
  <2> QED
    BY <2>5, <2>6
<1> QED
  BY <1>2, <1>4

LEMMA KeptGood ==
  ASSUME NEW D \in DiskT, NEW E \in DiskT, NEW G, Linking(D, G), Kept(D, E, G)
  PROVE  /\ Sound(E, G)
         /\ \A X : Unique(D, G, X) => Unique(E, G, X)
         /\ Protected(D) => Protected(E)
         /\ D.super => E.super
<1>1. SameNames(D, E, G) /\ Apart(E, G) /\ E.super = D.super
  BY DEF Kept
<1>2. Linking(E, G)
  <2>1. Distinct(E, G)
    BY <1>1 DEF Linking, Distinct, SameNames
  <2> QED
    BY <1>1, <2>1 DEF Linking, SameNames
<1>3. \A X : Unique(D, G, X) => Unique(E, G, X)
  BY <1>1 DEF Unique, SameNames
<1>4. ASSUME NEW n, Special(D, n) PROVE Special(E, n)
  <2>1. ROOT \in G /\ \A k \in LiveIn(D, ROOT) : SlotIn(D, ROOT, k).inode \in G
    BY DEF Linking
  <2> QED
    BY <1>1, <1>4, <2>1 DEF Special, SameNames
<1> QED
  BY <1>1, <1>2, <1>3, <1>4 DEF Sound, Protected

LEMMA KeptMoving ==
  ASSUME NEW D \in DiskT, NEW E \in DiskT, NEW G, Linking(D, G), Kept(D, E, G)
  PROVE  /\ \A d \in G, i \in G : \A n, k, to, t :
              Moving(D, G, d, n, k, to, i, t) => Moving(E, G, d, n, k, to, i, t)
         /\ \A d \in G, to \in G : \A k, i : Doubled(D, G, d, k, to, i) => Doubled(E, G, d, k, to, i)
         /\ \A d \in G : \A n, k, i : FoundAt(D, d, n, k, i) => FoundAt(E, d, n, k, i)
<1>1. SameNames(D, E, G)
  BY DEF Kept
<1>2. \A d \in G : \A n, k, i : FoundAt(D, d, n, k, i) => FoundAt(E, d, n, k, i)
  BY <1>1 DEF SameNames, FoundAt
<1>3. ROOT \in G /\ BelowIn(E, ROOT) = BelowIn(D, ROOT)
  BY <1>1, SameBelow, LinkingClosed
<1>4. \A C \in SUBSET G : Closed(D, C) => Closed(E, C)
  BY <1>1, SameBelow
<1>5. \A d \in G, to \in G : \A k, i : Doubled(D, G, d, k, to, i) => Doubled(E, G, d, k, to, i)
  BY <1>1, KeptGood DEF Doubled, SameNames
<1>6. ASSUME NEW d \in G, NEW n, NEW k, NEW to, NEW i \in G, NEW t, Moving(D, G, d, n, k, to, i, t)
      PROVE  Moving(E, G, d, n, k, to, i, t)
  <2>1. FoundAt(E, d, n, k, i)
    BY <1>2, <1>6 DEF Moving
  <2>2. ~E.node[i].prot /\ E.node[i].mode = t
    BY <1>1, <1>6 DEF Moving, SameNames
  <2>3. to \in BelowIn(E, ROOT)
    BY <1>3, <1>6 DEF Moving
  <2>4. \E C \in SUBSET G : Closed(E, C) /\ i \in C /\ to \notin C
    BY <1>4, <1>6 DEF Moving
  <2> QED
    BY <2>1, <2>2, <2>3, <2>4 DEF Moving
<1> QED
  BY <1>2, <1>5, <1>6

\* The inodes of G and their blocks are what they were.
Untouched(D, E, G) ==
  /\ E.super = D.super /\ G \subseteq E.ibit
  /\ \A i \in G : /\ E.node[i] = D.node[i]
                  /\ D.node[i].block # 0 => /\ E.block[D.node[i].block] = D.block[D.node[i].block]
                                            /\ D.node[i].block \in E.bbit

LEMMA SameLive ==
  ASSUME NEW D, NEW E, NEW i, E.node[i] = D.node[i], \A l : SlotIn(E, i, l) = SlotIn(D, i, l)
  PROVE  LiveIn(E, i) = LiveIn(D, i)
BY DEF LiveIn

LEMMA UntouchedKept ==
  ASSUME NEW D, NEW E, NEW G, Apart(D, G), Untouched(D, E, G)
  PROVE  Kept(D, E, G) /\ Owned(E, G) = Owned(D, G)
<1>1. ASSUME NEW i \in G
      PROVE  /\ LiveIn(E, i) = LiveIn(D, i)
             /\ \A k \in LiveIn(D, i) : SlotIn(E, i, k) = SlotIn(D, i, k)
  <2>1. E.node[i] = D.node[i]
    BY DEF Untouched
  <2>2. CASE D.node[i].mode # "dir" \/ D.node[i].block = 0
    BY <2>1, <2>2 DEF LiveIn
  <2>3. CASE D.node[i].mode = "dir" /\ D.node[i].block # 0
    <3>1. \A k : SlotIn(E, i, k) = SlotIn(D, i, k)
      BY <2>1, <2>3 DEF SlotIn, Untouched
    <3> QED
      BY <2>1, <3>1 DEF LiveIn
  <2> QED
    BY <2>2, <2>3
<1>2. SameNames(D, E, G)
  BY <1>1 DEF SameNames, Untouched
<1>3. Apart(E, G)
  BY DEF Untouched, Apart
<1>4. Owned(E, G) = Owned(D, G)
  BY DEF Owned, Untouched
<1> QED
  BY <1>2, <1>3, <1>4 DEF Kept, Untouched

LEMMA OwnedApart ==
  ASSUME NEW D \in DiskT, NEW G \in SUBSET Inodes, Apart(D, G)
  PROVE  \A b \in Owned(D, G) : b # 0 => b \in D.bbit /\ b \in Blocks
BY DiskFields DEF Owned, Apart

\* Bits that are set, and bits of others that are cleared.
LEMMA KeptInodeBit ==
  ASSUME NEW D \in DiskT, NEW G \in SUBSET Inodes, Apart(D, G),
         NEW i \in Inodes, NEW v \in BOOLEAN, NEW err, v \/ i \notin G
  PROVE  LET E == PutOn(D, bitmap_set_inode(i, v, err))
         IN  Kept(D, E, G) /\ Owned(E, G) = Owned(D, G)
<1> DEFINE E == PutOn(D, bitmap_set_inode(i, v, err))
<1>1. /\ E.super = D.super /\ E.bbit = D.bbit /\ E.node = D.node /\ E.block = D.block
      /\ v => E.ibit = D.ibit \cup {i}
      /\ ~v => E.ibit = D.ibit \ {i}
  BY PutInodeBit
<1> HIDE DEF E
<1>2. Untouched(D, E, G)
  BY <1>1 DEF Untouched, Apart
<1> QED
  BY <1>2, UntouchedKept DEF E

LEMMA KeptBlockBit ==
  ASSUME NEW D \in DiskT, NEW G \in SUBSET Inodes, Apart(D, G),
         NEW b \in Blocks, NEW v \in BOOLEAN, NEW err, v \/ b \notin Owned(D, G)
  PROVE  LET E == PutOn(D, bitmap_set_block(b, v, err))
         IN  Kept(D, E, G) /\ Owned(E, G) = Owned(D, G)
<1> DEFINE E == PutOn(D, bitmap_set_block(b, v, err))
<1>1. /\ E.super = D.super /\ E.ibit = D.ibit /\ E.node = D.node /\ E.block = D.block
      /\ v => E.bbit = D.bbit \cup {b}
      /\ ~v => E.bbit = D.bbit \ {b}
  BY PutBlockBit
<1> HIDE DEF E
<1>2. Untouched(D, E, G)
  BY <1>1 DEF Untouched, Apart, Owned
<1> QED
  BY <1>2, UntouchedKept DEF E

\* An inode of nobody.
LEMMA KeptInode ==
  ASSUME NEW D \in DiskT, NEW G \in SUBSET Inodes, Apart(D, G),
         NEW i \in Inodes \ G, NEW n \in NodeT, NEW err
  PROVE  LET E == PutOn(D, write_inode(i, n, err))
         IN  Kept(D, E, G) /\ Owned(E, G) = Owned(D, G)
<1> DEFINE E == PutOn(D, write_inode(i, n, err))
<1>1. /\ E.super = D.super /\ E.ibit = D.ibit /\ E.bbit = D.bbit /\ E.block = D.block
      /\ \A j \in Inodes \ {i} : E.node[j] = D.node[j]
  BY PutInode
<1> HIDE DEF E
<1>2. Untouched(D, E, G)
  BY <1>1 DEF Untouched, Apart
<1> QED
  BY <1>2, UntouchedKept DEF E

\* A block of nobody.
LEMMA KeptBlock ==
  ASSUME NEW D \in DiskT, NEW E, NEW G \in SUBSET Inodes, Apart(D, G),
         NEW b \in Blocks, NEW c, BlockPut(D, E, b, c), b \notin Owned(D, G)
  PROVE  Kept(D, E, G) /\ Owned(E, G) = Owned(D, G)
<1>1. \A i \in G : D.node[i].block # 0 => D.node[i].block \in Blocks \ {b}
  BY SlotTyped DEF Owned
<1>2. Untouched(D, E, G)
  BY <1>1 DEF Untouched, Apart, BlockPut
<1> QED
  BY <1>2, UntouchedKept

\* A slot of a directory of G that does not count, before or after.
LEMMA KeptSlot ==
  ASSUME NEW D \in DiskT, NEW E, NEW G \in SUBSET Inodes, Apart(D, G),
         NEW d \in G, D.node[d].block # 0, NEW k \in Slots, NEW e \in EntryT,
         BlockPut(D, E, D.node[d].block, SlotBlock(D, D.node[d].block, k, e)),
         k \notin LiveIn(D, d), k >= D.node[d].size \/ e.name \in Dots
  PROVE  Kept(D, E, G) /\ Owned(E, G) = Owned(D, G)
<1> DEFINE b == D.node[d].block
<1>1. b \in Blocks
  BY SlotTyped
<1>2. /\ E.super = D.super /\ E.ibit = D.ibit /\ E.bbit = D.bbit /\ E.node = D.node
      /\ \A a \in Blocks \ {b} : E.block[a] = D.block[a]
      /\ E.block[b] = SlotBlock(D, b, k, e)
  BY DEF BlockPut
<1>3. /\ E.block[b].slot[k] = e /\ E.block[b].data = D.block[b].data
      /\ \A l \in Slots \ {k} : E.block[b].slot[l] = D.block[b].slot[l]
  <2>1. /\ SlotBlock(D, b, k, e).slot[k] = e /\ SlotBlock(D, b, k, e).data = D.block[b].data
        /\ \A l \in Slots \ {k} : SlotBlock(D, b, k, e).slot[l] = D.block[b].slot[l]
    BY <1>1, SlotBlockValue
  <2> QED
    BY <1>2, <2>1
<1>4. \A i \in G \ {d} : D.node[i].block # 0 => D.node[i].block \in Blocks \ {b}
  BY SlotTyped DEF Apart
<1>5. ASSUME NEW i \in G \ {d}
      PROVE  LiveIn(E, i) = LiveIn(D, i) /\ \A l \in LiveIn(D, i) : SlotIn(E, i, l) = SlotIn(D, i, l)
  <2>1. CASE D.node[i].block = 0
    BY <1>2, <2>1 DEF LiveIn
  <2>2. CASE D.node[i].block # 0
    <3>1. \A l : SlotIn(E, i, l) = SlotIn(D, i, l)
      BY <1>2, <1>4, <2>2 DEF SlotIn
    <3>2. E.node[i] = D.node[i]
      BY <1>2
    <3> QED
      BY <3>1, <3>2, SameLive
  <2> QED
    BY <2>1, <2>2
<1>6. LiveIn(E, d) = LiveIn(D, d) /\ \A l \in LiveIn(D, d) : SlotIn(E, d, l) = SlotIn(D, d, l)
  <2>1. D.node[d].size \in 0 .. MAX_ENTRIES
    BY SlotTyped
  <2>2. \A l \in Slots \ {k} : SlotIn(E, d, l) = SlotIn(D, d, l)
    BY <1>2, <1>3 DEF SlotIn
  <2>3. SlotIn(E, d, k) = e
    BY <1>2, <1>3 DEF SlotIn
  <2>4. k \notin LiveIn(E, d)
    BY <2>1, <2>3, <1>2, DiskAssumption DEF LiveIn, Slots
  <2>5. \A l \in 0 .. (D.node[d].size - 1) : l \in Slots
    BY <2>1, DiskAssumption DEF Slots
  <2>6. \A l : l # k => (l \in LiveIn(E, d) <=> l \in LiveIn(D, d))
    BY <2>2, <2>5, <1>2 DEF LiveIn
  <2>7. LiveIn(D, d) \subseteq Slots
    BY SlotTyped
  <2> QED
    BY <2>2, <2>4, <2>6, <2>7
<1>7. SameNames(D, E, G)
  BY <1>2, <1>5, <1>6 DEF SameNames
<1>8. Apart(E, G)
  <2>1. \A i \in G : D.node[i].block # 0 => E.block[D.node[i].block].data = D.block[D.node[i].block].data
    BY <1>2, <1>3, <1>4
  <2> QED
    BY <1>2, <2>1 DEF Apart
<1>9. Owned(E, G) = Owned(D, G)
  BY <1>2 DEF Owned
<1> QED
  BY <1>2, <1>7, <1>8, <1>9 DEF Kept


\* The bytes of a file of G, in its own block.
LEMMA KeptData ==
  ASSUME NEW D \in DiskT, NEW E, NEW G \in SUBSET Inodes, Apart(D, G),
         NEW i \in G, D.node[i].mode # "dir", D.node[i].block # 0,
         BlockPut(D, E, D.node[i].block, DataBlock(i)), DataBlock(i).data = i
  PROVE  Kept(D, E, G) /\ Owned(E, G) = Owned(D, G)
<1> DEFINE b == D.node[i].block
<1>1. /\ E.super = D.super /\ E.ibit = D.ibit /\ E.bbit = D.bbit /\ E.node = D.node
      /\ \A a \in Blocks \ {b} : E.block[a] = D.block[a]
      /\ E.block[b].data = i
  BY DEF BlockPut
<1>2. \A j \in G \ {i} : D.node[j].block # 0 => D.node[j].block \in Blocks \ {b}
  BY SlotTyped DEF Apart
<1>3. ASSUME NEW j \in G
      PROVE  LiveIn(E, j) = LiveIn(D, j) /\ \A l \in LiveIn(D, j) : SlotIn(E, j, l) = SlotIn(D, j, l)
  <2>1. E.node[j] = D.node[j]
    BY <1>1
  <2>2. CASE D.node[j].mode # "dir" \/ D.node[j].block = 0
    BY <2>1, <2>2 DEF LiveIn
  <2>3. CASE D.node[j].mode = "dir" /\ D.node[j].block # 0
    <3>1. j # i
      BY <2>3
    <3>2. \A l : SlotIn(E, j, l) = SlotIn(D, j, l)
      BY <1>1, <1>2, <2>1, <2>3, <3>1 DEF SlotIn
    <3> QED
      BY <2>1, <3>2, SameLive
  <2> QED
    BY <2>2, <2>3
<1>4. SameNames(D, E, G)
  BY <1>1, <1>3 DEF SameNames
<1>5. Apart(E, G)
  <2>1. \A j \in G \ {i} : D.node[j].block # 0 => E.block[D.node[j].block] = D.block[D.node[j].block]
    BY <1>1, <1>2
  <2> QED
    BY <1>1, <2>1 DEF Apart
<1>6. Owned(E, G) = Owned(D, G)
  BY <1>1 DEF Owned
<1> QED
  BY <1>1, <1>4, <1>5, <1>6 DEF Kept

\* An inode of G that names nothing takes a block of nobody, or keeps its own.
LEMMA KeptOwn ==
  ASSUME NEW D \in DiskT, NEW E \in DiskT, NEW G \in SUBSET Inodes, Apart(D, G), NEW i \in G,
         E.super = D.super, E.ibit = D.ibit, E.bbit = D.bbit, E.block = D.block,
         \A j \in Inodes \ {i} : E.node[j] = D.node[j],
         E.node[i].mode = D.node[i].mode, E.node[i].prot = D.node[i].prot,
         LiveIn(D, i) = {}, LiveIn(E, i) = {},
         E.node[i].block # 0, E.node[i].block \in D.bbit, D.block[E.node[i].block].data \in {0, i},
         E.node[i].block = D.node[i].block \/ E.node[i].block \notin Owned(D, G)
  PROVE  Kept(D, E, G)
<1>1. ASSUME NEW j \in G \ {i}
      PROVE  LiveIn(E, j) = LiveIn(D, j) /\ \A l \in LiveIn(D, j) : SlotIn(E, j, l) = SlotIn(D, j, l)
  <2>1. E.node[j] = D.node[j]
    OBVIOUS
  <2>2. \A l : SlotIn(E, j, l) = SlotIn(D, j, l)
    BY <2>1 DEF SlotIn
  <2> QED
    BY <2>1, <2>2, SameLive
<1>2. SameNames(D, E, G)
  BY <1>1 DEF SameNames
<1>3. \A j \in G \ {i} : E.node[j].block # 0 => E.node[j].block # E.node[i].block
  BY DEF Apart, Owned
<1>4. Apart(E, G)
  BY <1>3 DEF Apart
<1> QED
  BY <1>2, <1>4 DEF Kept

-----------------------------------------------------------------------------
(***************************************************************************)
(* A name more.                                                            *)
(***************************************************************************)
Grown(D, E, G, d, s, e) ==
  /\ E.super = D.super
  /\ \A j \in G : E.node[j].mode = D.node[j].mode /\ E.node[j].prot = D.node[j].prot
  /\ \A j \in G \ {d} : LiveIn(E, j) = LiveIn(D, j)
  /\ LiveIn(E, d) = LiveIn(D, d) \cup {s} /\ s \notin LiveIn(D, d) /\ SlotIn(E, d, s) = e
  /\ \A k \in LiveIn(D, d) : k < s
  /\ \A j \in G : \A k \in LiveIn(D, j) : SlotIn(E, j, k) = SlotIn(D, j, k)

\* The inode write that makes entry e count in directory d.
\* Entry e is there for inode i, and only has to be counted.
Stored(D, G, d, p, e) ==
  /\ Takes(D, G, d, p) /\ p \in Blocks /\ e \in EntryT /\ e.inode # 0 /\ e.name \notin Dots
  /\ D.node[d].block = 0 => p \in D.bbit /\ Blank0(D, p, D.node[d].size)
  /\ D.block[p].slot[D.node[d].size] = e
LEMMA EntryCounts ==
  ASSUME NEW D \in DiskT, NEW G \in SUBSET Inodes, Apart(D, G), NEW d, NEW p, NEW e,
         Stored(D, G, d, p, e),
         NEW i \in Inodes, i \in G \/ (Newborn(D, G, i, e.type) /\ D.node[i].block # p)
  PROVE  LET E == PutOn(D, write_inode(d, Counted(D.node[d], p), Ignored))
         IN  Grown(D, E, G \cup {i}, d, D.node[d].size, e) /\ Apart(E, G \cup {i}) /\ E \in DiskT
<1> USE DEF Stored
<1>0. d \in G /\ d \in Inodes /\ p \in Blocks
  BY DEF Takes
<1> DEFINE n == D.node[d]
           s == n.size
           H == G \cup {i}
           E == PutOn(D, write_inode(d, Counted(n, p), Ignored))
<1>1. n \in NodeT /\ s \in 0 .. MAX_ENTRIES /\ s < MAX_ENTRIES /\ n.mode = "dir" /\ s \in Slots
  BY SlotTyped, DiskAssumption DEF Takes, Slots
<1>2. Counted(n, p) \in NodeT
  BY <1>1, NodeUpdates
<1>3. /\ E \in DiskT
      /\ E.super = D.super /\ E.ibit = D.ibit /\ E.bbit = D.bbit /\ E.block = D.block
      /\ E.node[d] = Counted(n, p) /\ \A j \in Inodes \ {d} : E.node[j] = D.node[j]
  BY <1>0, <1>2, PutInode
<1>4. /\ E.node[d].mode = "dir" /\ E.node[d].prot = n.prot /\ E.node[d].size = s + 1
      /\ E.node[d].block = p /\ p # 0
  <2>1. /\ Counted(n, p).mode = n.mode /\ Counted(n, p).prot = n.prot
        /\ Counted(n, p).size = s + 1 /\ Counted(n, p).block = p
    <3> HIDE DEF n
    <3> QED
      BY <1>1 DEF NodeT, Counted
  <2> QED
    BY <1>1, <1>3, <2>1, DiskAssumption DEF Blocks
<1> HIDE DEF E
<1>5. n.block = p \/ (n.block = 0 /\ p \notin Owned(D, G))
  BY DEF Takes
<1>6. ASSUME NEW j \in H \ {d}
      PROVE  /\ E.node[j] = D.node[j] /\ LiveIn(E, j) = LiveIn(D, j)
             /\ \A l \in LiveIn(D, j) : SlotIn(E, j, l) = SlotIn(D, j, l)
  <2>1. E.node[j] = D.node[j]
    BY <1>3
  <2>2. \A l : SlotIn(E, j, l) = SlotIn(D, j, l)
    BY <1>3, <2>1 DEF SlotIn
  <2> QED
    BY <2>1, <2>2, SameLive
<1>7. /\ \A l : SlotIn(E, d, l) = D.block[p].slot[l]
      /\ LiveIn(E, d) = {k \in 0 .. s : D.block[p].slot[k].inode # 0 /\ D.block[p].slot[k].name \notin Dots}
  <2>1. \A l : SlotIn(E, d, l) = D.block[p].slot[l]
    BY <1>3, <1>4 DEF SlotIn
  <2>2. s \in Int /\ (s + 1) - 1 = s
    BY <1>1
  <2> HIDE DEF s, n
  <2> QED
    BY <1>4, <2>1, <2>2 DEF LiveIn
<1>8. \A k \in 0 .. (s - 1) : k \in Slots /\ k # s /\ k \in 0 .. s
  BY <1>1, DiskAssumption DEF Slots
<1>9. /\ LiveIn(E, d) = LiveIn(D, d) \cup {s} /\ s \notin LiveIn(D, d) /\ SlotIn(E, d, s) = e
      /\ \A k \in LiveIn(D, d) : SlotIn(E, d, k) = SlotIn(D, d, k)
      /\ \A k \in LiveIn(D, d) : k < s
  <2>1. SlotIn(E, d, s) = e /\ D.block[p].slot[s] = e
    BY <1>7
  <2>2. s \in 0 .. s /\ \A k \in 0 .. s : k = s \/ k \in 0 .. (s - 1)
    BY <1>1
  <2>3. s \in LiveIn(E, d)
    BY <1>7, <2>1, <2>2
  <2>4. LiveIn(D, d) \subseteq 0 .. (s - 1)
    BY DEF LiveIn
  <2>5. s \notin LiveIn(D, d) /\ \A k \in LiveIn(D, d) : k < s
    BY <2>4, <1>1
  <2>6. CASE n.block = p
    <3>1. \A k : SlotIn(D, d, k) = D.block[p].slot[k]
      BY <2>6 DEF SlotIn
    <3>2. LiveIn(D, d) = {k \in 0 .. (s - 1) : D.block[p].slot[k].inode # 0
                                               /\ D.block[p].slot[k].name \notin Dots}
      BY <1>1, <1>4, <2>6, <3>1 DEF LiveIn
    <3>3. \A k \in LiveIn(E, d) : k = s \/ k \in LiveIn(D, d)
      BY <1>7, <2>2, <3>2
    <3>4. \A k \in LiveIn(D, d) : k \in LiveIn(E, d)
      BY <1>7, <1>8, <3>2
    <3> QED
      BY <2>1, <2>3, <2>5, <3>1, <3>3, <3>4, <1>7
  <2>7. CASE n.block = 0
    <3>1. LiveIn(D, d) = {}
      BY <2>7 DEF LiveIn
    <3>2. \A k \in Slots \ {s} : D.block[p].slot[k] = NoEntry
      BY <2>7 DEF Blank0
    <3>3. NoEntry.inode = 0
      BY DEF NoEntry, Entry
    <3>4. \A k \in LiveIn(E, d) : k = s
      <4>1. ASSUME NEW k \in LiveIn(E, d), k # s PROVE FALSE
        <5>1. k \in 0 .. s /\ D.block[p].slot[k].inode # 0
          BY <1>7
        <5>2. k \in Slots \ {s}
          BY <5>1, <4>1, <2>2, <1>8
        <5> QED
          BY <5>1, <5>2, <3>2, <3>3
      <4> QED
        BY <4>1
    <3> QED
      BY <2>1, <2>3, <2>5, <3>1, <3>4
  <2> QED
    BY <1>5, <2>6, <2>7
<1>10. Grown(D, E, H, d, s, e)
  <2>1. \A j \in H : E.node[j].mode = D.node[j].mode /\ E.node[j].prot = D.node[j].prot
    BY <1>6, <1>4, <1>1
  <2>2. \A j \in H \ {d} : LiveIn(E, j) = LiveIn(D, j)
    BY <1>6
  <2>3. \A j \in H : \A k \in LiveIn(D, j) : SlotIn(E, j, k) = SlotIn(D, j, k)
    BY <1>6, <1>9
  <2> HIDE DEF H, s, n
  <2> QED
    BY <1>3, <1>9, <2>1, <2>2, <2>3 DEF Grown
<1>11. Apart(E, H)
  <2>1. H \subseteq E.ibit
    BY <1>3 DEF Apart, Newborn
  <2>2. n.block = p \/ p \notin Owned(D, G)
    BY <1>5
  <2>3. \A j \in G \ {d} : D.node[j].block # 0 => D.node[j].block # p
    BY <1>0, <2>2 DEF Owned, Apart
  <2>4. i \notin G => Newborn(D, G, i, e.type) /\ D.node[i].block # p
    OBVIOUS
  <2>5. \A j \in H \ {d} : E.node[j].block # 0 => E.node[j].block # p
    BY <2>3, <2>4, <1>6
  <2>6. p \in D.bbit /\ D.block[p].data \in {0, d}
    <3>1. CASE n.block = 0
      BY <3>1 DEF Blank0
    <3>2. CASE n.block = p
      BY <1>0, <3>2, <1>4 DEF Apart
    <3> QED
      BY <1>5, <3>1, <3>2
  <2>7. ASSUME NEW j \in H, E.node[j].block # 0
        PROVE  E.node[j].block \in E.bbit /\ E.block[E.node[j].block].data \in {0, j}
    <3>1. CASE j = d
      BY <3>1, <2>6, <1>3, <1>4
    <3>2. CASE j # d /\ j \in G
      BY <3>2, <2>7, <1>3, <1>6 DEF Apart
    <3>3. CASE j # d /\ j \notin G
      BY <3>3, <2>7, <1>3, <1>6, <2>4 DEF Newborn
    <3> QED
      BY <3>1, <3>2, <3>3
  <2>8. ASSUME NEW j \in H, NEW h \in H, E.node[j].block # 0, E.node[j].block = E.node[h].block
        PROVE  j = h
    <3>1. CASE j = d \/ h = d
      BY <3>1, <2>5, <2>8, <1>4
    <3>2. CASE j # d /\ h # d
      <4>1. E.node[j] = D.node[j] /\ E.node[h] = D.node[h]
        BY <3>2, <1>6
      <4>2. CASE j \in G /\ h \in G
        BY <4>1, <4>2, <2>8 DEF Apart
      <4>3. CASE j \notin G \/ h \notin G
        BY <4>1, <4>3, <2>8, <2>4 DEF Newborn, Owned
      <4> QED
        BY <4>2, <4>3
    <3> QED
      BY <3>1, <3>2
  <2> HIDE DEF H
  <2> QED
    BY <2>1, <2>7, <2>8 DEF Apart
<1> QED
  BY <1>3, <1>10, <1>11 DEF E


\* A new inode has a name.
LEMMA GrownNew ==
  ASSUME NEW D \in DiskT, NEW E \in DiskT, NEW G, Linking(D, G), Unique(D, G, {}),
         NEW i \in Inodes \ G, NEW d \in G, NEW s, NEW e, Grown(D, E, G \cup {i}, d, s, e),
         e.inode = i, D.node[i].mode = e.type, LiveIn(D, i) = {}, Fresh(D, d, e)
  PROVE  Linking(E, G \cup {i}) /\ Unique(E, G \cup {i}, {})
<1> DEFINE H == G \cup {i}
<1>1. /\ \A j \in H : E.node[j].mode = D.node[j].mode
      /\ \A j \in H \ {d} : LiveIn(E, j) = LiveIn(D, j)
      /\ LiveIn(E, d) = LiveIn(D, d) \cup {s} /\ SlotIn(E, d, s) = e
      /\ \A j \in H : \A k \in LiveIn(D, j) : SlotIn(E, j, k) = SlotIn(D, j, k)
  BY DEF Grown
<1>2. /\ ROOT \in G /\ G \subseteq Inodes
      /\ \A j \in G : \A k \in LiveIn(D, j) :
           /\ SlotIn(D, j, k).inode \in G /\ SlotIn(D, j, k).inode # ROOT
           /\ D.node[SlotIn(D, j, k).inode].mode = SlotIn(D, j, k).type
  BY DEF Linking
<1>3. LiveIn(E, i) = {}
  BY <1>1
\* A name is an old one, or the new one.
<1>4. ASSUME NEW j \in H, NEW k \in LiveIn(E, j)
      PROVE  \/ j \in G /\ k \in LiveIn(D, j) /\ SlotIn(E, j, k) = SlotIn(D, j, k)
             \/ j = d /\ k = s /\ SlotIn(E, j, k) = e
  BY <1>1, <1>3
<1>5. Linking(E, H)
  <2>1. ASSUME NEW j \in H, NEW k \in LiveIn(E, j)
        PROVE  /\ SlotIn(E, j, k).inode \in H /\ SlotIn(E, j, k).inode # ROOT
               /\ E.node[SlotIn(E, j, k).inode].mode = SlotIn(E, j, k).type
    <3>1. CASE j \in G /\ k \in LiveIn(D, j) /\ SlotIn(E, j, k) = SlotIn(D, j, k)
      BY <3>1, <1>1, <1>2
    <3>2. CASE j = d /\ k = s /\ SlotIn(E, j, k) = e
      BY <3>2, <1>1, <1>2
    <3> QED
      BY <3>1, <3>2, <1>4, <2>1
  <2>2. Distinct(E, H)
    BY <1>1, <1>3, <1>4 DEF Linking, Distinct, Fresh
  <2> QED
    BY <2>1, <2>2, <1>2 DEF Linking
<1>6. Unique(E, H, {})
  <2> SUFFICES ASSUME NEW j \in H, NEW h \in H, NEW k \in LiveIn(E, j), NEW l \in LiveIn(E, h),
                      SlotIn(E, j, k).inode = SlotIn(E, h, l).inode
               PROVE  j = h /\ k = l
    BY DEF Unique
  <2>1. CASE j \in G /\ k \in LiveIn(D, j) /\ SlotIn(E, j, k) = SlotIn(D, j, k)
    <3>1. h \in G /\ l \in LiveIn(D, h) /\ SlotIn(E, h, l) = SlotIn(D, h, l)
      BY <1>4, <2>1, <1>2
    <3> QED
      BY <3>1, <2>1 DEF Unique
  <2>2. CASE j = d /\ k = s /\ SlotIn(E, j, k) = e
    <3>1. h = d /\ l = s
      BY <1>4, <2>2, <1>2
    <3> QED
      BY <3>1, <2>2
  <2> QED
    BY <1>4, <2>1, <2>2
<1> QED
  BY <1>5, <1>6

\* An inode of G has a second name.
LEMMA GrownOld ==
  ASSUME NEW D \in DiskT, NEW E \in DiskT, NEW G, Linking(D, G), Unique(D, G, {}),
         NEW d \in G, NEW s, NEW e, Grown(D, E, G, d, s, e),
         NEW c \in G, NEW n, NEW k, NEW i \in G, FoundAt(D, c, n, k, i),
         e.inode = i, D.node[i].mode = e.type, Fresh(D, d, e)
  PROVE  /\ Linking(E, G) /\ FoundAt(E, c, n, k, i) /\ Doubled(E, G, c, k, d, i)
<1>1. /\ \A j \in G : E.node[j].mode = D.node[j].mode
      /\ \A j \in G \ {d} : LiveIn(E, j) = LiveIn(D, j)
      /\ LiveIn(E, d) = LiveIn(D, d) \cup {s} /\ s \notin LiveIn(D, d) /\ SlotIn(E, d, s) = e
      /\ \A j \in G : \A l \in LiveIn(D, j) : SlotIn(E, j, l) = SlotIn(D, j, l)
      /\ \A l \in LiveIn(D, d) : l < s
  BY DEF Grown
<1>2. /\ ROOT \in G /\ G \subseteq Inodes
      /\ \A j \in G : \A l \in LiveIn(D, j) :
           /\ SlotIn(D, j, l).inode \in G /\ SlotIn(D, j, l).inode # ROOT
           /\ D.node[SlotIn(D, j, l).inode].mode = SlotIn(D, j, l).type
  BY DEF Linking
<1>3. ASSUME NEW j \in G, NEW l \in LiveIn(E, j)
      PROVE  \/ l \in LiveIn(D, j) /\ SlotIn(E, j, l) = SlotIn(D, j, l)
             \/ j = d /\ l = s /\ SlotIn(E, j, l) = e
  BY <1>1
<1>4. k \in LiveIn(D, c) /\ SlotIn(D, c, k).inode = i /\ SlotIn(D, c, k).name = n /\ i # ROOT
  BY <1>2 DEF FoundAt
<1>5. Linking(E, G)
  <2>1. ASSUME NEW j \in G, NEW l \in LiveIn(E, j)
        PROVE  /\ SlotIn(E, j, l).inode \in G /\ SlotIn(E, j, l).inode # ROOT
               /\ E.node[SlotIn(E, j, l).inode].mode = SlotIn(E, j, l).type
    <3>1. CASE l \in LiveIn(D, j) /\ SlotIn(E, j, l) = SlotIn(D, j, l)
      BY <3>1, <1>1, <1>2
    <3>2. CASE j = d /\ l = s /\ SlotIn(E, j, l) = e
      BY <3>2, <1>1, <1>4
    <3> QED
      BY <3>1, <3>2, <1>3, <2>1
  <2>2. Distinct(E, G)
    BY <1>1, <1>3 DEF Linking, Distinct, Fresh
  <2> QED
    BY <2>1, <2>2, <1>2 DEF Linking
<1>6. FoundAt(E, c, n, k, i)
  <2>1. k \in LiveIn(E, c) /\ SlotIn(E, c, k) = SlotIn(D, c, k)
    BY <1>1, <1>4
  <2>2. ASSUME NEW l \in LiveIn(E, c), SlotIn(E, c, l).name = n PROVE k <= l
    <3>1. CASE l \in LiveIn(D, c) /\ SlotIn(E, c, l) = SlotIn(D, c, l)
      BY <3>1, <2>2 DEF FoundAt
    <3>2. CASE c = d /\ l = s
      <4>1. k < s
        BY <3>2, <1>1, <1>4
      <4>2. k \in Int /\ s \in Int
        <5>1. LiveIn(D, c) \subseteq Slots /\ LiveIn(E, d) \subseteq Slots
          BY SlotTyped, <1>2
        <5> QED
          BY <5>1, <1>4, <1>1, DiskAssumption DEF Slots
      <4> QED
        BY <3>2, <4>1, <4>2
    <3> QED
      BY <3>1, <3>2, <1>3, <2>2
  <2> QED
    BY <2>1, <2>2, <1>4 DEF FoundAt
<1>7. <<d, s>> # <<c, k>>
  BY <1>1, <1>4
<1>8. Unique(E, G, {<<c, k>>})
  <2> SUFFICES ASSUME NEW j \in G, NEW h \in G, NEW l \in LiveIn(E, j), NEW m \in LiveIn(E, h),
                      <<j, l>> # <<c, k>>, <<h, m>> # <<c, k>>,
                      SlotIn(E, j, l).inode = SlotIn(E, h, m).inode
               PROVE  j = h /\ l = m
    BY DEF Unique
  <2>1. ASSUME NEW x \in G, NEW y \in LiveIn(D, x), SlotIn(D, x, y).inode = i PROVE <<x, y>> = <<c, k>>
    BY <2>1, <1>4 DEF Unique
  <2>2. CASE l \in LiveIn(D, j) /\ SlotIn(E, j, l) = SlotIn(D, j, l)
    <3>1. CASE m \in LiveIn(D, h) /\ SlotIn(E, h, m) = SlotIn(D, h, m)
      BY <2>2, <3>1 DEF Unique
    <3>2. CASE h = d /\ m = s /\ SlotIn(E, h, m) = e
      BY <2>1, <2>2, <3>2
    <3> QED
      BY <3>1, <3>2, <1>3
  <2>3. CASE j = d /\ l = s /\ SlotIn(E, j, l) = e
    <3>1. CASE m \in LiveIn(D, h) /\ SlotIn(E, h, m) = SlotIn(D, h, m)
      BY <2>1, <2>3, <3>1
    <3>2. CASE h = d /\ m = s
      BY <2>3, <3>2
    <3> QED
      BY <3>1, <3>2, <1>3
  <2> QED
    BY <1>3, <2>2, <2>3
<1>9. Doubled(E, G, c, k, d, i)
  <2>1. s \in LiveIn(E, d) /\ SlotIn(E, d, s).inode = i
    BY <1>1
  <2> QED
    BY <1>7, <1>8, <2>1 DEF Doubled
<1> QED
  BY <1>5, <1>6, <1>9

LEMMA GrownSpecial ==
  ASSUME NEW D \in DiskT, NEW E \in DiskT, NEW G, Linking(D, G), NEW H, G \subseteq H,
         NEW d \in G, NEW s, NEW e, Grown(D, E, H, d, s, e), NEW n, Special(D, n), e.name # n
  PROVE  Special(E, n)
<1>1. ROOT \in G /\ \A k \in LiveIn(D, ROOT) : SlotIn(D, ROOT, k).inode \in G
  BY DEF Linking
<1>2. /\ \A j \in G : E.node[j].prot = D.node[j].prot
      /\ \A k \in LiveIn(D, ROOT) : k \in LiveIn(E, ROOT) /\ SlotIn(E, ROOT, k) = SlotIn(D, ROOT, k)
      /\ \A k \in LiveIn(E, ROOT) : k \in LiveIn(D, ROOT) \/ SlotIn(E, ROOT, k) = e
  BY <1>1 DEF Grown
<1> QED
  BY <1>1, <1>2 DEF Special

\* What paths lead to is more, too.
LEMMA GrownBelow ==
  ASSUME NEW D \in DiskT, NEW E \in DiskT, NEW G, Linking(D, G), NEW H, G \subseteq H,
         NEW d \in G, NEW s, NEW e, Grown(D, E, H, d, s, e)
  PROVE  /\ BelowIn(D, ROOT) \subseteq BelowIn(E, ROOT)
         /\ \A C \in SUBSET G : Closed(D, C) /\ d \notin C => Closed(E, C)
<1>1. \A j \in G : Linked(D, j) \subseteq Linked(E, j)
  BY DEF Grown, Linked
<1>2. \A j \in G \ {d} : Linked(E, j) = Linked(D, j)
  BY DEF Grown, Linked
<1>3. ROOT \in Inodes /\ ROOT \in G /\ G \in SUBSET Inodes /\ Closed(D, G)
  BY LinkingClosed, NodesTyped
<1>4. /\ ROOT \in BelowIn(E, ROOT) /\ Closed(E, BelowIn(E, ROOT))
  BY <1>3, BelowLeast
<1> DEFINE C == BelowIn(E, ROOT) \cap G
<1>5. Closed(D, C) /\ ROOT \in C /\ C \in SUBSET Inodes
  BY <1>1, <1>3, <1>4 DEF Closed
<1> HIDE DEF C
<1>6. BelowIn(D, ROOT) \subseteq C
  BY <1>3, <1>5, BelowLeast
<1> QED
  BY <1>2, <1>6 DEF C, Closed

-----------------------------------------------------------------------------
(***************************************************************************)
(* A name less.                                                            *)
(***************************************************************************)
Shrunk(D, E, G, d, k) ==
  /\ E.super = D.super /\ E.node = D.node
  /\ \A j \in G \ {d} : LiveIn(E, j) = LiveIn(D, j)
  /\ LiveIn(E, d) = LiveIn(D, d) \ {k}
  /\ \A j \in G : \A l \in LiveIn(E, j) : SlotIn(E, j, l) = SlotIn(D, j, l)

LEMMA EntryCleared ==
  ASSUME NEW D \in DiskT, NEW G \in SUBSET Inodes, Apart(D, G), NEW d \in G, NEW k \in LiveIn(D, d), NEW err
  PROVE  LET E == PutOn(D, write_slot(D.node[d].block, k, NoEntry, err))
         IN  Shrunk(D, E, G, d, k) /\ Apart(E, G) /\ E \in DiskT
<1> DEFINE b == D.node[d].block
           E == PutOn(D, write_slot(b, k, NoEntry, err))
<1>1. b \in Blocks /\ k \in Slots /\ D.node[d].mode = "dir" /\ b # 0
  BY SlotTyped, DiskAssumption DEF Blocks
<1>2. BlockPut(D, E, b, SlotBlock(D, b, k, NoEntry))
  BY <1>1, NoEntryTyped, PutSlot
<1>3. /\ SlotBlock(D, b, k, NoEntry).slot[k] = NoEntry
      /\ SlotBlock(D, b, k, NoEntry).data = D.block[b].data
      /\ \A l \in Slots \ {k} : SlotBlock(D, b, k, NoEntry).slot[l] = D.block[b].slot[l]
  BY <1>1, NoEntryTyped, SlotBlockValue
<1> HIDE DEF E
<1>4. /\ E \in DiskT /\ E.super = D.super /\ E.ibit = D.ibit /\ E.bbit = D.bbit /\ E.node = D.node
      /\ \A a \in Blocks \ {b} : E.block[a] = D.block[a]
      /\ E.block[b].slot[k] = NoEntry /\ E.block[b].data = D.block[b].data
      /\ \A l \in Slots \ {k} : E.block[b].slot[l] = D.block[b].slot[l]
  BY <1>2, <1>3 DEF BlockPut
<1>5. \A i \in G \ {d} : D.node[i].block # 0 => D.node[i].block \in Blocks \ {b}
  BY SlotTyped DEF Apart
<1>6. ASSUME NEW i \in G \ {d}
      PROVE  LiveIn(E, i) = LiveIn(D, i) /\ \A l \in LiveIn(D, i) : SlotIn(E, i, l) = SlotIn(D, i, l)
  <2>1. E.node[i] = D.node[i]
    BY <1>4
  <2>2. CASE D.node[i].block = 0
    BY <2>1, <2>2 DEF LiveIn
  <2>3. CASE D.node[i].block # 0
    <3>1. \A l : SlotIn(E, i, l) = SlotIn(D, i, l)
      BY <1>4, <1>5, <2>3 DEF SlotIn
    <3> QED
      BY <2>1, <3>1, SameLive
  <2> QED
    BY <2>2, <2>3
<1>7. LiveIn(E, d) = LiveIn(D, d) \ {k} /\ \A l \in LiveIn(E, d) : SlotIn(E, d, l) = SlotIn(D, d, l)
  <2>1. E.node[d] = D.node[d]
    BY <1>4
  <2>2. \A l \in Slots \ {k} : SlotIn(E, d, l) = SlotIn(D, d, l)
    BY <1>4 DEF SlotIn
  <2>3. SlotIn(E, d, k).inode = 0
    BY <1>4 DEF SlotIn, NoEntry, Entry
  <2>4. LiveIn(E, d) \subseteq Slots /\ LiveIn(D, d) \subseteq Slots
    BY <1>4, SlotTyped
  <2>5. k \notin LiveIn(E, d)
    BY <2>3 DEF LiveIn
  <2>6. \A l \in Slots \ {k} : l \in LiveIn(E, d) <=> l \in LiveIn(D, d)
    BY <2>1, <2>2 DEF LiveIn
  <2> QED
    BY <2>2, <2>4, <2>5, <2>6
<1>8. Shrunk(D, E, G, d, k)
  BY <1>4, <1>6, <1>7 DEF Shrunk
<1>9. Apart(E, G)
  <2>1. \A i \in G : D.node[i].block # 0 => E.block[D.node[i].block].data = D.block[D.node[i].block].data
    BY <1>4, <1>5
  <2>2. G \subseteq D.ibit /\ \A i \in G : D.node[i].block # 0
                            => D.node[i].block \in D.bbit /\ D.block[D.node[i].block].data \in {0, i}
    BY DEF Apart
  <2>3. \A i, j \in G : D.node[i].block # 0 /\ D.node[i].block = D.node[j].block => i = j
    BY DEF Apart
  <2>4. E.ibit = D.ibit /\ E.bbit = D.bbit /\ E.node = D.node
    BY <1>4
  <2>5. \A i \in G : E.node[i].block # 0
                   => E.node[i].block \in E.bbit /\ E.block[E.node[i].block].data \in {0, i}
    BY <2>1, <2>2, <2>4
  <2>6. \A i, j \in G : E.node[i].block # 0 /\ E.node[i].block = E.node[j].block => i = j
    BY <2>3, <2>4
  <2> QED
    BY <2>2, <2>4, <2>5, <2>6 DEF Apart
<1> QED
  BY <1>4, <1>8, <1>9 DEF E


\* Names that are left were there before, and lead where they led.
LEMMA ShrunkLive ==
  ASSUME NEW D, NEW E, NEW G, NEW d \in G, NEW k, Shrunk(D, E, G, d, k), NEW j \in G, NEW l \in LiveIn(E, j)
  PROVE  l \in LiveIn(D, j) /\ SlotIn(E, j, l) = SlotIn(D, j, l) /\ <<j, l>> # <<d, k>>
BY DEF Shrunk

LEMMA ShrunkSpecial ==
  ASSUME NEW D \in DiskT, NEW E \in DiskT, NEW G, Linking(D, G), NEW d \in G, NEW k \in LiveIn(D, d),
         Shrunk(D, E, G, d, k), ~D.node[SlotIn(D, d, k).inode].prot, NEW n, Special(D, n)
  PROVE  Special(E, n)
<1>1. ROOT \in G /\ E.node = D.node
  BY DEF Linking, Shrunk
<1>2. \A l \in LiveIn(E, ROOT) : l \in LiveIn(D, ROOT) /\ SlotIn(E, ROOT, l) = SlotIn(D, ROOT, l)
  BY <1>1, ShrunkLive
<1>3. PICK a \in LiveIn(D, ROOT) : SlotIn(D, ROOT, a).name = n
  BY DEF Special
<1>4. D.node[SlotIn(D, ROOT, a).inode].prot
  BY <1>3 DEF Special
<1>5. a \in LiveIn(E, ROOT)
  <2>1. CASE d = ROOT
    <3>1. a # k
      BY <1>4, <2>1
    <3> QED
      BY <2>1, <3>1 DEF Shrunk
  <2>2. CASE d # ROOT
    BY <2>2, <1>1 DEF Shrunk
  <2> QED
    BY <2>1, <2>2
<1>6. SlotIn(E, ROOT, a).name = n
  BY <1>2, <1>3, <1>5
<1>7. \A l \in LiveIn(E, ROOT) : SlotIn(E, ROOT, l).name = n => E.node[SlotIn(E, ROOT, l).inode].prot
  BY <1>1, <1>2 DEF Special
<1> QED
  BY <1>5, <1>6, <1>7 DEF Special

\* A delete takes the inode's only name, and the inode out of G.
LEMMA ShrunkDelete ==
  ASSUME NEW D \in DiskT, NEW E \in DiskT, NEW G, Sound(D, G), Unique(D, G, {}), Protected(D),
         NEW d \in G, NEW k \in LiveIn(D, d), Shrunk(D, E, G, d, k), Apart(E, G),
         NEW v, v = SlotIn(D, d, k).inode, ~D.node[v].prot
  PROVE  /\ Good(E, G \ {v})
         /\ E.node[v].block # 0 => E.node[v].block \notin Owned(E, G \ {v})
         /\ v \in Inodes
<1> DEFINE H == G \ {v}
<1>1. /\ ROOT \in G /\ G \subseteq Inodes
      /\ \A j \in G : \A l \in LiveIn(D, j) :
           /\ SlotIn(D, j, l).inode \in G /\ SlotIn(D, j, l).inode # ROOT
           /\ D.node[SlotIn(D, j, l).inode].mode = SlotIn(D, j, l).type
  BY DEF Sound, Linking
<1>2. v \in G /\ v # ROOT /\ E.node = D.node
  BY <1>1 DEF Shrunk
<1>3. ASSUME NEW j \in H, NEW l \in LiveIn(E, j)
      PROVE  /\ l \in LiveIn(D, j) /\ SlotIn(E, j, l) = SlotIn(D, j, l)
             /\ SlotIn(D, j, l).inode # v
  <2>1. l \in LiveIn(D, j) /\ SlotIn(E, j, l) = SlotIn(D, j, l) /\ <<j, l>> # <<d, k>>
    BY <1>3, ShrunkLive
  <2>2. SlotIn(D, j, l).inode # v
    BY <2>1 DEF Unique
  <2> QED
    BY <2>1, <2>2
<1>4. Linking(E, H)
  <2>1. Distinct(E, H)
    BY <1>3 DEF Sound, Linking, Distinct
  <2> QED
    BY <1>1, <1>2, <1>3, <2>1 DEF Linking
<1>5. Unique(E, H, {})
  BY <1>3 DEF Unique
<1>6. Apart(E, H)
  BY DEF Apart
<1>7. Linking(D, G)
  BY DEF Sound
<1>8. Protected(E)
  BY <1>7, ShrunkSpecial DEF Protected
<1>9. E.node[v].block # 0 => E.node[v].block \notin Owned(E, H)
  BY <1>2 DEF Apart, Owned
<1> QED
  BY <1>1, <1>2, <1>4, <1>5, <1>6, <1>8, <1>9 DEF Good, Sound

\* Only what is below the deleted inode may be out of reach after it.
LEMMA ShrunkBelow ==
  ASSUME NEW D \in DiskT, NEW E \in DiskT, NEW G, Linking(D, G),
         NEW d \in G, NEW k \in LiveIn(D, d), Shrunk(D, E, G, d, k),
         NEW C \in SUBSET G, Closed(D, C), SlotIn(D, d, k).inode \in C
  PROVE  BelowIn(D, ROOT) \subseteq BelowIn(E, ROOT) \cup C
<1>1. ROOT \in Inodes /\ ROOT \in G /\ G \in SUBSET Inodes /\ Closed(D, G)
  BY LinkingClosed, NodesTyped
<1>2. ROOT \in BelowIn(E, ROOT) /\ Closed(E, BelowIn(E, ROOT))
  BY <1>1, BelowLeast
<1> DEFINE B == (BelowIn(E, ROOT) \cap G) \cup C
<1>3. \A j \in G : \A i \in Linked(D, j) : i \in Linked(E, j) \/ i \in C
  <2> SUFFICES ASSUME NEW j \in G, NEW l \in LiveIn(D, j), SlotIn(D, j, l).inode \notin C
               PROVE  SlotIn(D, j, l).inode \in Linked(E, j)
    BY DEF Linked
  <2>1. <<j, l>> # <<d, k>>
    OBVIOUS
  <2>2. l \in LiveIn(E, j) /\ SlotIn(E, j, l) = SlotIn(D, j, l)
    BY <2>1 DEF Shrunk
  <2> QED
    BY <2>2 DEF Linked
<1>4. Closed(D, B) /\ ROOT \in B /\ B \in SUBSET Inodes
  BY <1>1, <1>2, <1>3 DEF Closed
<1> HIDE DEF B
<1>5. BelowIn(D, ROOT) \subseteq B
  BY <1>1, <1>4, BelowLeast
<1> QED
  BY <1>5 DEF B

\* A rename takes the old name, and leaves the new one.
LEMMA ShrunkRename ==
  ASSUME NEW D \in DiskT, NEW E \in DiskT, NEW G, Sound(D, G), Protected(D),
         NEW d \in G, NEW k \in LiveIn(D, d), Shrunk(D, E, G, d, k), Apart(E, G),
         Unique(D, G, {<<d, k>>}), ~D.node[SlotIn(D, d, k).inode].prot
  PROVE  Good(E, G)
<1>1. Linking(D, G) /\ E.node = D.node
  BY DEF Sound, Shrunk
<1>2. ASSUME NEW j \in G, NEW l \in LiveIn(E, j)
      PROVE  l \in LiveIn(D, j) /\ SlotIn(E, j, l) = SlotIn(D, j, l) /\ <<j, l>> # <<d, k>>
  BY <1>2, ShrunkLive
<1>3. Linking(E, G)
  <2>1. Distinct(E, G)
    BY <1>1, <1>2 DEF Linking, Distinct
  <2> QED
    BY <1>1, <1>2, <2>1 DEF Linking
<1>4. Unique(E, G, {})
  BY <1>2 DEF Unique
<1>5. Protected(E)
  BY <1>1, ShrunkSpecial DEF Protected
<1> QED
  BY <1>3, <1>4, <1>5 DEF Good, Sound

LEMMA RenameBelow ==
  ASSUME NEW D \in DiskT, NEW E \in DiskT, NEW G, Linking(D, G),
         NEW d \in G, NEW n, NEW k, NEW to \in G, NEW i \in G, NEW t,
         Moving(D, G, d, n, k, to, i, t), Doubled(D, G, d, k, to, i), Shrunk(D, E, G, d, k)
  PROVE  BelowIn(D, ROOT) \subseteq BelowIn(E, ROOT)
<1>1. k \in LiveIn(D, d) /\ SlotIn(D, d, k).inode = i /\ to \in BelowIn(D, ROOT)
  BY DEF Moving, FoundAt
<1>2. PICK C \in SUBSET G : Closed(D, C) /\ i \in C /\ to \notin C
  BY DEF Moving
<1>3. to \in BelowIn(E, ROOT)
  BY <1>1, <1>2, ShrunkBelow
<1>4. PICK s \in LiveIn(D, to) : <<to, s>> # <<d, k>> /\ SlotIn(D, to, s).inode = i
  BY DEF Doubled
<1>5. s \in LiveIn(E, to) /\ SlotIn(E, to, s).inode = i
  BY <1>4 DEF Shrunk
<1>6. ROOT \in Inodes /\ ROOT \in G /\ G \in SUBSET Inodes /\ Closed(D, G)
  BY LinkingClosed, NodesTyped
<1>7. ROOT \in BelowIn(E, ROOT) /\ Closed(E, BelowIn(E, ROOT))
  BY <1>6, BelowLeast
<1>8. i \in BelowIn(E, ROOT)
  BY <1>3, <1>5, <1>7 DEF Closed, Linked
<1> DEFINE B == BelowIn(E, ROOT) \cap G
<1>9. ASSUME NEW j \in B, NEW l \in LiveIn(D, j) PROVE SlotIn(D, j, l).inode \in B
  <2>1. SlotIn(D, j, l).inode \in G
    BY <1>6, <1>9 DEF Linking
  <2>2. CASE <<j, l>> = <<d, k>>
    BY <2>1, <2>2, <1>1, <1>8
  <2>3. CASE <<j, l>> # <<d, k>>
    <3>1. l \in LiveIn(E, j) /\ SlotIn(E, j, l) = SlotIn(D, j, l)
      BY <1>9, <2>3 DEF Shrunk
    <3>2. SlotIn(E, j, l).inode \in BelowIn(E, ROOT)
      BY <1>7, <1>9, <3>1 DEF Closed, Linked
    <3> QED
      BY <2>1, <3>1, <3>2
  <2> QED
    BY <2>2, <2>3
<1>10. Closed(D, B) /\ ROOT \in B /\ B \in SUBSET Inodes
  <2>1. ROOT \in B /\ B \in SUBSET Inodes
    BY <1>6, <1>7
  <2> HIDE DEF B
  <2> QED
    BY <1>9, <2>1 DEF Closed, Linked
<1> HIDE DEF B
<1>11. BelowIn(D, ROOT) \subseteq B
  BY <1>6, <1>10, BelowLeast
<1> QED
  BY <1>11 DEF B

-----------------------------------------------------------------------------
(***************************************************************************)
(* The list of what is left to do.                                         *)
(***************************************************************************)
LEMMA ListOne ==
  ASSUME NEW a \in StepT, NEW rest \in Seq(StepT)
  PROVE  /\ <<a>> \o rest # << >> /\ Head(<<a>> \o rest) = a /\ Tail(<<a>> \o rest) = rest
         /\ <<a>> \o rest \in Seq(StepT) /\ Len(<<a>> \o rest) = Len(rest) + 1
<1>1. <<a>> \in Seq(StepT)
  OBVIOUS
<1>2. /\ Len(<<a>> \o rest) = Len(rest) + 1 /\ Len(rest) \in Nat /\ (<<a>> \o rest)[1] = a
      /\ <<a>> \o rest \in Seq(StepT)
  BY <1>1, ConcatProperties, LenProperties
<1>3. Tail(<<a>> \o rest) \in Seq(StepT) /\ Len(Tail(<<a>> \o rest)) = Len(rest)
  BY <1>2
<1>4. \A i \in 1 .. Len(rest) : Tail(<<a>> \o rest)[i] = rest[i]
  BY <1>1, <1>2, <1>3, ConcatProperties
<1>5. Tail(<<a>> \o rest) = rest
  BY <1>3, <1>4, SeqEqual
<1> QED
  BY <1>2, <1>5

\* A longer list is a step and the rest.
LEMMA ListTwo ==
  ASSUME NEW a \in StepT, NEW b \in StepT, NEW rest \in Seq(StepT)
  PROVE  <<a, b>> \o rest = <<a>> \o (<<b>> \o rest)
<1>1. <<a>> \in Seq(StepT) /\ <<b>> \in Seq(StepT)
  OBVIOUS
<1>2. <<a, b>> = <<a>> \o <<b>>
  <2>1. /\ <<a, b>> \in Seq(StepT) /\ Len(<<a, b>>) = 2 /\ <<a, b>>[1] = a /\ <<a, b>>[2] = b
        /\ Len(<<a>>) = 1 /\ Len(<<b>>) = 1 /\ <<a>>[1] = a /\ <<b>>[1] = b
    OBVIOUS
  <2>2. /\ <<a>> \o <<b>> \in Seq(StepT) /\ Len(<<a>> \o <<b>>) = 2
        /\ (<<a>> \o <<b>>)[1] = a /\ (<<a>> \o <<b>>)[2] = b
    BY <1>1, <2>1, ConcatProperties
  <2>3. \A i \in 1 .. 2 : i = 1 \/ i = 2
    OBVIOUS
  <2> QED
    BY <2>1, <2>2, <2>3, SeqEqual
<1> QED
  BY <1>1, <1>2, ConcatAssociative

LEMMA ListThree ==
  ASSUME NEW a \in StepT, NEW b \in StepT, NEW c \in StepT, NEW rest \in Seq(StepT)
  PROVE  <<a, b, c>> \o rest = <<a>> \o (<<b, c>> \o rest)
<1>1. <<a>> \in Seq(StepT) /\ <<b, c>> \in Seq(StepT)
  OBVIOUS
<1>2. <<a, b, c>> = <<a>> \o <<b, c>>
  OBVIOUS
<1> QED
  BY <1>1, <1>2, ConcatAssociative

LEMMA ListFour ==
  ASSUME NEW a \in StepT, NEW b \in StepT, NEW c \in StepT, NEW d \in StepT, NEW rest \in Seq(StepT)
  PROVE  <<a, b, c, d>> \o rest = <<a>> \o (<<b, c, d>> \o rest)
<1>1. <<a>> \in Seq(StepT) /\ <<b, c, d>> \in Seq(StepT)
  OBVIOUS
<1>2. <<a, b, c, d>> = <<a>> \o <<b, c, d>>
  OBVIOUS
<1> QED
  BY <1>1, <1>2, ConcatAssociative

LEMMA Lists ==
  ASSUME NEW a \in StepT, NEW b \in StepT, NEW c \in StepT, NEW d \in StepT, NEW rest \in Seq(StepT)
  PROVE  /\ Head(<<a, b>> \o rest) = a /\ Tail(<<a, b>> \o rest) = <<b>> \o rest
         /\ Head(<<a, b, c>> \o rest) = a /\ Tail(<<a, b, c>> \o rest) = <<b, c>> \o rest
         /\ Head(<<a, b, c, d>> \o rest) = a /\ Tail(<<a, b, c, d>> \o rest) = <<b, c, d>> \o rest
         /\ <<a, b>> \o rest # << >> /\ <<a, b, c>> \o rest # << >> /\ <<a, b, c, d>> \o rest # << >>
         /\ << >> \o rest = rest
<1>1. /\ <<b>> \o rest \in Seq(StepT) /\ <<b, c>> \o rest \in Seq(StepT)
      /\ <<b, c, d>> \o rest \in Seq(StepT)
  <2>1. <<b>> \in Seq(StepT) /\ <<b, c>> \in Seq(StepT) /\ <<b, c, d>> \in Seq(StepT)
    OBVIOUS
  <2> QED
    BY <2>1, ConcatProperties
<1>2. Head(<<a, b>> \o rest) = a /\ Tail(<<a, b>> \o rest) = <<b>> \o rest /\ <<a, b>> \o rest # << >>
  BY <1>1, ListOne, ListTwo
<1>3. /\ Head(<<a, b, c>> \o rest) = a /\ Tail(<<a, b, c>> \o rest) = <<b, c>> \o rest
      /\ <<a, b, c>> \o rest # << >>
  BY <1>1, ListOne, ListThree
<1>4. /\ Head(<<a, b, c, d>> \o rest) = a /\ Tail(<<a, b, c, d>> \o rest) = <<b, c, d>> \o rest
      /\ <<a, b, c, d>> \o rest # << >>
  BY <1>1, ListOne, ListFour
<1>5. << >> \o rest = rest
  OBVIOUS
<1> QED
  BY <1>2, <1>3, <1>4, <1>5

-----------------------------------------------------------------------------
(***************************************************************************)
(* The writes of dir_add_entry(), up to the last.                          *)
(***************************************************************************)
LEMMA AddingSlot ==
  ASSUME NEW D \in DiskT, NEW G \in SUBSET Inodes, Apart(D, G), NEW d, NEW e \in EntryT,
         NEW p \in Blocks, Takes(D, G, d, p), NEW err
  PROVE  LET E == PutOn(D, write_slot(p, D.node[d].size, e, err))
         IN  Kept(D, E, G) /\ BlockPut(D, E, p, SlotBlock(D, p, D.node[d].size, e)) /\ Owned(E, G) = Owned(D, G)
<1> DEFINE s == D.node[d].size
           E == PutOn(D, write_slot(p, s, e, err))
<1>1. d \in G /\ d \in Inodes /\ s < MAX_ENTRIES
  BY DEF Takes
<1>2. D.node[d] \in NodeT /\ s \in 0 .. MAX_ENTRIES
  BY <1>1, SlotTyped
<1>3. s \in Slots
  BY <1>1, <1>2, DiskAssumption DEF Slots
<1>4. BlockPut(D, E, p, SlotBlock(D, p, s, e))
  BY <1>3, PutSlot
<1>5. s \notin LiveIn(D, d)
  BY <1>2 DEF LiveIn
<1> HIDE DEF s, E
<1>6. ASSUME D.node[d].block = p PROVE Kept(D, E, G) /\ Owned(E, G) = Owned(D, G)
  <2>1. D.node[d].block # 0
    BY <1>6, DiskAssumption DEF Blocks
  <2>3. BlockPut(D, E, D.node[d].block, SlotBlock(D, D.node[d].block, s, e))
    BY <1>4, <1>6
  <2>2. s >= D.node[d].size
    BY <1>2 DEF s
  <2> QED
    BY <1>1, <1>3, <2>3, <1>5, <2>1, <2>2, KeptSlot
<1>7. ASSUME p \notin Owned(D, G) PROVE Kept(D, E, G) /\ Owned(E, G) = Owned(D, G)
  BY <1>4, <1>7, KeptBlock
<1>8. Kept(D, E, G) /\ Owned(E, G) = Owned(D, G)
  BY <1>6, <1>7 DEF Takes
<1> QED
  BY <1>4, <1>8 DEF E, s

\* A block is marked, and a block nobody has is cleared.
LEMMA BlockMarked ==
  ASSUME NEW D \in DiskT, NEW G \in SUBSET Inodes, Apart(D, G), NEW p \in Blocks, NEW err
  PROVE  LET E == PutOn(D, bitmap_set_block(p, TRUE, err))
         IN  /\ Kept(D, E, G) /\ E \in DiskT /\ Owned(E, G) = Owned(D, G)
             /\ E.node = D.node /\ E.ibit = D.ibit /\ E.block = D.block /\ E.bbit = D.bbit \cup {p}
<1>1. ASSUME NEW v \in BOOLEAN, v
      PROVE  LET E == PutOn(D, bitmap_set_block(p, v, err))
             IN  /\ Kept(D, E, G) /\ E \in DiskT /\ Owned(E, G) = Owned(D, G)
                 /\ E.node = D.node /\ E.ibit = D.ibit /\ E.block = D.block /\ E.bbit = D.bbit \cup {p}
  <2> DEFINE E == PutOn(D, bitmap_set_block(p, v, err))
  <2>1. Kept(D, E, G) /\ Owned(E, G) = Owned(D, G)
    BY <1>1, KeptBlockBit
  <2>2. /\ E \in DiskT /\ E.node = D.node /\ E.ibit = D.ibit /\ E.block = D.block
        /\ v => E.bbit = D.bbit \cup {p}
    BY PutBlockBit
  <2> HIDE DEF E
  <2>3. E.bbit = D.bbit \cup {p}
    BY <1>1, <2>2
  <2> QED
    BY <2>1, <2>2, <2>3 DEF E
<1>2. TRUE \in BOOLEAN
  OBVIOUS
<1> QED
  BY <1>1, <1>2, Zenon

LEMMA BlockCleared ==
  ASSUME NEW D \in DiskT, NEW G \in SUBSET Inodes, Apart(D, G), NEW p \in Blocks, NEW err, p \notin Owned(D, G)
  PROVE  LET E == PutOn(D, zero_block(p, err))
         IN  /\ Kept(D, E, G) /\ E \in DiskT /\ Owned(E, G) = Owned(D, G)
             /\ E.node = D.node /\ E.ibit = D.ibit /\ E.bbit = D.bbit
             /\ \A b \in Blocks \ {p} : E.block[b] = D.block[b]
             /\ E.block[p] = ZeroBlock
<1> DEFINE E == PutOn(D, zero_block(p, err))
<1>1. BlockPut(D, E, p, ZeroBlock)
  BY PutZero
<1> HIDE DEF E
<1>2. Kept(D, E, G) /\ Owned(E, G) = Owned(D, G)
  BY <1>1, KeptBlock
<1> QED
  BY <1>1, <1>2 DEF BlockPut, E

\* How a write of dir_add_entry() changes the disk: not at all for anybody,
\* or it is the write of the directory's inode.
AddGoes(D, E, G, d, e, p, err, rest, td) ==
  /\ td # << >> /\ Head(td).do \notin Functions /\ E \in DiskT
  /\ \/ /\ Head(td).do # "inode" /\ Head(td).err = err
        /\ Kept(D, E, G) /\ E.node = D.node /\ E.ibit = D.ibit /\ D.bbit \subseteq E.bbit
        /\ Owned(E, G) = Owned(D, G)
        /\ \A b \in Blocks \ {p} : E.block[b] = D.block[b]
        /\ Adding(E, G, d, e, p, err, rest, Tail(td))
     \/ /\ Head(td) = write_inode(d, Counted(D.node[d], p), Ignored) /\ Tail(td) = rest
        /\ Takes(D, G, d, p) /\ Fresh(D, d, e)
        /\ D.node[d].block = 0 => p \in D.bbit /\ Blank0(D, p, D.node[d].size)
        /\ D.block[p].slot[D.node[d].size] = e

LEMMA KeptFresh ==
  ASSUME NEW D, NEW E, NEW G, Kept(D, E, G), NEW d \in G, NEW e, Fresh(D, d, e)
  PROVE  Fresh(E, d, e)
BY DEF Kept, SameNames, Fresh

LEMMA AddingWrites ==
  ASSUME NEW D \in DiskT, NEW G \in SUBSET Inodes, Apart(D, G), NEW d, NEW e \in EntryT,
         NEW p \in Blocks, NEW err \in Errs, NEW rest \in Seq(StepT), NEW td,
         Adding(D, G, d, e, p, err, rest, td)
  PROVE  AddGoes(D, PutOn(D, Head(td)), G, d, e, p, err, rest, td)
<1> DEFINE n == D.node[d]
           s == n.size
           a1 == bitmap_set_block(p, TRUE, err)
           a2 == zero_block(p, err)
           a3 == write_slot(p, s, e, err)
           a4 == write_inode(d, Counted(n, p), Ignored)
           E == PutOn(D, Head(td))
<1>1. Takes(D, G, d, p) /\ Fresh(D, d, e) /\ d \in G /\ d \in Inodes /\ n \in NodeT /\ s < MAX_ENTRIES /\ s \in Nat
  BY DiskAssumption, SlotTyped DEF Adding, Takes
<1>2. s \in Slots
  BY <1>1, DiskAssumption DEF Slots
<1>3. Counted(n, p) \in NodeT
  BY <1>1, NodeUpdates
<1>4. a1 \in StepT /\ a2 \in StepT /\ a3 \in StepT /\ a4 \in StepT
  BY <1>1, <1>2, <1>3, ErrsTyped, WritesTyped
<1>5. /\ a1.do = "block bit" /\ a2.do = "zero" /\ a3.do = "slot" /\ a4.do = "inode"
      /\ a1.err = err /\ a2.err = err /\ a3.err = err
  BY DEF bitmap_set_block, zero_block, write_slot, write_inode, Step
<1>6. {"block bit", "zero", "slot", "inode"} \cap Functions = {}
  BY DEF Functions
<1>8. \/ n.block = 0 /\ td = <<a1, a2, a3, a4>> \o rest
      \/ n.block = 0 /\ p \in D.bbit /\ td = <<a2, a3, a4>> \o rest
      \/ (n.block = 0 => p \in D.bbit /\ Blank0(D, p, s)) /\ td = <<a3, a4>> \o rest
      \/ (n.block = 0 => p \in D.bbit /\ Blank0(D, p, s)) /\ D.block[p].slot[s] = e /\ td = <<a4>> \o rest
  BY DEF Adding
<1>9. ASSUME NEW F, F.node = D.node, Owned(F, G) = Owned(D, G)
      PROVE  Takes(F, G, d, p) /\ F.node[d] = n
  BY <1>1, <1>9 DEF Takes
<1>10. n.block = 0 => p \notin Owned(D, G)
  BY <1>1, DiskAssumption DEF Takes, Blocks
<1> HIDE DEF n, s
<1>11. CASE n.block = 0 /\ td = <<a1, a2, a3, a4>> \o rest
  <2>1. Head(td) = a1 /\ Tail(td) = <<a2, a3, a4>> \o rest /\ td # << >>
    BY <1>4, <1>11, Lists
  <2>2. /\ Kept(D, E, G) /\ E \in DiskT /\ Owned(E, G) = Owned(D, G)
        /\ E.node = D.node /\ E.ibit = D.ibit /\ E.block = D.block /\ E.bbit = D.bbit \cup {p}
    <3> DEFINE F == PutOn(D, a1)
    <3>1. /\ Kept(D, F, G) /\ F \in DiskT /\ Owned(F, G) = Owned(D, G)
          /\ F.node = D.node /\ F.ibit = D.ibit /\ F.block = D.block /\ F.bbit = D.bbit \cup {p}
      BY BlockMarked
    <3>2. E = F
      BY <2>1
    <3> HIDE DEF E, F
    <3> QED
      BY <3>1, <3>2
  <2> HIDE DEF E
  <2>3. Takes(E, G, d, p) /\ E.node[d] = n /\ Fresh(E, d, e)
    BY <1>1, <1>9, <2>2, KeptFresh
  <2>4. Adding(E, G, d, e, p, err, rest, Tail(td))
    BY <1>11, <2>1, <2>2, <2>3 DEF Adding, s
  <2> HIDE DEF a1
  <2> QED
    BY <1>5, <1>6, <2>1, <2>2, <2>4 DEF AddGoes, E
<1>12. CASE n.block = 0 /\ p \in D.bbit /\ td = <<a2, a3, a4>> \o rest
  <2>1. Head(td) = a2 /\ Tail(td) = <<a3, a4>> \o rest /\ td # << >>
    BY <1>4, <1>12, Lists
  <2>2. /\ Kept(D, E, G) /\ E \in DiskT /\ Owned(E, G) = Owned(D, G)
        /\ E.node = D.node /\ E.ibit = D.ibit /\ E.bbit = D.bbit
        /\ \A b \in Blocks \ {p} : E.block[b] = D.block[b]
        /\ E.block[p] = ZeroBlock
    <3> DEFINE F == PutOn(D, a2)
    <3>1. /\ Kept(D, F, G) /\ F \in DiskT /\ Owned(F, G) = Owned(D, G)
          /\ F.node = D.node /\ F.ibit = D.ibit /\ F.bbit = D.bbit
          /\ \A b \in Blocks \ {p} : F.block[b] = D.block[b]
          /\ F.block[p] = ZeroBlock
      BY <1>10, <1>12, BlockCleared
    <3>2. E = F
      BY <2>1
    <3> HIDE DEF E, F
    <3> QED
      BY <3>1, <3>2
  <2> HIDE DEF E
  <2>3. Takes(E, G, d, p) /\ E.node[d] = n /\ Fresh(E, d, e)
    BY <1>1, <1>9, <2>2, KeptFresh
  <2>4. Blank0(E, p, s)
    BY <2>2, ZeroBlockTyped DEF Blank0
  <2>5. Adding(E, G, d, e, p, err, rest, Tail(td))
    BY <1>12, <2>1, <2>2, <2>3, <2>4 DEF Adding, s
  <2> HIDE DEF a2
  <2> QED
    BY <1>5, <1>6, <2>1, <2>2, <2>5 DEF AddGoes, E
<1>13. CASE (n.block = 0 => p \in D.bbit /\ Blank0(D, p, s)) /\ td = <<a3, a4>> \o rest
  <2>1. Head(td) = a3 /\ Tail(td) = <<a4>> \o rest /\ td # << >>
    BY <1>4, <1>13, Lists
  <2>2. Kept(D, E, G) /\ BlockPut(D, E, p, SlotBlock(D, p, s, e)) /\ Owned(E, G) = Owned(D, G)
    <3> DEFINE F == PutOn(D, a3)
    <3>1. Kept(D, F, G) /\ BlockPut(D, F, p, SlotBlock(D, p, s, e)) /\ Owned(F, G) = Owned(D, G)
      BY <1>1, AddingSlot DEF n, s
    <3>2. E = F
      BY <2>1
    <3> HIDE DEF E, F
    <3> QED
      BY <3>1, <3>2
  <2>3. /\ SlotBlock(D, p, s, e).slot[s] = e /\ SlotBlock(D, p, s, e).data = D.block[p].data
        /\ \A l \in Slots \ {s} : SlotBlock(D, p, s, e).slot[l] = D.block[p].slot[l]
    BY <1>2, SlotBlockValue
  <2> HIDE DEF E
  <2>4. /\ E \in DiskT /\ E.node = D.node /\ E.ibit = D.ibit /\ E.bbit = D.bbit
        /\ \A b \in Blocks \ {p} : E.block[b] = D.block[b]
        /\ E.block[p].slot[s] = e /\ E.block[p].data = D.block[p].data
        /\ \A l \in Slots \ {s} : E.block[p].slot[l] = D.block[p].slot[l]
    BY <2>2, <2>3 DEF BlockPut
  <2>5. Takes(E, G, d, p) /\ E.node[d] = n /\ Fresh(E, d, e)
    BY <1>1, <1>9, <2>2, <2>4, KeptFresh
  <2>6. n.block = 0 => p \in E.bbit /\ Blank0(E, p, s)
    BY <1>13, <2>4 DEF Blank0
  <2>7. Adding(E, G, d, e, p, err, rest, Tail(td))
    BY <2>1, <2>4, <2>5, <2>6 DEF Adding, s
  <2> HIDE DEF a3
  <2> QED
    BY <1>5, <1>6, <2>1, <2>2, <2>4, <2>7 DEF AddGoes, E
<1>14. CASE /\ n.block = 0 => p \in D.bbit /\ Blank0(D, p, s)
            /\ D.block[p].slot[s] = e /\ td = <<a4>> \o rest
  <2>1. Head(td) = a4 /\ Tail(td) = rest /\ td # << >>
    BY <1>4, <1>14, ListOne
  <2>2. E \in DiskT
    BY <1>1, <1>3, <2>1, PutInode
  <2> HIDE DEF E
  <2> QED
    BY <1>1, <1>5, <1>6, <1>14, <2>1, <2>2 DEF AddGoes, E, n, s
<1> QED
  BY <1>8, <1>11, <1>12, <1>13, <1>14

-----------------------------------------------------------------------------
(***************************************************************************)
(* Where a call is after a write that succeeds or fails.                   *)
(***************************************************************************)
LEMMA Tuples ==
  ASSUME NEW a, NEW b, NEW c, NEW d
  PROVE  /\ Head(<<a>>) = a /\ Tail(<<a>>) = << >> /\ <<a>> # << >>
         /\ Head(<<a, b>>) = a /\ Tail(<<a, b>>) = <<b>> /\ <<a, b>> # << >>
         /\ Head(<<a, b, c>>) = a /\ Tail(<<a, b, c>>) = <<b, c>> /\ <<a, b, c>> # << >>
         /\ Head(<<a, b, c, d>>) = a /\ Tail(<<a, b, c, d>>) = <<b, c, d>> /\ <<a, b, c, d>> # << >>
OBVIOUS

LEMMA FailLists ==
  ASSUME NEW td
  PROVE  /\ Head(td).err = Ignored => FailList(td) = Tail(td)
         /\ Head(td).err = Fatal => FailList(td) = << >>
         /\ \A s : Head(td).err = Instead(s) => FailList(td) = s
BY DEF FailList, Ignored, Fatal, Instead

CallOf(c, td) == IF td = << >> THEN Idle ELSE c
Going(D, c, td) == \E G \in SUBSET Inodes : Works(D, G, CallOf(c, td), td)
\* A write that succeeds, or fails and is stored, or fails and is not.
Onward(D, E, c, td) ==
  /\ E \in DiskT
  /\ Going(E, c, Tail(td)) /\ Going(E, c, FailList(td))
  /\ Head(td).do # "inode" => Going(D, c, FailList(td))
Loses(D, E, c) ==
  BelowIn(D, ROOT) \ BelowIn(E, ROOT) \subseteq (IF c.op = "delete" THEN BelowIn(D, c.victim) ELSE {})

LEMMA GoingOn ==
  ASSUME NEW D, NEW G \in SUBSET Inodes, NEW c, NEW td, D.super, Good(D, G)
  PROVE  /\ td = << >> => Going(D, c, td)
         /\ c.op = "create" /\ Creating(D, G, td) => Going(D, c, td)
         /\ c.op = "delete" /\ Deleting(D, G, c.victim, td) => Going(D, c, td)
         /\ c.op = "write" /\ Storing(D, G, td) => Going(D, c, td)
<1>1. Sound(D, G) /\ Unique(D, G, {}) /\ Protected(D)
  BY DEF Good
<1>2. CASE td = << >>
  <2>1. CallOf(c, td).op = "none"
    BY <1>2 DEF CallOf, Idle
  <2>2. Works(D, G, CallOf(c, td), td)
    BY <1>1, <1>2, <2>1 DEF Works
  <2> QED
    BY <1>2, <2>2 DEF Going
<1>3. CASE td # << >>
  <2>1. CallOf(c, td) = c
    BY <1>3 DEF CallOf
  <2>2. /\ c.op = "create" /\ Creating(D, G, td) => Works(D, G, c, td)
        /\ c.op = "delete" /\ Deleting(D, G, c.victim, td) => Works(D, G, c, td)
        /\ c.op = "write" /\ Storing(D, G, td) => Works(D, G, c, td)
    BY <1>1 DEF Works
  <2> QED
    BY <1>3, <2>1, <2>2 DEF Going
<1> QED
  BY <1>2, <1>3

LEMMA KeptOn ==
  ASSUME NEW D \in DiskT, NEW E \in DiskT, NEW G, D.super, Good(D, G), Kept(D, E, G), NEW c
  PROVE  E.super /\ Good(E, G) /\ Loses(D, E, c)
<1>1. Linking(D, G)
  BY DEF Good, Sound
<1>2. E.super /\ Good(E, G)
  BY <1>1, KeptGood DEF Good
<1>3. BelowIn(E, ROOT) = BelowIn(D, ROOT)
  BY <1>1, SameBelow DEF Kept, Linking
<1> QED
  BY <1>2, <1>3 DEF Loses

\* A write that changes nothing anybody sees.
Fits(D, G, c, td) ==
  \/ td = << >>
  \/ c.op = "create" /\ Creating(D, G, td)
  \/ c.op = "delete" /\ Deleting(D, G, c.victim, td)
  \/ c.op = "write" /\ Storing(D, G, td)
LEMMA KeptOnward ==
  ASSUME NEW D \in DiskT, NEW E \in DiskT, NEW G \in SUBSET Inodes, D.super, Good(D, G), Kept(D, E, G),
         NEW c, NEW td, Fits(E, G, c, Tail(td)), Fits(E, G, c, FailList(td)),
         Head(td).do # "inode" => Fits(D, G, c, FailList(td))
  PROVE  Onward(D, E, c, td) /\ Loses(D, E, c)
<1>1. E.super /\ Good(E, G) /\ Loses(D, E, c)
  BY KeptOn
<1>2. Going(E, c, Tail(td))
  BY <1>1, GoingOn DEF Fits
<1>3. Going(E, c, FailList(td))
  BY <1>1, GoingOn DEF Fits
<1>4. Head(td).do # "inode" => Going(D, c, FailList(td))
  BY <1>1, GoingOn DEF Fits
<1> QED
  BY <1>1, <1>2, <1>3, <1>4 DEF Onward

-----------------------------------------------------------------------------
(***************************************************************************)
(* An inode of no name is given back.                                      *)
(***************************************************************************)
LEMMA InodeBitOff ==
  ASSUME NEW D \in DiskT, NEW G \in SUBSET Inodes, Apart(D, G), NEW i \in Inodes \ G, NEW err
  PROVE  LET E == PutOn(D, bitmap_set_inode(i, FALSE, err))
         IN  Kept(D, E, G) /\ Owned(E, G) = Owned(D, G) /\ E \in DiskT
<1>1. ASSUME NEW v \in BOOLEAN, ~v
      PROVE  LET E == PutOn(D, bitmap_set_inode(i, v, err))
             IN  Kept(D, E, G) /\ Owned(E, G) = Owned(D, G) /\ E \in DiskT
  BY <1>1, KeptInodeBit, PutInodeBit
<1>2. FALSE \in BOOLEAN
  OBVIOUS
<1> QED
  BY <1>1, <1>2, Zenon

LEMMA BlockBitOff ==
  ASSUME NEW D \in DiskT, NEW G \in SUBSET Inodes, Apart(D, G), NEW b \in Blocks, b \notin Owned(D, G), NEW err
  PROVE  LET E == PutOn(D, bitmap_set_block(b, FALSE, err))
         IN  Kept(D, E, G) /\ Owned(E, G) = Owned(D, G) /\ E \in DiskT
<1>1. ASSUME NEW v \in BOOLEAN, ~v
      PROVE  LET E == PutOn(D, bitmap_set_block(b, v, err))
             IN  Kept(D, E, G) /\ Owned(E, G) = Owned(D, G) /\ E \in DiskT
  BY <1>1, KeptBlockBit, PutBlockBit
<1>2. FALSE \in BOOLEAN
  OBVIOUS
<1> QED
  BY <1>1, <1>2, Zenon

LEMMA InodeBitOn ==
  ASSUME NEW D \in DiskT, NEW G \in SUBSET Inodes, Apart(D, G), NEW i \in Inodes, NEW err
  PROVE  LET E == PutOn(D, bitmap_set_inode(i, TRUE, err))
         IN  /\ Kept(D, E, G) /\ Owned(E, G) = Owned(D, G) /\ E \in DiskT
             /\ E.ibit = D.ibit \cup {i} /\ E.node = D.node /\ E.block = D.block /\ E.bbit = D.bbit
<1>1. ASSUME NEW v \in BOOLEAN, v
      PROVE  LET E == PutOn(D, bitmap_set_inode(i, v, err))
             IN  /\ Kept(D, E, G) /\ Owned(E, G) = Owned(D, G) /\ E \in DiskT
                 /\ E.ibit = D.ibit \cup {i} /\ E.node = D.node /\ E.block = D.block /\ E.bbit = D.bbit
  <2> DEFINE E == PutOn(D, bitmap_set_inode(i, v, err))
  <2>1. Kept(D, E, G) /\ Owned(E, G) = Owned(D, G)
    BY <1>1, KeptInodeBit
  <2>2. /\ E \in DiskT /\ E.node = D.node /\ E.bbit = D.bbit /\ E.block = D.block
        /\ v => E.ibit = D.ibit \cup {i}
    BY PutInodeBit
  <2> HIDE DEF E
  <2>3. E.ibit = D.ibit \cup {i}
    BY <1>1, <2>2
  <2> QED
    BY <2>1, <2>2, <2>3 DEF E
<1>2. TRUE \in BOOLEAN
  OBVIOUS
<1> QED
  BY <1>1, <1>2, Zenon

LEMMA CleaningKeeps ==
  ASSUME NEW D \in DiskT, NEW G \in SUBSET Inodes, Apart(D, G), NEW td, Cleaning(D, G, td),
         Head(td).do \notin Functions
  PROVE  LET E == PutOn(D, Head(td))
         IN  /\ E \in DiskT /\ Kept(D, E, G)
             /\ FailList(td) = Tail(td)
             /\ Tail(td) = << >> \/ (Cleaning(E, G, Tail(td)) /\ Cleaning(D, G, Tail(td)))
<1> DEFINE E == PutOn(D, Head(td))
<1>1. PICK i \in Inodes \ G :
        \/ td = <<Step("free_inode", i, 0, Ignored)>>
        \/ \E n \in NodeT :
             \/ \E b \in Blocks \ Owned(D, G) :
                  td = <<bitmap_set_block(b, FALSE, Ignored), bitmap_set_inode(i, FALSE, Ignored),
                         write_inode(i, n, Ignored)>>
             \/ td = <<bitmap_set_inode(i, FALSE, Ignored), write_inode(i, n, Ignored)>>
             \/ td = <<write_inode(i, n, Ignored)>>
  BY DEF Cleaning
<1>2. ~(td = <<Step("free_inode", i, 0, Ignored)>>)
  <2>1. Step("free_inode", i, 0, Ignored).do \in Functions
    BY DEF Step, Functions
  <2> QED
    BY <2>1, Tuples
<1>3. PICK n \in NodeT :
        \/ \E b \in Blocks \ Owned(D, G) :
             td = <<bitmap_set_block(b, FALSE, Ignored), bitmap_set_inode(i, FALSE, Ignored),
                    write_inode(i, n, Ignored)>>
        \/ td = <<bitmap_set_inode(i, FALSE, Ignored), write_inode(i, n, Ignored)>>
        \/ td = <<write_inode(i, n, Ignored)>>
  BY <1>1, <1>2
<1> DEFINE x == bitmap_set_inode(i, FALSE, Ignored)
           y == write_inode(i, n, Ignored)
<1>4. ASSUME NEW F PROVE Cleaning(F, G, <<x, y>>) /\ Cleaning(F, G, <<y>>)
  BY DEF Cleaning
<1>5. x.err = Ignored /\ y.err = Ignored
  BY DEF bitmap_set_inode, write_inode, Step
<1>6. ASSUME NEW b \in Blocks \ Owned(D, G), td = <<bitmap_set_block(b, FALSE, Ignored), x, y>>
      PROVE  /\ E \in DiskT /\ Kept(D, E, G) /\ Head(td).err = Ignored
             /\ Cleaning(E, G, Tail(td)) /\ Cleaning(D, G, Tail(td))
  <2> DEFINE z == bitmap_set_block(b, FALSE, Ignored)
             F == PutOn(D, z)
  <2>0. z.err = Ignored
    BY DEF bitmap_set_block, Step
  <2>4. td = <<z, x, y>>
    BY <1>6
  <2> HIDE DEF x, y, z
  <2>1. Head(td) = z /\ Tail(td) = <<x, y>>
    BY <2>4, Tuples
  <2>2. Kept(D, F, G) /\ F \in DiskT
    BY BlockBitOff DEF z
  <2>3. E = F
    BY <2>1
  <2> HIDE DEF F, E
  <2> QED
    BY <1>4, <2>0, <2>1, <2>2, <2>3
<1>7. ASSUME td = <<x, y>>
      PROVE  /\ E \in DiskT /\ Kept(D, E, G) /\ Head(td).err = Ignored
             /\ Cleaning(E, G, Tail(td)) /\ Cleaning(D, G, Tail(td))
  <2> DEFINE F == PutOn(D, x)
  <2>1. Head(td) = x /\ Tail(td) = <<y>>
    BY <1>7, Tuples
  <2>2. Kept(D, F, G) /\ F \in DiskT
    BY InodeBitOff
  <2>3. E = F
    BY <2>1
  <2> HIDE DEF x, y, F, E
  <2> QED
    BY <1>4, <1>5, <2>1, <2>2, <2>3
<1>8. ASSUME td = <<y>>
      PROVE  E \in DiskT /\ Kept(D, E, G) /\ Head(td).err = Ignored /\ Tail(td) = << >>
  <2> DEFINE F == PutOn(D, y)
  <2>1. Head(td) = y /\ Tail(td) = << >>
    BY <1>8, Tuples
  <2>2. Kept(D, F, G) /\ F \in DiskT
    BY KeptInode, PutInode
  <2>3. E = F
    BY <2>1
  <2> HIDE DEF y, F, E
  <2> QED
    BY <1>5, <2>1, <2>2, <2>3
<1> HIDE DEF E, x, y
<1>9. /\ E \in DiskT /\ Kept(D, E, G) /\ Head(td).err = Ignored
      /\ Tail(td) = << >> \/ (Cleaning(E, G, Tail(td)) /\ Cleaning(D, G, Tail(td)))
  BY <1>3, <1>6, <1>7, <1>8 DEF x, y
<1> QED
  BY <1>9, FailLists DEF E

LEMMA CleaningOnward ==
  ASSUME NEW D \in DiskT, NEW G \in SUBSET Inodes, D.super, Good(D, G), NEW td, Cleaning(D, G, td),
         Head(td).do \notin Functions, NEW c, c.op \in {"create", "delete"}
  PROVE  Onward(D, PutOn(D, Head(td)), c, td) /\ Loses(D, PutOn(D, Head(td)), c)
<1> DEFINE E == PutOn(D, Head(td))
<1>1. Apart(D, G)
  BY DEF Good, Sound
<1>2. /\ E \in DiskT /\ Kept(D, E, G) /\ FailList(td) = Tail(td)
      /\ Tail(td) = << >> \/ (Cleaning(E, G, Tail(td)) /\ Cleaning(D, G, Tail(td)))
  BY <1>1, CleaningKeeps
<1> HIDE DEF E
<1>3. Fits(E, G, c, Tail(td)) /\ Fits(D, G, c, FailList(td)) /\ Fits(E, G, c, FailList(td))
  BY <1>2 DEF Creating, Deleting, Fits
<1>4. Onward(D, E, c, td) /\ Loses(D, E, c)
  BY <1>2, <1>3, KeptOnward
<1> QED
  BY <1>4 DEF E

-----------------------------------------------------------------------------
(***************************************************************************)
(* ipo_fs_create(), write by write.                                        *)
(***************************************************************************)
\* A new entry n of directory d for inode i, and what it does to the others.
LEMMA EntryOfNew ==
  ASSUME NEW D \in DiskT, NEW G \in SUBSET Inodes, D.super, Good(D, G), NEW d, NEW p \in Blocks,
         Takes(D, G, d, p), NEW i \in Inodes \ G, NEW t \in Modes, NEW n \in Names,
         D.node[d].block = 0 => p \in D.bbit /\ Blank0(D, p, D.node[d].size),
         D.block[p].slot[D.node[d].size] = Entry(i, t, n),
         Newborn(D, G, i, t), D.node[i].block # p, Fresh(D, d, Entry(i, t, n)), NEW c
  PROVE  LET E == PutOn(D, write_inode(d, Counted(D.node[d], p), Ignored))
         IN  /\ E \in DiskT /\ E.super /\ Good(E, G \cup {i}) /\ Loses(D, E, c)
             /\ G \cup {i} \in SUBSET Inodes
<1> DEFINE E == PutOn(D, write_inode(d, Counted(D.node[d], p), Ignored))
           e == Entry(i, t, n)
           s == D.node[d].size
<1>1. e \in EntryT /\ e.inode = i /\ e.type = t /\ e.name = n /\ e.inode # 0 /\ e.name \notin Dots
  BY EntryTyped
<1>2. Linking(D, G) /\ Apart(D, G) /\ Unique(D, G, {}) /\ Protected(D) /\ d \in G
  BY DEF Good, Sound, Takes
<1>3. D.block[p].slot[s] = e /\ Fresh(D, d, e)
  OBVIOUS
<1> HIDE DEF e
<1>4. Newborn(D, G, i, e.type) /\ D.node[i].block # p
  BY <1>1
<1>5. Grown(D, E, G \cup {i}, d, s, e) /\ Apart(E, G \cup {i}) /\ E \in DiskT
  <2>1. Stored(D, G, d, p, e)
    BY <1>1, <1>2, <1>3 DEF Stored
  <2> QED
    BY <1>1, <1>2, <1>4, <2>1, EntryCounts
<1> HIDE DEF E, s
<1>6. D.node[i].mode = e.type /\ LiveIn(D, i) = {}
  BY <1>1 DEF Newborn
<1>7. Linking(E, G \cup {i}) /\ Unique(E, G \cup {i}, {})
  BY <1>1, <1>2, <1>3, <1>5, <1>6, GrownNew
<1>8. e.name # "app" /\ e.name # "autorun"
  BY <1>1, CallersAssumption
<1>9. Special(E, "app") /\ Special(E, "autorun")
  BY <1>2, <1>5, <1>8, GrownSpecial DEF Protected
<1>10. BelowIn(D, ROOT) \subseteq BelowIn(E, ROOT)
  BY <1>2, <1>5, GrownBelow
<1>11. E.super
  BY <1>5 DEF Grown
<1>12. Good(E, G \cup {i}) /\ Loses(D, E, c)
  BY <1>5, <1>7, <1>9, <1>10 DEF Good, Sound, Protected, Loses
<1> QED
  BY <1>5, <1>11, <1>12 DEF E, s

LEMMA InodeSet ==
  ASSUME NEW D \in DiskT, NEW G \in SUBSET Inodes, Apart(D, G), NEW i \in Inodes \ G, NEW n \in NodeT, NEW err
  PROVE  LET E == PutOn(D, write_inode(i, n, err))
         IN  /\ Kept(D, E, G) /\ Owned(E, G) = Owned(D, G) /\ E \in DiskT
             /\ E.ibit = D.ibit /\ E.bbit = D.bbit /\ E.block = D.block /\ E.node[i] = n
             /\ \A j \in Inodes \ {i} : E.node[j] = D.node[j]
BY KeptInode, PutInode

LEMMA NewNode ==
  ASSUME NEW t \in Types
  PROVE  /\ NewInode(t) \in NodeT /\ NewInode(t).block = 0 /\ NewInode(t).mode = t /\ NewInode(t).size = 0
         /\ t \in Modes
BY CallersAssumption, DiskAssumption DEF NewInode, Inode, NodeT, Modes

LEMMA NewbornOf ==
  ASSUME NEW D, NEW G, NEW i \in Inodes \ G, i \in D.ibit, NEW t, D.node[i].mode = t, D.node[i].block = 0
  PROVE  Newborn(D, G, i, t)
BY DEF Newborn, LiveIn

LEMMA CreatingAdds ==
  ASSUME NEW D \in DiskT, NEW G \in SUBSET Inodes, D.super, Good(D, G), NEW td,
         NEW i \in Inodes \ G, NEW d \in G, NEW n \in Names, NEW t \in Types,
         i \in D.ibit, D.node[i] = NewInode(t), NEW p \in Blocks,
         Adding(D, G, d, Entry(i, t, n), p, Undo(i), << >>, td),
         NEW c, c.op = "create"
  PROVE  Onward(D, PutOn(D, Head(td)), c, td) /\ Loses(D, PutOn(D, Head(td)), c)
<1> DEFINE E == PutOn(D, Head(td))
           e == Entry(i, t, n)
<1>1. Apart(D, G) /\ Linking(D, G)
  BY DEF Good, Sound
<1>2. t \in Modes /\ D.node[i].block = 0 /\ D.node[i].mode = t
  BY NewNode
<1>3. e \in EntryT
  BY <1>2, EntryTyped
<1>4. Undo(i) \in Errs /\ << >> \in Seq(StepT)
  BY ErrsTyped DEF Undo
<1>5. AddGoes(D, E, G, d, e, p, Undo(i), << >>, td)
  BY <1>1, <1>3, <1>4, AddingWrites
<1>6. E \in DiskT
  BY <1>5 DEF AddGoes
<1>7. ASSUME NEW F, F.node[i] = NewInode(t)
      PROVE  Creating(F, G, <<Step("free_inode", i, 0, Ignored)>>)
  <2>1. F.node[i].block = 0
    BY <1>7, NewNode
  <2>2. Cleaning(F, G, <<Step("free_inode", i, 0, Ignored)>>)
    BY <2>1 DEF Cleaning
  <2> QED
    BY <2>2 DEF Creating
<1> HIDE DEF E
<1>8. CASE /\ Head(td).do # "inode" /\ Head(td).err = Undo(i)
           /\ Kept(D, E, G) /\ E.node = D.node /\ E.ibit = D.ibit
           /\ Adding(E, G, d, e, p, Undo(i), << >>, Tail(td))
  <2>1. FailList(td) = <<Step("free_inode", i, 0, Ignored)>>
    BY <1>8, FailLists DEF Undo
  <2>2. Creating(E, G, FailList(td)) /\ Creating(D, G, FailList(td))
    BY <1>7, <1>8, <2>1
  <2>3. Creating(E, G, Tail(td))
    BY <1>8 DEF Creating
  <2>4. Fits(E, G, c, Tail(td)) /\ Fits(D, G, c, FailList(td)) /\ Fits(E, G, c, FailList(td))
    BY <2>2, <2>3 DEF Fits
  <2>5. Onward(D, E, c, td) /\ Loses(D, E, c)
    BY <1>6, <1>8, <2>4, KeptOnward
  <2> QED
    BY <2>5 DEF E
<1>9. CASE /\ Head(td) = write_inode(d, Counted(D.node[d], p), Ignored) /\ Tail(td) = << >>
           /\ Takes(D, G, d, p) /\ Fresh(D, d, e)
           /\ D.node[d].block = 0 => p \in D.bbit /\ Blank0(D, p, D.node[d].size)
           /\ D.block[p].slot[D.node[d].size] = e
  <2> DEFINE F == PutOn(D, write_inode(d, Counted(D.node[d], p), Ignored))
  <2>1. Newborn(D, G, i, t) /\ D.node[i].block # p
    BY <1>2, NewbornOf, DiskAssumption DEF Blocks
  <2>2. F \in DiskT /\ F.super /\ Good(F, G \cup {i}) /\ Loses(D, F, c) /\ G \cup {i} \in SUBSET Inodes
    BY <1>2, <1>9, <2>1, EntryOfNew
  <2>3. E = F
    BY <1>9 DEF E
  <2>4. Head(td).do = "inode" /\ Head(td).err = Ignored
    BY <1>9 DEF write_inode, Step
  <2> HIDE DEF F
  <2>5. FailList(td) = << >>
    BY <1>9, <2>4, FailLists
  <2>6. Going(E, c, << >>)
    BY <2>2, <2>3, GoingOn
  <2>7. Onward(D, E, c, td) /\ Loses(D, E, c)
    BY <1>6, <1>9, <2>2, <2>3, <2>4, <2>5, <2>6 DEF Onward
  <2> QED
    BY <2>7 DEF E
<1> QED
  BY <1>5, <1>8, <1>9 DEF AddGoes

LEMMA CreatingOnward ==
  ASSUME NEW D \in DiskT, NEW G \in SUBSET Inodes, D.super, Good(D, G), NEW td, Creating(D, G, td),
         Head(td).do \notin Functions, NEW c, c.op = "create"
  PROVE  Onward(D, PutOn(D, Head(td)), c, td) /\ Loses(D, PutOn(D, Head(td)), c)
<1>1. CASE Cleaning(D, G, td)
  BY <1>1, CleaningOnward
<1>2. CASE ~Cleaning(D, G, td)
  <2>1. PICK i \in Inodes \ G, d \in G, n \in Names, t \in Types :
          LET add == Step("dir_add_entry", d, Entry(i, t, n), Undo(i))
              new == write_inode(i, NewInode(t), Ignored)
          IN  \/ td = <<bitmap_set_inode(i, TRUE, Fatal), write_inode(i, ZeroInode, Ignored), new, add>>
              \/ i \in D.ibit /\ td = <<write_inode(i, ZeroInode, Ignored), new, add>>
              \/ i \in D.ibit /\ td = <<new, add>>
              \/ i \in D.ibit /\ D.node[i] = NewInode(t) /\ td = <<add>>
              \/ /\ i \in D.ibit /\ D.node[i] = NewInode(t)
                 /\ \E p \in Blocks : Adding(D, G, d, Entry(i, t, n), p, Undo(i), << >>, td)
    BY <1>2 DEF Creating
  <2> DEFINE a1 == bitmap_set_inode(i, TRUE, Fatal)
             a2 == write_inode(i, ZeroInode, Ignored)
             a3 == write_inode(i, NewInode(t), Ignored)
             a4 == Step("dir_add_entry", d, Entry(i, t, n), Undo(i))
             E == PutOn(D, Head(td))
             Fine == Onward(D, E, c, td) /\ Loses(D, E, c)
  <2>2. Apart(D, G) /\ NewInode(t) \in NodeT /\ ZeroInode \in NodeT
    BY NewNode, NodesTyped DEF Good, Sound
  <2>3. a1.err = Fatal /\ a2.err = Ignored /\ a3.err = Ignored /\ a4.do \in Functions
    BY DEF bitmap_set_inode, write_inode, Step, Functions
  <2>4. ASSUME NEW F, i \in F.ibit
        PROVE  /\ Fits(F, G, c, <<a2, a3, a4>>) /\ Fits(F, G, c, <<a3, a4>>) /\ Fits(F, G, c, << >>)
               /\ F.node[i] = NewInode(t) => Fits(F, G, c, <<a4>>)
    BY <2>4 DEF Fits, Creating
  <2>5. Fits(D, G, c, << >>) /\ \A F : Fits(F, G, c, << >>)
    BY DEF Fits
  <2>6. ASSUME td = <<a1, a2, a3, a4>> PROVE Fine
    <3> DEFINE F == PutOn(D, a1)
    <3>1. Kept(D, F, G) /\ F \in DiskT /\ F.ibit = D.ibit \cup {i}
      BY <2>2, InodeBitOn
    <3> HIDE DEF a1, a2, a3, a4
    <3>2. Head(td) = a1 /\ Tail(td) = <<a2, a3, a4>>
      BY <2>6, Tuples
    <3>3. E = F
      BY <3>2
    <3>4. FailList(td) = << >>
      BY <2>3, <3>2, FailLists
    <3> HIDE DEF E, F
    <3>5. Fits(E, G, c, Tail(td)) /\ Fits(E, G, c, FailList(td)) /\ Fits(D, G, c, FailList(td))
      BY <2>4, <2>5, <3>1, <3>2, <3>3, <3>4
    <3> QED
      BY <3>1, <3>3, <3>5, KeptOnward
  <2>7. ASSUME i \in D.ibit, td = <<a2, a3, a4>> PROVE Fine
    <3> DEFINE F == PutOn(D, a2)
    <3>1. Kept(D, F, G) /\ F \in DiskT /\ F.ibit = D.ibit
      BY <2>2, InodeSet
    <3> HIDE DEF a1, a2, a3, a4
    <3>2. Head(td) = a2 /\ Tail(td) = <<a3, a4>>
      BY <2>7, Tuples
    <3>3. E = F
      BY <3>2
    <3>4. FailList(td) = Tail(td)
      BY <2>3, <3>2, FailLists
    <3> HIDE DEF E, F
    <3>5. Fits(E, G, c, Tail(td)) /\ Fits(E, G, c, FailList(td)) /\ Fits(D, G, c, FailList(td))
      BY <2>4, <2>7, <3>1, <3>2, <3>3, <3>4
    <3> QED
      BY <3>1, <3>3, <3>5, KeptOnward
  <2>8. ASSUME i \in D.ibit, td = <<a3, a4>> PROVE Fine
    <3> DEFINE F == PutOn(D, a3)
    <3>1. Kept(D, F, G) /\ F \in DiskT /\ F.ibit = D.ibit /\ F.node[i] = NewInode(t)
      BY <2>2, InodeSet
    <3>6. a3.do = "inode"
      BY DEF write_inode, Step
    <3> HIDE DEF a1, a2, a3, a4
    <3>2. Head(td) = a3 /\ Tail(td) = <<a4>>
      BY <2>8, Tuples
    <3>3. E = F
      BY <3>2
    <3>4. FailList(td) = Tail(td)
      BY <2>3, <3>2, FailLists
    <3> HIDE DEF E, F
    <3>5. Fits(E, G, c, Tail(td)) /\ Fits(E, G, c, FailList(td))
      BY <2>4, <2>8, <3>1, <3>2, <3>3, <3>4
    <3> QED
      BY <3>1, <3>2, <3>3, <3>5, <3>6, KeptOnward
  <2>9. td # <<a4>>
    <3> HIDE DEF a4
    <3> QED
      BY <2>3, Tuples
  <2>10. ASSUME i \in D.ibit, D.node[i] = NewInode(t),
                NEW p \in Blocks, Adding(D, G, d, Entry(i, t, n), p, Undo(i), << >>, td)
         PROVE  Fine
    BY <2>10, CreatingAdds
  <2> HIDE DEF Fine
  <2>11. Fine
    BY <2>1, <2>6, <2>7, <2>8, <2>9, <2>10
  <2> QED
    BY <2>11 DEF Fine
<1> QED
  BY <1>1, <1>2

-----------------------------------------------------------------------------
(***************************************************************************)
(* ipo_fs_delete() and ipo_fs_write(), write by write.                     *)
(***************************************************************************)
LEMMA DeletingOnward ==
  ASSUME NEW D \in DiskT, NEW G \in SUBSET Inodes, D.super, Good(D, G), NEW c, c.op = "delete",
         NEW td, Deleting(D, G, c.victim, td), Head(td).do \notin Functions
  PROVE  Onward(D, PutOn(D, Head(td)), c, td) /\ Loses(D, PutOn(D, Head(td)), c)
<1>1. CASE Cleaning(D, G, td)
  BY <1>1, CleaningOnward
<1>2. CASE ~Cleaning(D, G, td)
  <2> DEFINE v == c.victim
             free == Step("free_inode", v, 0, Ignored)
  <2>1. PICK d \in G, n \in Names, k \in Slots :
          /\ FoundAt(D, d, n, k, v)
          /\ ~D.node[v].prot
          /\ \/ td = <<Step("dir_remove_entry", d, n, Fatal), free>>
             \/ td = <<write_slot(D.node[d].block, k, NoEntry, Fatal), free>>
    BY <1>2 DEF Deleting
  <2> DEFINE w == write_slot(D.node[d].block, k, NoEntry, Fatal)
             r == Step("dir_remove_entry", d, n, Fatal)
             E == PutOn(D, Head(td))
             F == PutOn(D, w)
             H == G \ {v}
  <2>2. w.err = Fatal /\ r.do \in Functions
    BY DEF write_slot, Step, Functions
  <2>3. Linking(D, G) /\ Apart(D, G) /\ Sound(D, G) /\ Unique(D, G, {}) /\ Protected(D)
    BY DEF Good, Sound
  <2>4. k \in LiveIn(D, d) /\ SlotIn(D, d, k).inode = v
    BY <2>1 DEF FoundAt
  <2>5. Shrunk(D, F, G, d, k) /\ Apart(F, G) /\ F \in DiskT
    BY <2>3, <2>4, EntryCleared
  <2>6. v \in G
    BY <2>3, <2>4 DEF Linking
  <2> HIDE DEF r, w, free
  <2>7. Head(td) = w /\ Tail(td) = <<free>>
    <3>1. td # <<r, free>>
      BY <2>2, Tuples
    <3>2. td = <<w, free>>
      BY <2>1, <3>1 DEF r, w
    <3> QED
      BY <3>2, Tuples
  <2>8. E = F /\ FailList(td) = << >>
    BY <2>2, <2>7, FailLists
  <2> HIDE DEF E, F
  <2>9. /\ Good(F, H)
        /\ F.node[v].block # 0 => F.node[v].block \notin Owned(F, H)
        /\ v \in Inodes
    BY <2>1, <2>3, <2>4, <2>5, ShrunkDelete
  <2>10. F.super /\ H \in SUBSET Inodes /\ v \in Inodes \ H
    BY <2>5, <2>9 DEF Shrunk
  <2> HIDE DEF H
  <2>11. Deleting(F, H, c.victim, <<free>>)
    BY <2>9, <2>10 DEF Deleting, Cleaning, free
  <2>12. Going(F, c, <<free>>) /\ Going(F, c, << >>) /\ Going(D, c, << >>)
    BY <2>9, <2>10, <2>11, GoingOn
  <2>13. BelowIn(D, v) \in SUBSET G /\ Closed(D, BelowIn(D, v)) /\ v \in BelowIn(D, v)
    BY <2>3, <2>6, LinkingClosed, BelowLeast
  <2>14. BelowIn(D, ROOT) \subseteq BelowIn(F, ROOT) \cup BelowIn(D, v)
    BY <2>3, <2>4, <2>5, <2>13, ShrunkBelow
  <2>15. Loses(D, F, c)
    BY <2>14 DEF Loses
  <2>16. Onward(D, E, c, td) /\ Loses(D, E, c)
    BY <2>5, <2>7, <2>8, <2>12, <2>15 DEF Onward
  <2> QED
    BY <2>16 DEF E
<1> QED
  BY <1>1, <1>2

LEMMA SameInode ==
  ASSUME NEW D \in DiskT, NEW G \in SUBSET Inodes, Apart(D, G), NEW i \in Inodes, NEW err
  PROVE  LET E == PutOn(D, write_inode(i, D.node[i], err))
         IN  Kept(D, E, G) /\ E \in DiskT
<1> DEFINE E == PutOn(D, write_inode(i, D.node[i], err))
<1>1. D.node[i] \in NodeT
  BY SlotTyped
<1>2. /\ E \in DiskT
      /\ E.super = D.super /\ E.ibit = D.ibit /\ E.bbit = D.bbit /\ E.block = D.block
      /\ E.node[i] = D.node[i] /\ \A j \in Inodes \ {i} : E.node[j] = D.node[j]
  BY <1>1, PutInode
<1> HIDE DEF E
<1>3. Untouched(D, E, G)
  BY <1>2 DEF Untouched, Apart
<1> QED
  BY <1>2, <1>3, UntouchedKept DEF E

\* Block b holds nothing of another file, and inode i may take it.
Storable(D, G, i, b) ==
  /\ D.node[i].block = b \/ (D.node[i].block = 0 /\ b \notin Owned(D, G))
  /\ b \in D.bbit /\ D.block[b].data \in {0, i}

LEMMA StoringData ==
  ASSUME NEW D \in DiskT, NEW G \in SUBSET Inodes, Apart(D, G), NEW i \in G, D.node[i].mode # "dir",
         NEW b \in Blocks, Storable(D, G, i, b)
  PROVE  LET E == PutOn(D, Step("data", b, i, Ignored))
         IN  Kept(D, E, G) /\ E \in DiskT /\ E.node = D.node /\ Storable(E, G, i, b)
<1> DEFINE E == PutOn(D, Step("data", b, i, Ignored))
<1>1. BlockPut(D, E, b, DataBlock(i)) /\ DataBlock(i).data = i
  BY PutData
<1> HIDE DEF E
<1>2. CASE D.node[i].block = b
  <2>1. D.node[i].block # 0
    BY <1>2, DiskAssumption DEF Blocks
  <2>2. BlockPut(D, E, D.node[i].block, DataBlock(i))
    BY <1>1, <1>2
  <2> QED
    <3>1. Kept(D, E, G) /\ Owned(E, G) = Owned(D, G)
      BY <1>1, <2>1, <2>2, KeptData
    <3> QED
      BY <1>1, <1>2, <3>1 DEF BlockPut, Storable, E
<1>3. CASE D.node[i].block = 0 /\ b \notin Owned(D, G)
  <2>1. Kept(D, E, G) /\ Owned(E, G) = Owned(D, G)
    BY <1>1, <1>3, KeptBlock
  <2> QED
    BY <1>1, <1>3, <2>1 DEF BlockPut, Storable, E
<1> QED
  BY <1>2, <1>3 DEF Storable

LEMMA StoringInode ==
  ASSUME NEW D \in DiskT, NEW G \in SUBSET Inodes, Apart(D, G), NEW i \in G, D.node[i].mode # "dir",
         NEW b \in Blocks, Storable(D, G, i, b)
  PROVE  LET E == PutOn(D, write_inode(i, [D.node[i] EXCEPT !.size = 1, !.block = b], Ignored))
         IN  Kept(D, E, G) /\ E \in DiskT
<1> DEFINE n == D.node[i]
           m == [n EXCEPT !.size = 1, !.block = b]
           E == PutOn(D, write_inode(i, m, Ignored))
<1>1. n \in NodeT
  BY SlotTyped
<1>2. m \in NodeT
  BY <1>1, NodeUpdates
<1>3. m.mode = n.mode /\ m.prot = n.prot /\ m.block = b
  <2> HIDE DEF n
  <2> QED
    BY <1>1 DEF NodeT
<1> HIDE DEF m
<1>4. /\ E \in DiskT
      /\ E.super = D.super /\ E.ibit = D.ibit /\ E.bbit = D.bbit /\ E.block = D.block
      /\ E.node[i] = m /\ \A j \in Inodes \ {i} : E.node[j] = D.node[j]
  BY <1>2, PutInode
<1> HIDE DEF E
<1>5. LiveIn(D, i) = {} /\ LiveIn(E, i) = {}
  BY <1>3, <1>4 DEF LiveIn
<1>6. b # 0 /\ b \in D.bbit /\ D.block[b].data \in {0, i} /\ (b = n.block \/ b \notin Owned(D, G))
  BY DiskAssumption DEF Storable, Blocks
<1>7. Kept(D, E, G)
  BY <1>3, <1>4, <1>5, <1>6, KeptOwn
<1> QED
  BY <1>4, <1>7 DEF E, m

LEMMA StoringOnward ==
  ASSUME NEW D \in DiskT, NEW G \in SUBSET Inodes, D.super, Good(D, G), NEW c, c.op = "write",
         NEW td, Storing(D, G, td), Head(td).do \notin Functions
  PROVE  Onward(D, PutOn(D, Head(td)), c, td) /\ Loses(D, PutOn(D, Head(td)), c)
<1> DEFINE NewNodeOf(b, i, m) == write_inode(i, [m EXCEPT !.size = 1, !.block = b], Ignored)
           Data(b, i) == Step("data", b, i, Ignored)
           Same(i, m) == write_inode(i, m, Ignored)
           Err(i, m) == Instead(<<Same(i, m)>>)
<1>1. PICK i \in G :
        /\ D.node[i].mode # "dir"
        /\ \/ td = <<Same(i, D.node[i])>>
           \/ \E b \in Blocks :
                \/ /\ D.node[i].block = 0 /\ b \notin Owned(D, G)
                   /\ \/ td = <<bitmap_set_block(b, TRUE, Err(i, D.node[i])), zero_block(b, Err(i, D.node[i])),
                                Data(b, i), NewNodeOf(b, i, D.node[i])>>
                      \/ /\ b \in D.bbit
                         /\ td = <<zero_block(b, Err(i, D.node[i])), Data(b, i), NewNodeOf(b, i, D.node[i])>>
                \/ /\ Storable(D, G, i, b)
                   /\ td = <<Data(b, i), NewNodeOf(b, i, D.node[i])>> \/ td = <<NewNodeOf(b, i, D.node[i])>>
  BY DEF Storing, Storable
<1> DEFINE n == D.node[i]
           z == Same(i, n)
           E == PutOn(D, Head(td))
           Fine == Onward(D, E, c, td) /\ Loses(D, E, c)
<1>2. Apart(D, G) /\ i \in Inodes
  BY DEF Good, Sound
<1>3. z.do = "inode" /\ z.err = Ignored
  BY DEF write_inode, Step
<1>4. ASSUME NEW F, F.node = D.node
      PROVE  /\ Fits(F, G, c, <<z>>)
             /\ \A b \in Blocks : Storable(F, G, i, b) =>
                  Fits(F, G, c, <<Data(b, i), NewNodeOf(b, i, n)>>) /\ Fits(F, G, c, <<NewNodeOf(b, i, n)>>)
  <2>1. F.node[i] = n /\ n.mode # "dir"
    BY <1>1, <1>4
  <2>2. Storing(F, G, <<z>>)
    BY <2>1 DEF Storing
  <2>3. ASSUME NEW b \in Blocks, Storable(F, G, i, b)
        PROVE  Storing(F, G, <<Data(b, i), NewNodeOf(b, i, n)>>) /\ Storing(F, G, <<NewNodeOf(b, i, n)>>)
    BY <2>1, <2>3 DEF Storing, Storable
  <2> QED
    BY <2>2, <2>3 DEF Fits
<1>5. \A F : Fits(F, G, c, << >>)
  BY DEF Fits
<1> HIDE DEF Same
<1>6. ASSUME td = <<z>> PROVE Fine
  <2> DEFINE F == PutOn(D, z)
  <2>1. Kept(D, F, G) /\ F \in DiskT
    BY <1>2, SameInode DEF Same
  <2> HIDE DEF z
  <2>2. Head(td) = z /\ Tail(td) = << >>
    BY <1>6, Tuples
  <2>3. E = F /\ FailList(td) = << >> /\ Head(td).do = "inode"
    BY <1>3, <2>2, FailLists
  <2> HIDE DEF E, F
  <2> QED
    BY <1>5, <2>1, <2>2, <2>3, KeptOnward
<1>7. ASSUME NEW b \in Blocks, Storable(D, G, i, b), td = <<NewNodeOf(b, i, n)>> PROVE Fine
  <2> DEFINE y == NewNodeOf(b, i, n)
             F == PutOn(D, y)
  <2>1. Kept(D, F, G) /\ F \in DiskT
    BY <1>1, <1>2, <1>7, StoringInode
  <2>4. y.err = Ignored /\ y.do = "inode"
    BY DEF write_inode, Step
  <2>5. td = <<y>>
    BY <1>7
  <2> HIDE DEF y
  <2>2. Head(td) = y /\ Tail(td) = << >>
    BY <2>5, Tuples
  <2>3. E = F /\ FailList(td) = << >> /\ Head(td).do = "inode"
    BY <2>2, <2>4, FailLists
  <2> HIDE DEF E, F
  <2> QED
    BY <1>5, <2>1, <2>2, <2>3, KeptOnward
<1>8. ASSUME NEW b \in Blocks, Storable(D, G, i, b), td = <<Data(b, i), NewNodeOf(b, i, n)>> PROVE Fine
  <2> DEFINE y == NewNodeOf(b, i, n)
             x == Data(b, i)
             F == PutOn(D, x)
  <2>1. Kept(D, F, G) /\ F \in DiskT /\ F.node = D.node /\ Storable(F, G, i, b)
    BY <1>1, <1>2, <1>8, StoringData
  <2>4. x.err = Ignored
    BY DEF Step
  <2>5. td = <<x, y>>
    BY <1>8
  <2>6. \A K : K.node = D.node /\ Storable(K, G, i, b) => Fits(K, G, c, <<y>>)
    BY <1>4
  <2> HIDE DEF y, x
  <2>2. Head(td) = x /\ Tail(td) = <<y>>
    BY <2>5, Tuples
  <2>3. E = F /\ FailList(td) = <<y>>
    BY <2>2, <2>4, FailLists
  <2> HIDE DEF E, F, Fine
  <2>7. Fits(F, G, c, <<y>>) /\ Fits(D, G, c, <<y>>)
    BY <1>8, <2>1, <2>6
  <2>8. Onward(D, E, c, td) /\ Loses(D, E, c)
    BY <2>1, <2>2, <2>3, <2>7, KeptOnward
  <2> QED
    BY <2>8 DEF Fine
<1>9. ASSUME NEW b \in Blocks, n.block = 0, b \notin Owned(D, G), b \in D.bbit,
             td = <<zero_block(b, Err(i, n)), Data(b, i), NewNodeOf(b, i, n)>>
      PROVE  Fine
  <2> DEFINE y == NewNodeOf(b, i, n)
             x == Data(b, i)
             w == zero_block(b, Err(i, n))
             F == PutOn(D, w)
  <2>1. /\ Kept(D, F, G) /\ F \in DiskT /\ Owned(F, G) = Owned(D, G) /\ F.node = D.node
        /\ F.bbit = D.bbit /\ F.block[b] = ZeroBlock
    BY <1>2, <1>9, BlockCleared
  <2>4. w.err = Instead(<<z>>)
    BY DEF zero_block, Step
  <2>5. td = <<w, x, y>>
    BY <1>9
  <2>6. \A K : K.node = D.node => /\ Fits(K, G, c, <<z>>)
                                  /\ Storable(K, G, i, b) => Fits(K, G, c, <<x, y>>)
    BY <1>4
  <2> HIDE DEF y, x, w, z
  <2>2. Head(td) = w /\ Tail(td) = <<x, y>>
    BY <2>5, Tuples
  <2>3. E = F /\ FailList(td) = <<z>>
    BY <2>2, <2>4, FailLists
  <2> HIDE DEF E, F, Fine
  <2>7. Storable(F, G, i, b)
    BY <1>9, <2>1, ZeroBlockTyped DEF Storable
  <2>8. Fits(F, G, c, <<x, y>>) /\ Fits(F, G, c, <<z>>) /\ Fits(D, G, c, <<z>>)
    BY <2>1, <2>6, <2>7
  <2>9. Onward(D, E, c, td) /\ Loses(D, E, c)
    BY <2>1, <2>2, <2>3, <2>8, KeptOnward
  <2> QED
    BY <2>9 DEF Fine
<1>10. ASSUME NEW b \in Blocks, n.block = 0, b \notin Owned(D, G),
              td = <<bitmap_set_block(b, TRUE, Err(i, n)), zero_block(b, Err(i, n)), Data(b, i), NewNodeOf(b, i, n)>>
       PROVE  Fine
  <2> DEFINE y == NewNodeOf(b, i, n)
             x == Data(b, i)
             w == zero_block(b, Err(i, n))
             v == bitmap_set_block(b, TRUE, Err(i, n))
             F == PutOn(D, v)
  <2>1. /\ Kept(D, F, G) /\ F \in DiskT /\ Owned(F, G) = Owned(D, G) /\ F.node = D.node
        /\ F.bbit = D.bbit \cup {b}
    <3> DEFINE err == Err(i, n)
               K == PutOn(D, bitmap_set_block(b, TRUE, err))
    <3> HIDE DEF err
    <3>1. /\ Kept(D, K, G) /\ K \in DiskT /\ Owned(K, G) = Owned(D, G)
          /\ K.node = D.node /\ K.ibit = D.ibit /\ K.block = D.block /\ K.bbit = D.bbit \cup {b}
      BY <1>2, <1>10, BlockMarked
    <3>2. F = K
      BY DEF err
    <3> HIDE DEF F, K
    <3> QED
      BY <3>1, <3>2
  <2>4. v.err = Instead(<<z>>)
    BY DEF bitmap_set_block, Step
  <2>5. td = <<v, w, x, y>>
    BY <1>10
  <2>6. \A K : K.node = D.node => Fits(K, G, c, <<z>>)
    BY <1>4
  <2>7. ASSUME NEW K, K.node[i] = n, b \in K.bbit, b \notin Owned(K, G) PROVE Storing(K, G, <<w, x, y>>)
    BY <1>1, <1>10, <2>7 DEF Storing, Same
  <2> HIDE DEF y, x, w, z, v
  <2>2. Head(td) = v /\ Tail(td) = <<w, x, y>>
    BY <2>5, Tuples
  <2>3. E = F /\ FailList(td) = <<z>>
    BY <2>2, <2>4, FailLists
  <2> HIDE DEF E, F, Fine
  <2>8. Fits(F, G, c, <<w, x, y>>)
    BY <1>10, <2>1, <2>7 DEF Fits
  <2>9. Fits(F, G, c, <<z>>) /\ Fits(D, G, c, <<z>>)
    BY <2>1, <2>6
  <2>10. Onward(D, E, c, td) /\ Loses(D, E, c)
    BY <2>1, <2>2, <2>3, <2>8, <2>9, KeptOnward
  <2> QED
    BY <2>10 DEF Fine
<1> HIDE DEF Fine, NewNodeOf, Data, Err, z
<1>11. Fine
  BY <1>1, <1>6, <1>7, <1>8, <1>9, <1>10 DEF z
<1> QED
  BY <1>11 DEF Fine

-----------------------------------------------------------------------------
(***************************************************************************)
(* ipo_fs_rename(), write by write.                                        *)
(***************************************************************************)
\* The new name counts, and the old one is still there.
Twice(td) == \A k \in DOMAIN td : td[k].do \notin {"dir_add_entry", "inode"}
Renames(D, E, c, td) ==
  /\ E \in DiskT /\ Going(E, c, Tail(td)) /\ Loses(D, E, c)
  /\ Twice(td) \/ Onward(D, E, c, td)

LEMMA GoingRename ==
  ASSUME NEW D, NEW G \in SUBSET Inodes, NEW c, c.op = "rename", NEW td, td # << >>, D.super,
         Sound(D, G), Protected(D), Renaming(D, G, td)
  PROVE  Going(D, c, td)
<1>1. CallOf(c, td) = c
  BY DEF CallOf
<1>2. Works(D, G, c, td)
  BY DEF Works
<1> QED
  BY <1>1, <1>2 DEF Going

LEMMA RestTyped ==
  ASSUME NEW d \in Inodes, NEW n \in Names, NEW to \in Inodes, NEW i \in Inodes, NEW t
  PROVE  /\ RenameRest(d, n, to, i, t) \in Seq(StepT) /\ RenameRest(d, n, to, i, t) # << >>
         /\ t # "dir" => RenameRest(d, n, to, i, t) = <<Step("dir_remove_entry", d, n, Fatal)>>
         /\ t = "dir" => RenameRest(d, n, to, i, t) =
              <<Step("update_dots", i, to, Fatal), Step("dir_remove_entry", d, n, Fatal)>>
<1> DEFINE r == Step("dir_remove_entry", d, n, Fatal)
           u == Step("update_dots", i, to, Fatal)
<1>1. r \in StepT /\ u \in StepT
  BY ErrsTyped, CallsTyped
<1>2. RenameRest(d, n, to, i, t) = (IF t = "dir" THEN <<u>> ELSE << >>) \o <<r>>
  BY DEF RenameRest
<1> HIDE DEF r, u
<1>3. << >> \o <<r>> = <<r>> /\ <<r>> \in Seq(StepT) /\ <<r>> # << >>
  BY <1>1
<1>4. <<u>> \o <<r>> = <<u, r>> /\ <<u, r>> \in Seq(StepT) /\ <<u, r>> # << >>
  <2>1. <<r>> \in Seq(StepT) /\ << >> \in Seq(StepT) /\ <<u, r>> \in Seq(StepT)
    BY <1>1
  <2>2. <<u, r>> \o << >> = <<u>> \o (<<r>> \o << >>)
    BY <1>1, <2>1, ListTwo
  <2>3. <<u, r>> \o << >> = <<u, r>> /\ <<r>> \o << >> = <<r>>
    BY <2>1, ConcatEmptySeq
  <2> QED
    BY <2>1, <2>2, <2>3, Tuples
<1> QED
  BY <1>2, <1>3, <1>4 DEF r, u

LEMMA RenamingAdds ==
  ASSUME NEW D \in DiskT, NEW G \in SUBSET Inodes, D.super, Good(D, G), NEW c, c.op = "rename",
         NEW d \in G, NEW to \in G, NEW i \in G, NEW n \in Names, NEW m \in Names, NEW t \in Modes,
         NEW k \in Slots, Moving(D, G, d, n, k, to, i, t), NEW p \in Blocks, NEW td,
         Adding(D, G, to, Entry(i, t, m), p, Fatal, RenameRest(d, n, to, i, t), td)
  PROVE  Onward(D, PutOn(D, Head(td)), c, td) /\ Loses(D, PutOn(D, Head(td)), c)
<1> DEFINE E == PutOn(D, Head(td))
           e == Entry(i, t, m)
           rest == RenameRest(d, n, to, i, t)
           s == D.node[to].size
<1>1. Apart(D, G) /\ Linking(D, G) /\ Unique(D, G, {}) /\ Protected(D) /\ Sound(D, G)
  BY DEF Good, Sound
<1>2. e \in EntryT /\ e.inode = i /\ e.name = m /\ e.type = t /\ e.inode # 0 /\ e.name \notin Dots
  BY EntryTyped
<1>3. Fatal \in Errs /\ rest \in Seq(StepT) /\ rest # << >>
  BY ErrsTyped, RestTyped
<1>4. Adding(D, G, to, e, p, Fatal, rest, td)
  OBVIOUS
<1> HIDE DEF e, rest
<1>5. AddGoes(D, E, G, to, e, p, Fatal, rest, td)
  BY <1>1, <1>2, <1>3, <1>4, AddingWrites
<1>6. E \in DiskT
  BY <1>5 DEF AddGoes
<1> HIDE DEF E
<1>7. CASE /\ Head(td).do # "inode" /\ Head(td).err = Fatal /\ Kept(D, E, G)
           /\ Adding(E, G, to, e, p, Fatal, rest, Tail(td))
  <2>1. E.super /\ Good(E, G) /\ Loses(D, E, c)
    BY <1>6, <1>7, KeptOn
  <2>2. Moving(E, G, d, n, k, to, i, t)
    BY <1>1, <1>6, <1>7, KeptMoving
  <2>3. Sound(E, G) /\ Unique(E, G, {}) /\ Protected(E) /\ Apart(E, G)
    BY <2>1 DEF Good, Sound
  <2>4. Renaming(E, G, Tail(td))
    BY <1>7, <2>2, <2>3 DEF Renaming, e, rest
  <2>5. Tail(td) # << >>
    <3>1. AddGoes(E, PutOn(E, Head(Tail(td))), G, to, e, p, Fatal, rest, Tail(td))
      BY <1>2, <1>3, <1>6, <1>7, <2>3, AddingWrites
    <3> QED
      BY <3>1 DEF AddGoes
  <2>6. Going(E, c, Tail(td))
    BY <2>1, <2>3, <2>4, <2>5, GoingRename
  <2>7. FailList(td) = << >>
    BY <1>7, FailLists
  <2>8. Going(E, c, << >>) /\ Going(D, c, << >>)
    BY <2>1, GoingOn
  <2>9. Onward(D, E, c, td) /\ Loses(D, E, c)
    BY <1>6, <2>1, <2>6, <2>7, <2>8 DEF Onward
  <2> QED
    BY <2>9 DEF E
<1>8. CASE /\ Head(td) = write_inode(to, Counted(D.node[to], p), Ignored) /\ Tail(td) = rest
           /\ Takes(D, G, to, p) /\ Fresh(D, to, e)
           /\ D.node[to].block = 0 => p \in D.bbit /\ Blank0(D, p, s)
           /\ D.block[p].slot[s] = e
  <2>1. Stored(D, G, to, p, e)
    BY <1>2, <1>8 DEF Stored
  <2>2. Head(td).do = "inode" /\ Head(td).err = Ignored
    BY <1>8 DEF write_inode, Step
  <2>3. Grown(D, E, G \cup {i}, to, s, e) /\ Apart(E, G \cup {i})
    BY <1>1, <1>8, <2>1, EntryCounts DEF E
  <2>4. G \cup {i} = G
    OBVIOUS
  <2>5. Grown(D, E, G, to, s, e) /\ Apart(E, G)
    BY <2>3, <2>4
  <2> HIDE DEF s
  <2>6. FoundAt(D, d, n, k, i) /\ ~D.node[i].prot /\ D.node[i].mode = t /\ to \in BelowIn(D, ROOT)
    BY DEF Moving
  <2>7. D.node[i].mode = e.type
    BY <1>2, <2>6
  <2>8. Linking(E, G) /\ FoundAt(E, d, n, k, i) /\ Doubled(E, G, d, k, to, i)
    BY <1>1, <1>2, <1>6, <1>8, <2>5, <2>6, <2>7, GrownOld
  <2>9. e.name # "app" /\ e.name # "autorun"
    BY <1>2, CallersAssumption
  <2>10. Special(E, "app") /\ Special(E, "autorun")
    BY <1>1, <1>6, <2>5, <2>9, GrownSpecial DEF Protected
  <2>11. /\ BelowIn(D, ROOT) \subseteq BelowIn(E, ROOT)
         /\ \A C \in SUBSET G : Closed(D, C) /\ to \notin C => Closed(E, C)
    BY <1>1, <1>6, <2>5, GrownBelow
  <2>12. E.super /\ ~E.node[i].prot /\ E.node[i].mode = t
    BY <2>5, <2>6 DEF Grown
  <2>13. \E C \in SUBSET G : Closed(E, C) /\ i \in C /\ to \notin C
    BY <2>11 DEF Moving
  <2>14. Moving(E, G, d, n, k, to, i, t)
    BY <2>6, <2>8, <2>11, <2>12, <2>13 DEF Moving
  <2>15. t = "dir" \/ rest = <<Step("dir_remove_entry", d, n, Fatal)>>
    BY RestTyped DEF rest
  <2>16. Renaming(E, G, rest)
    BY <2>8, <2>14, <2>15 DEF Renaming, rest
  <2>17. Sound(E, G) /\ Protected(E)
    BY <2>5, <2>8, <2>10 DEF Sound, Protected
  <2>18. Going(E, c, rest)
    BY <1>3, <2>12, <2>16, <2>17, GoingRename
  <2>19. FailList(td) = rest
    BY <1>8, <2>2, FailLists
  <2>20. Onward(D, E, c, td) /\ Loses(D, E, c)
    BY <1>6, <1>8, <2>2, <2>11, <2>18, <2>19 DEF Onward, Loses
  <2> QED
    BY <2>20 DEF E
<1> QED
  BY <1>5, <1>7, <1>8 DEF AddGoes

LEMMA TwiceOne ==
  ASSUME NEW a, NEW b, a.do \notin {"dir_add_entry", "inode"}, b.do \notin {"dir_add_entry", "inode"}
  PROVE  Twice(<<a>>) /\ Twice(<<a, b>>)
BY DEF Twice

LEMMA RenamingDots ==
  ASSUME NEW D \in DiskT, NEW G \in SUBSET Inodes, D.super, Sound(D, G), Protected(D), NEW c, c.op = "rename",
         NEW d \in G, NEW to \in G, NEW i \in G, NEW n \in Names, NEW t \in Modes, NEW k \in Slots,
         Moving(D, G, d, n, k, to, i, t), Doubled(D, G, d, k, to, i), NEW e \in EntryT,
         D.node[i].block # 0, 1 \notin LiveIn(D, i), D.node[i].size <= 1 \/ e.name \in Dots
  PROVE  LET E == PutOn(D, write_slot(D.node[i].block, 1, e, Fatal))
         IN  /\ E \in DiskT /\ Loses(D, E, c)
             /\ Going(E, c, <<Step("dir_remove_entry", d, n, Fatal)>>)
<1> DEFINE E == PutOn(D, write_slot(D.node[i].block, 1, e, Fatal))
           b == D.node[i].block
           r == Step("dir_remove_entry", d, n, Fatal)
<1>1. Apart(D, G) /\ Linking(D, G) /\ i \in Inodes
  BY DEF Sound
<1>2. 1 \in Slots /\ D.node[i].size \in Nat /\ b \in Blocks
  BY <1>1, SlotTyped, DiskAssumption DEF Slots
<1>3. BlockPut(D, E, b, SlotBlock(D, b, 1, e))
  BY <1>2, PutSlot
<1> HIDE DEF E
<1>4. 1 >= D.node[i].size \/ e.name \in Dots
  BY <1>2
<1>5. Kept(D, E, G) /\ Owned(E, G) = Owned(D, G)
  BY <1>1, <1>2, <1>3, <1>4, KeptSlot
<1>6. E \in DiskT
  BY <1>3 DEF BlockPut
<1>7. Moving(E, G, d, n, k, to, i, t) /\ Doubled(E, G, d, k, to, i)
  BY <1>1, <1>5, <1>6, KeptMoving
<1>8. Sound(E, G) /\ Protected(E) /\ E.super
  BY <1>1, <1>5, <1>6, KeptGood
<1>9. BelowIn(E, ROOT) = BelowIn(D, ROOT)
  BY <1>1, <1>5, <1>6, SameBelow DEF Kept, Linking
<1>10. Renaming(E, G, <<r>>)
  BY <1>7 DEF Renaming
<1> HIDE DEF r
<1>11. Going(E, c, <<r>>)
  BY <1>8, <1>10, Tuples, GoingRename
<1> QED
  BY <1>6, <1>9, <1>11 DEF E, r, Loses

LEMMA RenamingEnds ==
  ASSUME NEW D \in DiskT, NEW G \in SUBSET Inodes, D.super, Sound(D, G), Protected(D), NEW c, c.op = "rename",
         NEW d \in G, NEW to \in G, NEW i \in G, NEW n \in Names, NEW t \in Modes, NEW k \in Slots,
         Moving(D, G, d, n, k, to, i, t), Doubled(D, G, d, k, to, i)
  PROVE  LET E == PutOn(D, write_slot(D.node[d].block, k, NoEntry, Fatal))
         IN  /\ E \in DiskT /\ Loses(D, E, c) /\ Going(E, c, << >>)
<1> DEFINE E == PutOn(D, write_slot(D.node[d].block, k, NoEntry, Fatal))
<1>1. Apart(D, G) /\ Linking(D, G)
  BY DEF Sound
<1>2. k \in LiveIn(D, d) /\ SlotIn(D, d, k).inode = i /\ ~D.node[i].prot /\ Unique(D, G, {<<d, k>>})
  BY DEF Moving, Doubled, FoundAt
<1>3. Shrunk(D, E, G, d, k) /\ Apart(E, G) /\ E \in DiskT
  BY <1>1, <1>2, EntryCleared
<1> HIDE DEF E
<1>4. ~D.node[SlotIn(D, d, k).inode].prot
  BY <1>2
<1>5. Good(E, G)
  BY <1>2, <1>3, <1>4, ShrunkRename
<1>6. E.super
  BY <1>3 DEF Shrunk
<1>7. BelowIn(D, ROOT) \subseteq BelowIn(E, ROOT)
  BY <1>1, <1>3, RenameBelow
<1>8. Going(E, c, << >>)
  BY <1>5, <1>6, GoingOn
<1> QED
  BY <1>3, <1>7, <1>8 DEF E, Loses

LEMMA RenamingOnward ==
  ASSUME NEW D \in DiskT, NEW G \in SUBSET Inodes, D.super, Sound(D, G), Protected(D), NEW c, c.op = "rename",
         NEW td, Renaming(D, G, td), Head(td).do \notin Functions
  PROVE  Renames(D, PutOn(D, Head(td)), c, td)
<1>1. PICK d \in G, to \in G, i \in G, n \in Names, m \in Names, t \in Modes, k \in Slots :
        /\ Moving(D, G, d, n, k, to, i, t)
        /\ \/ /\ Unique(D, G, {})
              /\ td = <<Step("dir_add_entry", to, Entry(i, t, m), Fatal)>> \o RenameRest(d, n, to, i, t)
           \/ /\ Unique(D, G, {})
              /\ \E p \in Blocks : Adding(D, G, to, Entry(i, t, m), p, Fatal, RenameRest(d, n, to, i, t), td)
           \/ /\ Doubled(D, G, d, k, to, i)
              /\ \/ t = "dir" /\ td = RenameRest(d, n, to, i, t)
                 \/ \E e \in EntryT :
                      /\ D.node[i].block # 0 /\ 1 \notin LiveIn(D, i)
                      /\ D.node[i].size <= 1 \/ e.name \in Dots
                      /\ td = <<write_slot(D.node[i].block, 1, e, Fatal), Step("dir_remove_entry", d, n, Fatal)>>
                 \/ td = <<Step("dir_remove_entry", d, n, Fatal)>>
                 \/ td = <<write_slot(D.node[d].block, k, NoEntry, Fatal)>>
  BY DEF Renaming
<1> DEFINE a == Step("dir_add_entry", to, Entry(i, t, m), Fatal)
           u == Step("update_dots", i, to, Fatal)
           r == Step("dir_remove_entry", d, n, Fatal)
           x(e) == write_slot(D.node[i].block, 1, e, Fatal)
           z == write_slot(D.node[d].block, k, NoEntry, Fatal)
           rest == RenameRest(d, n, to, i, t)
           E == PutOn(D, Head(td))
           Fine == Renames(D, E, c, td)
<1>2. a.do \in Functions /\ u.do \in Functions /\ r.do \in Functions
  BY DEF Step, Functions
<1>3. r.do = "dir_remove_entry" /\ z.do = "slot" /\ \A e : x(e).do = "slot"
  BY DEF write_slot, Step
<1>4. a \in StepT /\ rest \in Seq(StepT) /\ (t = "dir" => rest = <<u, r>>)
  BY EntryTyped, ErrsTyped, CallsTyped, RestTyped
<1>5. ASSUME Unique(D, G, {}), NEW p \in Blocks, Adding(D, G, to, Entry(i, t, m), p, Fatal, rest, td)
      PROVE  Fine
  <2>1. Good(D, G)
    BY <1>5 DEF Good
  <2>2. Onward(D, E, c, td) /\ Loses(D, E, c)
    BY <1>1, <1>5, <2>1, RenamingAdds
  <2> HIDE DEF E
  <2> QED
    BY <2>2 DEF Renames, Onward
<1>6. ASSUME Doubled(D, G, d, k, to, i), NEW e \in EntryT, D.node[i].block # 0, 1 \notin LiveIn(D, i),
             D.node[i].size <= 1 \/ e.name \in Dots, td = <<x(e), r>>
      PROVE  Fine
  <2> DEFINE w == x(e)
             F == PutOn(D, w)
  <2>1. F \in DiskT /\ Loses(D, F, c) /\ Going(F, c, <<r>>)
    BY <1>1, <1>6, RenamingDots
  <2>2. w.do = "slot" /\ td = <<w, r>>
    BY <1>3, <1>6
  <2> HIDE DEF w, r, x
  <2>3. Head(td) = w /\ Tail(td) = <<r>> /\ Twice(td)
    <3>1. Head(td) = w /\ Tail(td) = <<r>>
      BY <2>2, Tuples
    <3>2. r.do = "dir_remove_entry"
      BY <1>3
    <3>3. Twice(<<w, r>>)
      BY <2>2, <3>2, TwiceOne
    <3> QED
      BY <2>2, <3>1, <3>3
  <2>4. E = F
    BY <2>3
  <2> HIDE DEF E, F
  <2> QED
    BY <2>1, <2>3, <2>4 DEF Renames
<1>7. ASSUME Doubled(D, G, d, k, to, i), td = <<z>> PROVE Fine
  <2> DEFINE F == PutOn(D, z)
  <2>1. F \in DiskT /\ Loses(D, F, c) /\ Going(F, c, << >>)
    BY <1>1, <1>7, RenamingEnds
  <2> HIDE DEF z, r
  <2>3. Head(td) = z /\ Tail(td) = << >> /\ Twice(td)
    BY <1>3, <1>7, Tuples, TwiceOne
  <2>4. E = F
    BY <2>3
  <2> HIDE DEF E, F
  <2> QED
    BY <2>1, <2>3, <2>4 DEF Renames
<1> HIDE DEF a, u, r, x, z, rest, E, Fine
<1>8. td # <<a>> \o rest /\ td # <<u, r>> /\ td # <<r>>
  BY <1>2, <1>4, Tuples, ListOne
<1>9. Fine
  BY <1>1, <1>4, <1>5, <1>6, <1>7, <1>8 DEF a, r, x, z, rest
<1> QED
  BY <1>9 DEF Fine, E

-----------------------------------------------------------------------------
(***************************************************************************)
(* A call in progress: its next write, and its next failure.               *)
(***************************************************************************)
LEMMA WorksCases ==
  ASSUME NEW D, NEW G, NEW c, NEW td, Works(D, G, c, td)
  PROVE  /\ D.super /\ Sound(D, G) /\ Protected(D)
         /\ \/ c.op = "none" /\ Good(D, G) /\ td = << >>
            \/ c.op = "create" /\ Good(D, G) /\ Creating(D, G, td)
            \/ c.op = "delete" /\ Good(D, G) /\ Deleting(D, G, c.victim, td)
            \/ c.op = "write" /\ Good(D, G) /\ Storing(D, G, td)
            \/ c.op = "rename" /\ Renaming(D, G, td)
BY DEF Works, Good

Cut(c, td) == c.op = "rename" /\ Twice(td)

LEMMA WorksWrite ==
  ASSUME NEW D \in DiskT, NEW G \in SUBSET Inodes, NEW c, NEW td, Works(D, G, c, td), td # << >>,
         Head(td).do \notin Functions
  PROVE  LET E == PutOn(D, Head(td))
         IN  /\ E \in DiskT /\ Going(E, c, Tail(td)) /\ Loses(D, E, c)
             /\ Cut(c, td) \/ Onward(D, E, c, td)
<1> DEFINE E == PutOn(D, Head(td))
<1>1. /\ D.super /\ Sound(D, G) /\ Protected(D)
      /\ \/ c.op = "create" /\ Good(D, G) /\ Creating(D, G, td)
         \/ c.op = "delete" /\ Good(D, G) /\ Deleting(D, G, c.victim, td)
         \/ c.op = "write" /\ Good(D, G) /\ Storing(D, G, td)
         \/ c.op = "rename" /\ Renaming(D, G, td)
  BY WorksCases
<1>2. CASE c.op = "create" /\ Good(D, G) /\ Creating(D, G, td)
  <2>1. Onward(D, E, c, td) /\ Loses(D, E, c)
    BY <1>1, <1>2, CreatingOnward
  <2> HIDE DEF E
  <2> QED
    BY <2>1 DEF Onward, E
<1>3. CASE c.op = "delete" /\ Good(D, G) /\ Deleting(D, G, c.victim, td)
  <2>1. Onward(D, E, c, td) /\ Loses(D, E, c)
    BY <1>1, <1>3, DeletingOnward
  <2> HIDE DEF E
  <2> QED
    BY <2>1 DEF Onward, E
<1>4. CASE c.op = "write" /\ Good(D, G) /\ Storing(D, G, td)
  <2>1. Onward(D, E, c, td) /\ Loses(D, E, c)
    BY <1>1, <1>4, StoringOnward
  <2> HIDE DEF E
  <2> QED
    BY <2>1 DEF Onward, E
<1>5. CASE c.op = "rename" /\ Renaming(D, G, td)
  <2>1. Renames(D, E, c, td)
    BY <1>1, <1>5, RenamingOnward
  <2> HIDE DEF E
  <2> QED
    BY <1>5, <2>1 DEF Renames, Cut, E
<1> QED
  BY <1>1, <1>2, <1>3, <1>4, <1>5

\* The call the list begins with, in each of the lists that begin with one.
LEMMA CleaningFunction ==
  ASSUME NEW D, NEW G, NEW td, Cleaning(D, G, td), Head(td).do \in Functions
  PROVE  \E i \in Inodes \ G : /\ td = <<Step("free_inode", i, 0, Ignored)>>
                               /\ D.node[i].block # 0 => D.node[i].block \notin Owned(D, G)
<1>1. PICK i \in Inodes \ G :
        \/ /\ td = <<Step("free_inode", i, 0, Ignored)>>
           /\ D.node[i].block # 0 => D.node[i].block \notin Owned(D, G)
        \/ \E n \in NodeT :
             \/ \E b \in Blocks \ Owned(D, G) :
                  td = <<bitmap_set_block(b, FALSE, Ignored), bitmap_set_inode(i, FALSE, Ignored),
                         write_inode(i, n, Ignored)>>
             \/ td = <<bitmap_set_inode(i, FALSE, Ignored), write_inode(i, n, Ignored)>>
             \/ td = <<write_inode(i, n, Ignored)>>
  BY DEF Cleaning
<1>2. ASSUME NEW n, NEW b
      PROVE  /\ write_inode(i, n, Ignored).do \notin Functions
             /\ bitmap_set_inode(i, FALSE, Ignored).do \notin Functions
             /\ bitmap_set_block(b, FALSE, Ignored).do \notin Functions
  BY DEF write_inode, bitmap_set_inode, bitmap_set_block, Step, Functions
<1>3. ASSUME NEW n, NEW b,
             \/ td = <<bitmap_set_block(b, FALSE, Ignored), bitmap_set_inode(i, FALSE, Ignored),
                       write_inode(i, n, Ignored)>>
             \/ td = <<bitmap_set_inode(i, FALSE, Ignored), write_inode(i, n, Ignored)>>
             \/ td = <<write_inode(i, n, Ignored)>>
      PROVE  FALSE
  <2> DEFINE x == bitmap_set_inode(i, FALSE, Ignored)
             y == write_inode(i, n, Ignored)
             z == bitmap_set_block(b, FALSE, Ignored)
  <2>1. td = <<z, x, y>> \/ td = <<x, y>> \/ td = <<y>>
    BY <1>3
  <2>2. x.do \notin Functions /\ y.do \notin Functions /\ z.do \notin Functions
    BY <1>2
  <2> HIDE DEF x, y, z
  <2> QED
    BY <2>1, <2>2, Tuples
<1> QED
  BY <1>1, <1>3

LEMMA CreatingFunction ==
  ASSUME NEW D \in DiskT, NEW G \in SUBSET Inodes, Good(D, G), NEW td, Creating(D, G, td),
         Head(td).do \in Functions
  PROVE  \/ Cleaning(D, G, td)
         \/ \E i \in Inodes \ G, d \in G, n \in Names, t \in Types :
              /\ i \in D.ibit /\ D.node[i] = NewInode(t)
              /\ td = <<Step("dir_add_entry", d, Entry(i, t, n), Undo(i))>>
<1>1. CASE Cleaning(D, G, td)
  BY <1>1
<1>2. CASE ~Cleaning(D, G, td)
  <2>1. PICK i \in Inodes \ G, d \in G, n \in Names, t \in Types :
          LET add == Step("dir_add_entry", d, Entry(i, t, n), Undo(i))
              new == write_inode(i, NewInode(t), Ignored)
          IN  \/ td = <<bitmap_set_inode(i, TRUE, Fatal), write_inode(i, ZeroInode, Ignored), new, add>>
              \/ i \in D.ibit /\ td = <<write_inode(i, ZeroInode, Ignored), new, add>>
              \/ i \in D.ibit /\ td = <<new, add>>
              \/ i \in D.ibit /\ D.node[i] = NewInode(t) /\ td = <<add>>
              \/ /\ i \in D.ibit /\ D.node[i] = NewInode(t)
                 /\ \E p \in Blocks : Adding(D, G, d, Entry(i, t, n), p, Undo(i), << >>, td)
    BY <1>2 DEF Creating
  <2> DEFINE a1 == bitmap_set_inode(i, TRUE, Fatal)
             a2 == write_inode(i, ZeroInode, Ignored)
             a3 == write_inode(i, NewInode(t), Ignored)
             a4 == Step("dir_add_entry", d, Entry(i, t, n), Undo(i))
  <2>2. a1.do \notin Functions /\ a2.do \notin Functions /\ a3.do \notin Functions
    BY DEF write_inode, bitmap_set_inode, Step, Functions
  <2>3. ASSUME NEW p \in Blocks, Adding(D, G, d, Entry(i, t, n), p, Undo(i), << >>, td) PROVE FALSE
    <3>1. Apart(D, G) /\ Entry(i, t, n) \in EntryT /\ Undo(i) \in Errs /\ << >> \in Seq(StepT)
      BY NewNode, EntryTyped, ErrsTyped DEF Good, Sound, Undo
    <3>2. AddGoes(D, PutOn(D, Head(td)), G, d, Entry(i, t, n), p, Undo(i), << >>, td)
      BY <2>3, <3>1, AddingWrites
    <3> QED
      BY <3>2 DEF AddGoes
  <2>5. \/ td = <<a1, a2, a3, a4>> \/ td = <<a2, a3, a4>> \/ td = <<a3, a4>>
        \/ i \in D.ibit /\ D.node[i] = NewInode(t) /\ td = <<a4>>
    BY <2>1, <2>3
  <2> HIDE DEF a1, a2, a3, a4
  <2>4. i \in D.ibit /\ D.node[i] = NewInode(t) /\ td = <<a4>>
    BY <2>2, <2>5, Tuples
  <2> QED
    BY <2>4 DEF a4
<1> QED
  BY <1>1, <1>2

LEMMA DeletingFunction ==
  ASSUME NEW D, NEW G, NEW v, NEW td, Deleting(D, G, v, td), Head(td).do \in Functions
  PROVE  \/ Cleaning(D, G, td)
         \/ \E d \in G, n \in Names, k \in Slots :
              /\ FoundAt(D, d, n, k, v) /\ ~D.node[v].prot
              /\ td = <<Step("dir_remove_entry", d, n, Fatal), Step("free_inode", v, 0, Ignored)>>
<1>1. ASSUME NEW d \in G, NEW k \in Slots,
             td = <<write_slot(D.node[d].block, k, NoEntry, Fatal), Step("free_inode", v, 0, Ignored)>>
      PROVE  FALSE
  <2> DEFINE w == write_slot(D.node[d].block, k, NoEntry, Fatal)
             f == Step("free_inode", v, 0, Ignored)
  <2>1. w.do \notin Functions
    BY DEF write_slot, Step, Functions
  <2>2. td = <<w, f>>
    BY <1>1
  <2> HIDE DEF w, f
  <2> QED
    BY <2>1, <2>2, Tuples
<1> QED
  BY <1>1 DEF Deleting

LEMMA StoringFunction ==
  ASSUME NEW D, NEW G, NEW td, Storing(D, G, td), Head(td).do \in Functions
  PROVE  FALSE
<1>1. PICK i, b : \E err, n, m :
        \/ td = <<write_inode(i, n, Ignored)>>
        \/ td = <<bitmap_set_block(b, TRUE, err), zero_block(b, err), Step("data", b, i, Ignored),
                  write_inode(i, m, Ignored)>>
        \/ td = <<zero_block(b, err), Step("data", b, i, Ignored), write_inode(i, m, Ignored)>>
        \/ td = <<Step("data", b, i, Ignored), write_inode(i, m, Ignored)>>
        \/ td = <<write_inode(i, m, Ignored)>>
  BY DEF Storing
<1>2. PICK err, n, m :
        \/ td = <<write_inode(i, n, Ignored)>>
        \/ td = <<bitmap_set_block(b, TRUE, err), zero_block(b, err), Step("data", b, i, Ignored),
                  write_inode(i, m, Ignored)>>
        \/ td = <<zero_block(b, err), Step("data", b, i, Ignored), write_inode(i, m, Ignored)>>
        \/ td = <<Step("data", b, i, Ignored), write_inode(i, m, Ignored)>>
        \/ td = <<write_inode(i, m, Ignored)>>
  BY <1>1
<1> DEFINE a1 == bitmap_set_block(b, TRUE, err)
           a2 == zero_block(b, err)
           a3 == Step("data", b, i, Ignored)
           a4 == write_inode(i, m, Ignored)
           a5 == write_inode(i, n, Ignored)
<1>3. /\ a1.do \notin Functions /\ a2.do \notin Functions /\ a3.do \notin Functions
      /\ a4.do \notin Functions /\ a5.do \notin Functions
  BY DEF bitmap_set_block, zero_block, write_inode, Step, Functions
<1>4. td = <<a5>> \/ td = <<a1, a2, a3, a4>> \/ td = <<a2, a3, a4>> \/ td = <<a3, a4>> \/ td = <<a4>>
  BY <1>2
<1> HIDE DEF a1, a2, a3, a4, a5
<1> QED
  BY <1>3, <1>4, Tuples

RenamesWith(D, G, d, to, i, n, m, t, k, td) ==
  /\ Moving(D, G, d, n, k, to, i, t)
  /\ \/ /\ Unique(D, G, {})
        /\ td = <<Step("dir_add_entry", to, Entry(i, t, m), Fatal)>> \o RenameRest(d, n, to, i, t)
     \/ /\ Doubled(D, G, d, k, to, i)
        /\ \/ t = "dir" /\ td = <<Step("update_dots", i, to, Fatal), Step("dir_remove_entry", d, n, Fatal)>>
           \/ td = <<Step("dir_remove_entry", d, n, Fatal)>>

LEMMA RenamingFunction ==
  ASSUME NEW D \in DiskT, NEW G \in SUBSET Inodes, Apart(D, G), NEW td, Renaming(D, G, td),
         Head(td).do \in Functions
  PROVE  \E d \in G, to \in G, i \in G, n \in Names, m \in Names, t \in Modes, k \in Slots :
           RenamesWith(D, G, d, to, i, n, m, t, k, td)
<1>1. PICK d \in G, to \in G, i \in G, n \in Names, m \in Names, t \in Modes, k \in Slots :
        /\ Moving(D, G, d, n, k, to, i, t)
        /\ \/ /\ Unique(D, G, {})
              /\ td = <<Step("dir_add_entry", to, Entry(i, t, m), Fatal)>> \o RenameRest(d, n, to, i, t)
           \/ /\ Unique(D, G, {})
              /\ \E p \in Blocks : Adding(D, G, to, Entry(i, t, m), p, Fatal, RenameRest(d, n, to, i, t), td)
           \/ /\ Doubled(D, G, d, k, to, i)
              /\ \/ t = "dir" /\ td = RenameRest(d, n, to, i, t)
                 \/ \E e \in EntryT :
                      /\ D.node[i].block # 0 /\ 1 \notin LiveIn(D, i)
                      /\ D.node[i].size <= 1 \/ e.name \in Dots
                      /\ td = <<write_slot(D.node[i].block, 1, e, Fatal), Step("dir_remove_entry", d, n, Fatal)>>
                 \/ td = <<Step("dir_remove_entry", d, n, Fatal)>>
                 \/ td = <<write_slot(D.node[d].block, k, NoEntry, Fatal)>>
  BY DEF Renaming
<1> DEFINE r == Step("dir_remove_entry", d, n, Fatal)
           x(e) == write_slot(D.node[i].block, 1, e, Fatal)
           z == write_slot(D.node[d].block, k, NoEntry, Fatal)
           rest == RenameRest(d, n, to, i, t)
<1>2. ASSUME NEW p \in Blocks, Adding(D, G, to, Entry(i, t, m), p, Fatal, rest, td) PROVE FALSE
  <2>1. Entry(i, t, m) \in EntryT /\ Fatal \in Errs /\ rest \in Seq(StepT)
    BY EntryTyped, ErrsTyped, RestTyped
  <2>2. AddGoes(D, PutOn(D, Head(td)), G, to, Entry(i, t, m), p, Fatal, rest, td)
    BY <1>2, <2>1, AddingWrites
  <2> QED
    BY <2>2 DEF AddGoes
<1>3. ASSUME NEW e, td = <<x(e), r>> PROVE FALSE
  <2> DEFINE w == x(e)
  <2>1. w.do \notin Functions /\ td = <<w, r>>
    BY <1>3 DEF write_slot, Step, Functions
  <2> HIDE DEF w, r
  <2> QED
    BY <2>1, Tuples
<1>4. td # <<z>>
  <2>1. z.do \notin Functions
    BY DEF write_slot, Step, Functions
  <2> HIDE DEF z
  <2> QED
    BY <2>1, Tuples
<1>5. t = "dir" => rest = <<Step("update_dots", i, to, Fatal), r>>
  BY RestTyped
<1>6. RenamesWith(D, G, d, to, i, n, m, t, k, td)
  BY <1>1, <1>2, <1>3, <1>4, <1>5 DEF RenamesWith
<1> QED
  BY <1>6

LEMMA CreatingFails ==
  ASSUME NEW D, NEW G, NEW i \in Inodes \ G, NEW t \in Types, D.node[i] = NewInode(t)
  PROVE  Creating(D, G, <<Step("free_inode", i, 0, Ignored)>>)
<1>1. D.node[i].block = 0
  BY NewNode
<1>2. Cleaning(D, G, <<Step("free_inode", i, 0, Ignored)>>)
  BY <1>1 DEF Cleaning
<1> QED
  BY <1>2 DEF Creating

LEMMA FailsOf ==
  ASSUME NEW x, NEW a, NEW v, NEW td
  PROVE  /\ Head(td) = Step(x, a, v, Ignored) => FailList(td) = Tail(td)
         /\ Head(td) = Step(x, a, v, Fatal) => FailList(td) = << >>
         /\ \A s : Head(td) = Step(x, a, v, Instead(s)) => FailList(td) = s
BY FailLists DEF Step

LEMMA WorksFail ==
  ASSUME NEW D \in DiskT, NEW G \in SUBSET Inodes, NEW c, NEW td, Works(D, G, c, td), td # << >>,
         Head(td).do \in Functions, ~Cut(c, td)
  PROVE  Going(D, c, FailList(td))
<1>1. /\ D.super /\ Sound(D, G) /\ Protected(D)
      /\ \/ c.op = "create" /\ Good(D, G) /\ Creating(D, G, td)
         \/ c.op = "delete" /\ Good(D, G) /\ Deleting(D, G, c.victim, td)
         \/ c.op = "write" /\ Good(D, G) /\ Storing(D, G, td)
         \/ c.op = "rename" /\ Renaming(D, G, td)
  BY WorksCases
<1>2. ASSUME Good(D, G), FailList(td) = << >> PROVE Going(D, c, FailList(td))
  BY <1>1, <1>2, GoingOn
<1>3. ASSUME Good(D, G), Cleaning(D, G, td) PROVE FailList(td) = << >>
  <2>1. PICK i \in Inodes \ G : td = <<Step("free_inode", i, 0, Ignored)>>
    BY <1>3, CleaningFunction
  <2>2. Head(td) = Step("free_inode", i, 0, Ignored) /\ Tail(td) = << >>
    BY <2>1, Tuples
  <2> QED
    BY <2>2, FailsOf
<1>4. CASE c.op = "create" /\ Good(D, G) /\ Creating(D, G, td)
  <2>1. CASE Cleaning(D, G, td)
    BY <1>2, <1>3, <1>4, <2>1
  <2>2. CASE ~Cleaning(D, G, td)
    <3>1. PICK i \in Inodes \ G, d \in G, n \in Names, t \in Types :
            /\ i \in D.ibit /\ D.node[i] = NewInode(t)
            /\ td = <<Step("dir_add_entry", d, Entry(i, t, n), Undo(i))>>
      BY <1>4, <2>2, CreatingFunction
    <3>2. Head(td) = Step("dir_add_entry", d, Entry(i, t, n), Undo(i))
      BY <3>1, Tuples
    <3>3. FailList(td) = <<Step("free_inode", i, 0, Ignored)>>
      BY <3>2, FailsOf DEF Undo
    <3>4. Creating(D, G, FailList(td))
      BY <3>1, <3>3, CreatingFails
    <3> QED
      BY <1>1, <1>4, <3>4, GoingOn
  <2> QED
    BY <2>1, <2>2
<1>5. CASE c.op = "delete" /\ Good(D, G) /\ Deleting(D, G, c.victim, td)
  <2>1. CASE Cleaning(D, G, td)
    BY <1>2, <1>3, <1>5, <2>1
  <2>2. CASE ~Cleaning(D, G, td)
    <3>1. PICK d \in G, n \in Names :
            td = <<Step("dir_remove_entry", d, n, Fatal), Step("free_inode", c.victim, 0, Ignored)>>
      BY <1>5, <2>2, DeletingFunction
    <3>2. Head(td) = Step("dir_remove_entry", d, n, Fatal)
      BY <3>1, Tuples
    <3>3. FailList(td) = << >>
      BY <3>2, FailsOf
    <3> QED
      BY <1>2, <1>5, <3>3
  <2> QED
    BY <2>1, <2>2
<1>6. CASE c.op = "rename" /\ Renaming(D, G, td)
  <2>1. PICK d \in G, to \in G, i \in G, n \in Names, m \in Names, t \in Modes, k \in Slots :
          RenamesWith(D, G, d, to, i, n, m, t, k, td)
    BY <1>1, <1>6, RenamingFunction DEF Sound
  <2> DEFINE a == Step("dir_add_entry", to, Entry(i, t, m), Fatal)
             u == Step("update_dots", i, to, Fatal)
             r == Step("dir_remove_entry", d, n, Fatal)
             rest == RenameRest(d, n, to, i, t)
  <2>2. /\ r.do \notin {"dir_add_entry", "inode"} /\ u.do \notin {"dir_add_entry", "inode"}
    BY DEF Step
  <2>3. a \in StepT /\ rest \in Seq(StepT) /\ a.err = Fatal
    BY EntryTyped, ErrsTyped, CallsTyped, RestTyped DEF Step
  <2>4. (Unique(D, G, {}) /\ td = <<a>> \o rest) \/ td = <<u, r>> \/ td = <<r>>
    BY <2>1 DEF RenamesWith
  <2> HIDE DEF a, u, r, rest
  <2>5. ~(td = <<u, r>> \/ td = <<r>>)
    BY <1>6, <2>2, TwiceOne DEF Cut
  <2>6. FailList(td) = << >> /\ Unique(D, G, {})
    BY <2>3, <2>4, <2>5, ListOne, FailLists
  <2> QED
    BY <1>1, <1>2, <2>6 DEF Good
<1>7. CASE c.op = "write" /\ Good(D, G) /\ Storing(D, G, td)
  BY <1>7, StoringFunction
<1> QED
  BY <1>1, <1>4, <1>5, <1>6, <1>7

-----------------------------------------------------------------------------
(***************************************************************************)
(* The functions of a call, when nothing goes wrong.                       *)
(***************************************************************************)
LEMMA OneAndTwo ==
  ASSUME NEW b \in StepT, NEW c \in StepT, NEW d \in StepT
  PROVE  <<b>> \o <<c, d>> = <<b, c, d>>
<1>1. <<b, c, d>> = <<b>> \o <<c, d>>
  OBVIOUS
<1> QED
  BY <1>1

LEMMA TwoAndTwo ==
  ASSUME NEW a \in StepT, NEW b \in StepT, NEW c \in StepT, NEW d \in StepT
  PROVE  <<a, b>> \o <<c, d>> = <<a, b, c, d>>
<1> DEFINE r == <<c, d>>
<1>1. r \in Seq(StepT)
  OBVIOUS
<1>2. <<b>> \o r = <<b, c, d>>
  BY OneAndTwo
<1>3. <<a, b, c, d>> = <<a>> \o <<b, c, d>>
  OBVIOUS
<1> HIDE DEF r
<1>4. <<a, b>> \o r = <<a>> \o (<<b>> \o r)
  BY <1>1, ListTwo
<1>5. <<a, b>> \o r = <<a, b, c, d>>
  BY <1>2, <1>3, <1>4
<1> QED
  BY <1>5 DEF r

LEMMA AddBecomes ==
  ASSUME disk \in DiskT, NEW G \in SUBSET Inodes, Apart(disk, G), NEW d \in G,
         disk.node[d].mode = "dir", disk.node[d].size < MAX_ENTRIES, NEW e \in EntryT,
         NEW err \in Errs, NEW rest \in Seq(StepT), NEW b,
         disk.node[d].block = 0 => b \in Blocks /\ b \notin disk.bbit, Fresh(disk, d, e)
  PROVE  LET p == IF disk.node[d].block = 0 THEN b ELSE disk.node[d].block
         IN  p \in Blocks /\ Adding(disk, G, d, e, p, err, rest, dir_add_entry(d, e, b, err) \o rest)
<1> DEFINE n == disk.node[d]
           p == IF n.block = 0 THEN b ELSE n.block
           s == n.size
           a1 == bitmap_set_block(p, TRUE, err)
           a2 == zero_block(p, err)
           a3 == write_slot(p, s, e, err)
           a4 == write_inode(d, Counted(n, p), Ignored)
           te == dir_add_entry(d, e, b, err)
<1>1. d \in Inodes /\ n \in NodeT /\ s \in 0 .. MAX_ENTRIES /\ (n.block # 0 => n.block \in Blocks)
  BY SlotTyped
<1>2. s \in Slots /\ p \in Blocks /\ p # 0
  BY <1>1, DiskAssumption DEF Slots, Blocks
<1>3. Counted(n, p) \in NodeT /\ [n EXCEPT !.size = @ + 1, !.block = p] = Counted(n, p)
  BY <1>1, <1>2, NodeUpdates
<1>4. a1 \in StepT /\ a2 \in StepT /\ a3 \in StepT /\ a4 \in StepT
  BY <1>1, <1>2, <1>3, ErrsTyped, WritesTyped
<1>5. te = (IF n.block = 0 THEN <<bitmap_set_block(b, TRUE, err), zero_block(b, err)>> ELSE << >>)
           \o <<a3, write_inode(d, [n EXCEPT !.size = @ + 1, !.block = p], Ignored)>>
  BY DEF dir_add_entry, allocate_block
<1>6. te = (IF n.block = 0 THEN <<bitmap_set_block(b, TRUE, err), zero_block(b, err)>> ELSE << >>) \o <<a3, a4>>
  BY <1>3, <1>5
<1>7. n.block = 0 => p = b /\ b \notin Owned(disk, G)
  BY OwnedApart, <1>2
<1>8. n.block = 0 => te = <<a1, a2>> \o <<a3, a4>>
  BY <1>6, <1>7
<1>9. n.block # 0 => te = << >> \o <<a3, a4>>
  BY <1>6
<1>10. Takes(disk, G, d, p) /\ Fresh(disk, d, e)
  BY <1>7 DEF Takes
<1> HIDE DEF a1, a2, a3, a4, te
<1>11. CASE n.block = 0
  <2>1. te \o rest = <<a1, a2, a3, a4>> \o rest
    <3>1. <<a1, a2>> \o <<a3, a4>> = <<a1, a2, a3, a4>>
      BY <1>4, TwoAndTwo
    <3> QED
      BY <1>8, <1>11, <3>1
  <2>2. Adding(disk, G, d, e, p, err, rest, te \o rest)
    <3> HIDE DEF p
    <3> QED
      BY <1>10, <1>11, <2>1 DEF Adding, a1, a2, a3, a4
  <2> QED
    BY <1>2, <2>2 DEF te
<1>12. CASE n.block # 0
  <2>1. te \o rest = <<a3, a4>> \o rest
    <3>1. << >> \o <<a3, a4>> = <<a3, a4>>
      OBVIOUS
    <3> QED
      BY <1>9, <1>12, <3>1
  <2>2. Adding(disk, G, d, e, p, err, rest, te \o rest)
    <3> HIDE DEF p
    <3> QED
      BY <1>10, <1>12, <2>1 DEF Adding, a3, a4
  <2> QED
    BY <1>2, <2>2 DEF te
<1> QED
  BY <1>11, <1>12

LEMMA FreeBecomes ==
  ASSUME disk \in DiskT, NEW G \in SUBSET Inodes, NEW i \in Inodes \ G,
         disk.node[i].block # 0 => disk.node[i].block \notin Owned(disk, G)
  PROVE  Cleaning(disk, G, free_inode(i) \o << >>)
<1> DEFINE n == disk.node[i]
           frees == n.size > 0 /\ n.block # 0
           m == IF frees THEN [n EXCEPT !.block = 0] ELSE n
           z == bitmap_set_block(n.block, FALSE, Ignored)
           x == bitmap_set_inode(i, FALSE, Ignored)
           y == write_inode(i, m, Ignored)
<1>1. n \in NodeT /\ (n.block # 0 => n.block \in Blocks)
  BY SlotTyped
<1>2. m \in NodeT
  BY <1>1, NodeUpdates
<1>3. free_inode(i) = (IF frees THEN <<z>> ELSE << >>) \o <<x, y>>
  BY DEF free_inode
<1>4. x \in StepT /\ y \in StepT /\ (frees => z \in StepT)
  BY <1>1, <1>2, ErrsTyped, WritesTyped
<1>5. frees => n.block \in Blocks \ Owned(disk, G)
  BY <1>1
<1> HIDE DEF m, n
<1>6. CASE frees
  <2>1. n.block \in Blocks \ Owned(disk, G)
    BY <1>5, <1>6
  <2>2. Cleaning(disk, G, <<z, x, y>>)
    BY <1>2, <2>1 DEF Cleaning
  <2>3. z \in StepT /\ free_inode(i) = <<z>> \o <<x, y>>
    BY <1>3, <1>4, <1>6
  <2> HIDE DEF x, y, z
  <2>4. <<z>> \o <<x, y>> = <<z, x, y>> /\ <<z, x, y>> \in Seq(StepT)
    <3>1. <<z, x, y>> \in Seq(StepT)
      BY <1>4, <2>3
    <3> QED
      BY <1>4, <2>3, <3>1, OneAndTwo
  <2>5. <<z, x, y>> \o << >> = <<z, x, y>>
    BY <2>4, ConcatEmptySeq
  <2> QED
    BY <2>2, <2>3, <2>4, <2>5
<1>7. CASE ~frees
  <2>2. Cleaning(disk, G, <<x, y>>)
    BY <1>2 DEF Cleaning
  <2>3. free_inode(i) = << >> \o <<x, y>>
    BY <1>3, <1>7
  <2> HIDE DEF x, y
  <2>4. << >> \o <<x, y>> = <<x, y>> /\ <<x, y>> \in Seq(StepT)
    BY <1>4
  <2>5. <<x, y>> \o << >> = <<x, y>>
    BY <2>4, ConcatEmptySeq
  <2> QED
    BY <2>2, <2>3, <2>4, <2>5
<1> QED
  BY <1>6, <1>7

\* dir_add_entry() is refused, or its writes are to do.
LEMMA AddSucceeds ==
  ASSUME Typed, run_dir_add_entry, scars' \subseteq {"wiped"}, NEW G \in SUBSET Inodes, Apart(disk, G), Arg.at \in G
  PROVE  /\ disk' = disk /\ fs_mounted' = fs_mounted /\ call' = CallOf(call, todo') /\ scars' = scars
         /\ \/ /\ todo' = FailList(todo)
               /\ \/ disk.node[Arg.at].mode # "dir" \/ disk.node[Arg.at].size >= MAX_ENTRIES
                  \/ \E l \in LiveIn(disk, Arg.at) : SlotIn(disk, Arg.at, l).name = Arg.val.name
                  \/ disk.node[Arg.at].block = 0 /\ Blocks \subseteq disk.bbit
            \/ LET d == Arg.at
               IN  \E p \in Blocks : /\ disk.node[d].block # 0 => p = disk.node[d].block
                                     /\ Adding(disk, G, d, Arg.val, p, Arg.err, Tail(todo), todo')
<1>1. todo # << >> /\ Arg.do = "dir_add_entry" /\ Arg = Head(todo)
  BY DEF run_dir_add_entry, At, Arg
<1>2. Arg \in StepT /\ Tail(todo) \in Seq(StepT) /\ disk \in DiskT
  BY <1>1, HeadTyped DEF Typed
<1>3. Arg.at \in Inodes /\ Arg.val \in EntryT /\ Arg.err \in Errs
  BY <1>1, <1>2, StepFields DEF AtOf, ValOf, OnBlock, OnInode
<1> DEFINE d == Arg.at
           n == disk.node[d]
<1>4. n \in NodeT /\ n.size \in Nat
  BY <1>2, <1>3, SlotTyped
<1>5. /\ IsDir(d) <=> n.mode = "dir"
      /\ Find(d, Arg.val.name) # {} <=> \E l \in LiveIn(disk, d) : SlotIn(disk, d, l).name = Arg.val.name
  BY DiskNames DEF Find
<1>6. CASE Refuses /\ (~IsDir(d) \/ Find(d, Arg.val.name) # {} \/ ~HasRoom(d) \/ (NeedsBlock /\ Blocks \subseteq disk.bbit))
  <2>1. todo' = FailList(todo) /\ call' = CallOf(call, todo')
    BY <1>1, <1>6 DEF Refuses, Fails, Goes, FailList, CallOf
  <2>2. disk' = disk /\ fs_mounted' = fs_mounted /\ scars' = scars
    BY <1>6 DEF Refuses, TookNone
  <2>3. \/ n.mode # "dir" \/ n.size >= MAX_ENTRIES
        \/ \E l \in LiveIn(disk, d) : SlotIn(disk, d, l).name = Arg.val.name
        \/ n.block = 0 /\ Blocks \subseteq disk.bbit
    BY <1>4, <1>5, <1>6, DiskAssumption DEF HasRoom, NeedsBlock
  <2> QED
    BY <2>1, <2>2, <2>3
<1>7. ASSUME IsDir(d), HasRoom(d), Find(d, Arg.val.name) = {}, NEW b, n.block = 0 => b \in Blocks /\ b \notin disk.bbit,
             Becomes(dir_add_entry(d, Arg.val, b, Arg.err))
      PROVE  /\ disk' = disk /\ fs_mounted' = fs_mounted /\ call' = CallOf(call, todo')
             /\ \E p \in Blocks : /\ n.block # 0 => p = n.block
                                  /\ Adding(disk, G, d, Arg.val, p, Arg.err, Tail(todo), todo')
  <2>1. n.mode = "dir" /\ n.size < MAX_ENTRIES
    BY <1>5, <1>7 DEF HasRoom
  <2>2. todo' = dir_add_entry(d, Arg.val, b, Arg.err) \o Tail(todo) /\ call' = CallOf(call, todo')
    BY <1>7 DEF Becomes, Goes, CallOf
  <2>3. disk' = disk /\ fs_mounted' = fs_mounted
    BY <1>7 DEF Becomes
  <2> DEFINE p == IF n.block = 0 THEN b ELSE n.block
  <2>4. p \in Blocks /\ Adding(disk, G, d, Arg.val, p, Arg.err, Tail(todo), todo')
    <3>1. Fresh(disk, d, Arg.val)
      BY <1>5, <1>7 DEF Fresh
    <3> QED
      BY <1>2, <1>3, <1>7, <2>1, <2>2, <3>1, AddBecomes
  <2>5. n.block # 0 => p = n.block
    OBVIOUS
  <2> HIDE DEF p
  <2> QED
    BY <2>2, <2>3, <2>4, <2>5
<1>8. ASSUME IsDir(d), HasRoom(d), Find(d, Arg.val.name) = {}, ~NeedsBlock,
             Becomes(dir_add_entry(d, Arg.val, 0, Arg.err)), TookNone
      PROVE  /\ disk' = disk /\ fs_mounted' = fs_mounted /\ call' = CallOf(call, todo') /\ scars' = scars
             /\ \E p \in Blocks : /\ n.block # 0 => p = n.block
                                  /\ Adding(disk, G, d, Arg.val, p, Arg.err, Tail(todo), todo')
  BY <1>7, <1>8 DEF NeedsBlock, TookNone
<1>9. ASSUME IsDir(d), HasRoom(d), Find(d, Arg.val.name) = {}, NEW b \in Scan(Blocks, disk.bbit),
             Becomes(dir_add_entry(d, Arg.val, b, Arg.err)), Took(b, disk.bbit)
      PROVE  /\ disk' = disk /\ fs_mounted' = fs_mounted /\ call' = CallOf(call, todo') /\ scars' = scars
             /\ \E p \in Blocks : /\ n.block # 0 => p = n.block
                                  /\ Adding(disk, G, d, Arg.val, p, Arg.err, Tail(todo), todo')
  <2>1. Blocks \in SUBSET Nat /\ disk.bbit \in SUBSET Blocks
    BY <1>2, BitsTyped
  <2>2. b \in Blocks
    BY <2>1, ScanTyped
  <2>3. scars' = scars /\ b \notin disk.bbit
    BY <1>9, <2>1, TookTyped
  <2> QED
    BY <1>7, <1>9, <2>2, <2>3
<1> HIDE DEF d, n
<1>10. run_dir_add_entry =>
         \/ Refuses /\ (~IsDir(d) \/ Find(d, Arg.val.name) # {} \/ ~HasRoom(d) \/ (NeedsBlock /\ Blocks \subseteq disk.bbit))
         \/ /\ IsDir(d) /\ HasRoom(d) /\ Find(d, Arg.val.name) = {} /\ ~NeedsBlock
             /\ Becomes(dir_add_entry(d, Arg.val, 0, Arg.err)) /\ TookNone
         \/ /\ IsDir(d) /\ HasRoom(d) /\ Find(d, Arg.val.name) = {}
            /\ \E b \in Scan(Blocks, disk.bbit) :
                 Becomes(dir_add_entry(d, Arg.val, b, Arg.err)) /\ Took(b, disk.bbit)
         \/ "misread" \in scars'
  BY DEF run_dir_add_entry, d
<1> QED
  BY <1>6, <1>8, <1>9, <1>10 DEF d, n

LEMMA NotTwice ==
  ASSUME NEW td \in Seq(StepT), td # << >>, Head(td).do \in {"dir_add_entry", "inode"}
  PROVE  ~Twice(td)
<1>1. 1 \in DOMAIN td /\ Head(td) = td[1]
  BY EmptySeq, LenProperties
<1> QED
  BY <1>1 DEF Twice

LEMMA RunAddWorks ==
  ASSUME Typed, run_dir_add_entry, scars' \subseteq {"wiped"}, NEW G \in SUBSET Inodes, Works(disk, G, call, todo)
  PROVE  disk' = disk /\ fs_mounted' = fs_mounted /\ call' = CallOf(call, todo') /\ Going(disk, call, todo')
<1>1. todo # << >> /\ Arg.do = "dir_add_entry" /\ Arg = Head(todo)
  BY DEF run_dir_add_entry, At, Arg
<1>2. Arg \in StepT /\ todo \in Seq(StepT) /\ disk \in DiskT
  BY <1>1, HeadTyped DEF Typed
<1>3. Head(todo).do \in Functions
  BY <1>1 DEF Functions
<1>4. /\ disk.super /\ Sound(disk, G) /\ Protected(disk)
      /\ \/ call.op = "create" /\ Good(disk, G) /\ Creating(disk, G, todo)
         \/ call.op = "delete" /\ Good(disk, G) /\ Deleting(disk, G, call.victim, todo)
         \/ call.op = "write" /\ Good(disk, G) /\ Storing(disk, G, todo)
         \/ call.op = "rename" /\ Renaming(disk, G, todo)
  BY <1>1, WorksCases
<1>5. Apart(disk, G)
  BY <1>4 DEF Sound
<1>6. ASSUME todo' = FailList(todo) PROVE Going(disk, call, todo')
  <2>1. ~Cut(call, todo)
    BY <1>1, <1>2, NotTwice DEF Cut
  <2> QED
    BY <1>1, <1>2, <1>3, <1>6, <2>1, WorksFail
<1>7. ~Cleaning(disk, G, todo)
  <2>1. SUFFICES ASSUME Cleaning(disk, G, todo) PROVE FALSE
    OBVIOUS
  <2>2. PICK i \in Inodes \ G : todo = <<Step("free_inode", i, 0, Ignored)>>
    BY <1>3, <2>1, CleaningFunction
  <2>3. Head(todo) = Step("free_inode", i, 0, Ignored)
    BY <2>2, Tuples
  <2> QED
    BY <1>1, <2>3 DEF Step
<1>8. CASE call.op = "create" /\ Good(disk, G) /\ Creating(disk, G, todo)
  <2>1. PICK i \in Inodes \ G, d \in G, n \in Names, t \in Types :
          /\ i \in disk.ibit /\ disk.node[i] = NewInode(t)
          /\ todo = <<Step("dir_add_entry", d, Entry(i, t, n), Undo(i))>>
    BY <1>2, <1>3, <1>7, <1>8, CreatingFunction
  <2>2. Head(todo) = Step("dir_add_entry", d, Entry(i, t, n), Undo(i)) /\ Tail(todo) = << >>
    BY <2>1, Tuples
  <2>3. Arg.at = d /\ Arg.val = Entry(i, t, n) /\ Arg.err = Undo(i)
    BY <1>1, <2>2 DEF Step
  <2>4. ASSUME NEW p \in Blocks, Adding(disk, G, Arg.at, Arg.val, p, Arg.err, Tail(todo), todo')
        PROVE  Going(disk, call, todo')
    <3>1. Adding(disk, G, d, Entry(i, t, n), p, Undo(i), << >>, todo')
      BY <2>2, <2>3, <2>4
    <3>2. Creating(disk, G, todo')
      BY <2>1, <2>4, <3>1 DEF Creating
    <3> QED
      BY <1>4, <1>8, <3>2, GoingOn
  <2> QED
    BY <1>5, <1>6, <2>3, <2>4, AddSucceeds
<1>9. CASE call.op = "rename" /\ Renaming(disk, G, todo)
  <2>1. PICK d \in G, to \in G, i \in G, n \in Names, m \in Names, t \in Modes, k \in Slots :
          RenamesWith(disk, G, d, to, i, n, m, t, k, todo)
    BY <1>2, <1>3, <1>5, <1>9, RenamingFunction
  <2> DEFINE a == Step("dir_add_entry", to, Entry(i, t, m), Fatal)
             u == Step("update_dots", i, to, Fatal)
             r == Step("dir_remove_entry", d, n, Fatal)
             rest == RenameRest(d, n, to, i, t)
  <2>2. r.do # "dir_add_entry" /\ u.do # "dir_add_entry"
    BY DEF Step
  <2>3. a \in StepT /\ rest \in Seq(StepT) /\ rest # << >> /\ a.err = Fatal /\ a.at = to /\ a.val = Entry(i, t, m)
    BY EntryTyped, ErrsTyped, CallsTyped, RestTyped DEF Step
  <2>4. Moving(disk, G, d, n, k, to, i, t) /\ ((Unique(disk, G, {}) /\ todo = <<a>> \o rest) \/ todo = <<u, r>> \/ todo = <<r>>)
    BY <2>1 DEF RenamesWith
  <2> HIDE DEF a, u, r, rest
  <2>5. todo # <<u, r>> /\ todo # <<r>>
    BY <1>1, <2>2, Tuples
  <2>6. Unique(disk, G, {}) /\ todo = <<a>> \o rest
    BY <2>4, <2>5
  <2>7. Arg = a /\ Tail(todo) = rest
    BY <1>1, <2>3, <2>6, ListOne
  <2>8. ASSUME NEW p \in Blocks, Adding(disk, G, Arg.at, Arg.val, p, Arg.err, Tail(todo), todo')
        PROVE  Going(disk, call, todo')
    <3>1. Adding(disk, G, to, Entry(i, t, m), p, Fatal, rest, todo')
      BY <2>3, <2>7, <2>8
    <3>2. Renaming(disk, G, todo')
      BY <2>4, <2>6, <2>8, <3>1 DEF Renaming, rest
    <3>3. todo' # << >>
      <4>1. Entry(i, t, m) \in EntryT /\ Fatal \in Errs
        BY EntryTyped, ErrsTyped
      <4>2. AddGoes(disk, PutOn(disk, Head(todo')), G, to, Entry(i, t, m), p, Fatal, rest, todo')
        BY <1>2, <1>5, <2>3, <2>8, <3>1, <4>1, AddingWrites
      <4> QED
        BY <4>2 DEF AddGoes
    <3> QED
      BY <1>4, <1>9, <3>2, <3>3, GoingRename
  <2> QED
    BY <1>5, <1>6, <2>3, <2>7, <2>8, AddSucceeds
<1>10. CASE call.op = "delete" /\ Good(disk, G) /\ Deleting(disk, G, call.victim, todo)
  <2>1. PICK d \in G, n \in Names :
          todo = <<Step("dir_remove_entry", d, n, Fatal), Step("free_inode", call.victim, 0, Ignored)>>
    BY <1>3, <1>7, <1>10, DeletingFunction
  <2>2. Head(todo) = Step("dir_remove_entry", d, n, Fatal)
    BY <2>1, Tuples
  <2> QED
    BY <1>1, <2>2 DEF Step
<1>11. CASE call.op = "write" /\ Good(disk, G) /\ Storing(disk, G, todo)
  BY <1>3, <1>11, StoringFunction
<1> QED
  BY <1>4, <1>8, <1>9, <1>10, <1>11

LEMMA ListPair ==
  ASSUME NEW a \in StepT, NEW b \in StepT
  PROVE  <<a>> \o <<b>> = <<a, b>> /\ <<a>> \o << >> = <<a>>
<1>1. << >> \in Seq(StepT) /\ <<b>> \in Seq(StepT) /\ <<a>> \in Seq(StepT) /\ <<a, b>> \in Seq(StepT)
  OBVIOUS
<1>2. <<a, b>> \o << >> = <<a>> \o (<<b>> \o << >>)
  BY <1>1, ListTwo
<1>3. <<a, b>> \o << >> = <<a, b>> /\ <<b>> \o << >> = <<b>> /\ <<a>> \o << >> = <<a>>
  BY <1>1, ConcatEmptySeq
<1> QED
  BY <1>2, <1>3

LEMMA FoundFirst ==
  ASSUME disk \in DiskT, NEW d \in Inodes, NEW n, NEW k, NEW i, FoundAt(disk, d, n, k, i)
  PROVE  Find(d, n) # {} /\ First(Find(d, n)) = k /\ k \in Find(d, n) /\ SlotOf(d, k).inode = i
<1>1. k \in Find(d, n) /\ SlotOf(d, k).inode = i
  BY DiskNames DEF Find, FoundAt
<1>2. /\ First(Find(d, n)) \in LiveIn(disk, d) /\ First(Find(d, n)) \in Slots
      /\ SlotIn(disk, d, First(Find(d, n))).name = n
      /\ \A l \in LiveIn(disk, d) : SlotIn(disk, d, l).name = n => First(Find(d, n)) <= l
  BY <1>1, FindTyped
<1>3. k \in Slots /\ LiveIn(disk, d) \subseteq Slots
  BY SlotTyped DEF FoundAt
<1>4. k <= First(Find(d, n)) /\ First(Find(d, n)) <= k
  BY <1>2 DEF FoundAt
<1>5. k = First(Find(d, n))
  BY <1>2, <1>3, <1>4, DiskAssumption DEF Slots
<1> QED
  BY <1>1, <1>5

LEMMA RunRemoveWorks ==
  ASSUME Typed, run_dir_remove_entry, scars' \subseteq {"wiped"}, NEW G \in SUBSET Inodes,
         Works(disk, G, call, todo)
  PROVE  disk' = disk /\ fs_mounted' = fs_mounted /\ call' = CallOf(call, todo') /\ Going(disk, call, todo')
<1>1. todo # << >> /\ Arg.do = "dir_remove_entry" /\ Arg = Head(todo)
  BY DEF run_dir_remove_entry, At, Arg
<1>2. Arg \in StepT /\ todo \in Seq(StepT) /\ disk \in DiskT
  BY <1>1, HeadTyped DEF Typed
<1>3. Head(todo).do \in Functions
  BY <1>1 DEF Functions
<1>4. /\ disk.super /\ Sound(disk, G) /\ Protected(disk)
      /\ \/ call.op = "create" /\ Good(disk, G) /\ Creating(disk, G, todo)
         \/ call.op = "delete" /\ Good(disk, G) /\ Deleting(disk, G, call.victim, todo)
         \/ call.op = "write" /\ Good(disk, G) /\ Storing(disk, G, todo)
         \/ call.op = "rename" /\ Renaming(disk, G, todo)
  BY <1>1, WorksCases
<1>5. Apart(disk, G)
  BY <1>4 DEF Sound
<1>6. ~Cleaning(disk, G, todo)
  <2>1. SUFFICES ASSUME Cleaning(disk, G, todo) PROVE FALSE
    OBVIOUS
  <2>2. PICK i \in Inodes \ G : todo = <<Step("free_inode", i, 0, Ignored)>>
    BY <1>3, <2>1, CleaningFunction
  <2>3. Head(todo) = Step("free_inode", i, 0, Ignored)
    BY <2>2, Tuples
  <2> QED
    BY <1>1, <2>3 DEF Step
\* The entry is found where it was.
<1>7. ASSUME NEW d \in G, NEW n \in Names, NEW k \in Slots, NEW i, FoundAt(disk, d, n, k, i), ~disk.node[i].prot,
             Arg = Step("dir_remove_entry", d, n, Fatal)
      PROVE  /\ disk' = disk /\ fs_mounted' = fs_mounted /\ call' = CallOf(call, todo')
             /\ todo' = <<write_slot(disk.node[d].block, k, NoEntry, Fatal)>> \o Tail(todo)
             /\ write_slot(disk.node[d].block, k, NoEntry, Fatal) \in StepT
  <2>1. Arg.at = d /\ Arg.val = n /\ Arg.err = Fatal
    BY <1>7 DEF Step
  <2>2. First(Find(d, n)) = k /\ k \in Find(d, n) /\ SlotOf(d, k).inode = i
    BY <1>2, <1>7, FoundFirst
  <2>3. Removable(Arg.at, Arg.val)
    BY <1>7, <2>1, <2>2 DEF Removable
  <2>4. Becomes(<<write_slot(disk.node[d].block, k, NoEntry, Fatal)>>)
    BY <2>1, <2>2, <2>3 DEF run_dir_remove_entry
  <2>5. disk.node[d].block \in Blocks
    BY <1>2, <1>7, SlotTyped DEF FoundAt
  <2>6. write_slot(disk.node[d].block, k, NoEntry, Fatal) \in StepT
    BY <1>7, <2>5, ErrsTyped, NoEntryTyped, WritesTyped
  <2> QED
    BY <2>4, <2>6 DEF Becomes, Goes, CallOf
<1>8. CASE call.op = "delete" /\ Good(disk, G) /\ Deleting(disk, G, call.victim, todo)
  <2>1. PICK d \in G, n \in Names, k \in Slots :
          /\ FoundAt(disk, d, n, k, call.victim) /\ ~disk.node[call.victim].prot
          /\ todo = <<Step("dir_remove_entry", d, n, Fatal), Step("free_inode", call.victim, 0, Ignored)>>
    BY <1>3, <1>6, <1>8, DeletingFunction
  <2> DEFINE w == write_slot(disk.node[d].block, k, NoEntry, Fatal)
             f == Step("free_inode", call.victim, 0, Ignored)
             r == Step("dir_remove_entry", d, n, Fatal)
  <2>2. todo = <<r, f>>
    BY <2>1
  <2>3. Head(todo) = r /\ Tail(todo) = <<f>>
    <3> HIDE DEF r, f
    <3> QED
      BY <2>2, Tuples
  <2>4. /\ disk' = disk /\ fs_mounted' = fs_mounted /\ call' = CallOf(call, todo')
        /\ todo' = <<w>> \o Tail(todo) /\ w \in StepT
    BY <1>1, <1>7, <2>1, <2>3
  <2>5. call.victim \in Inodes
    BY <1>2, <2>1, SlotTyped DEF FoundAt
  <2>6. f \in StepT
    BY <2>5, ErrsTyped, CallsTyped
  <2>7. Deleting(disk, G, call.victim, <<w, f>>)
    BY <2>1 DEF Deleting
  <2> HIDE DEF w, f
  <2>8. todo' = <<w, f>>
    BY <2>3, <2>4, <2>6, ListPair
  <2>9. Going(disk, call, todo')
    BY <1>4, <1>8, <2>7, <2>8, GoingOn
  <2> QED
    BY <2>4, <2>9
<1>9. CASE call.op = "rename" /\ Renaming(disk, G, todo)
  <2>1. PICK d \in G, to \in G, i \in G, n \in Names, m \in Names, t \in Modes, k \in Slots :
          RenamesWith(disk, G, d, to, i, n, m, t, k, todo)
    BY <1>2, <1>3, <1>5, <1>9, RenamingFunction
  <2> DEFINE a == Step("dir_add_entry", to, Entry(i, t, m), Fatal)
             u == Step("update_dots", i, to, Fatal)
             r == Step("dir_remove_entry", d, n, Fatal)
             w == write_slot(disk.node[d].block, k, NoEntry, Fatal)
             rest == RenameRest(d, n, to, i, t)
  <2>2. a.do # "dir_remove_entry" /\ u.do # "dir_remove_entry"
    BY DEF Step
  <2>3. a \in StepT /\ rest \in Seq(StepT)
    BY EntryTyped, ErrsTyped, CallsTyped, RestTyped
  <2>4. /\ Moving(disk, G, d, n, k, to, i, t)
        /\ todo = <<a>> \o rest \/ todo = <<u, r>> \/ (todo = <<r>> /\ Doubled(disk, G, d, k, to, i))
    BY <2>1 DEF RenamesWith
  <2>5. todo = <<r>> /\ Doubled(disk, G, d, k, to, i) /\ Head(todo) = r /\ Tail(todo) = << >>
    <3> HIDE DEF a, u, r, rest
    <3>1. todo # <<a>> \o rest /\ todo # <<u, r>>
      BY <1>1, <2>2, <2>3, Tuples, ListOne
    <3> QED
      BY <2>4, <3>1, Tuples
  <2>6. FoundAt(disk, d, n, k, i) /\ ~disk.node[i].prot
    BY <2>4 DEF Moving
  <2>7. /\ disk' = disk /\ fs_mounted' = fs_mounted /\ call' = CallOf(call, todo')
        /\ todo' = <<w>> \o Tail(todo) /\ w \in StepT
    BY <1>1, <1>7, <2>1, <2>5, <2>6
  <2>8. Renaming(disk, G, <<w>>)
    BY <2>1, <2>4, <2>5 DEF Renaming
  <2> HIDE DEF w
  <2>9. todo' = <<w>> /\ todo' # << >>
    BY <2>5, <2>7, ListPair, Tuples
  <2>10. Going(disk, call, todo')
    BY <1>4, <1>9, <2>8, <2>9, GoingRename
  <2> QED
    BY <2>7, <2>10
<1>10. CASE call.op = "create" /\ Good(disk, G) /\ Creating(disk, G, todo)
  <2>1. PICK i \in Inodes \ G, d \in G, n \in Names, t \in Types :
          todo = <<Step("dir_add_entry", d, Entry(i, t, n), Undo(i))>>
    BY <1>2, <1>3, <1>6, <1>10, CreatingFunction
  <2>2. Head(todo) = Step("dir_add_entry", d, Entry(i, t, n), Undo(i))
    BY <2>1, Tuples
  <2> QED
    BY <1>1, <2>2 DEF Step
<1>11. CASE call.op = "write" /\ Good(disk, G) /\ Storing(disk, G, todo)
  BY <1>3, <1>11, StoringFunction
<1> QED
  BY <1>4, <1>8, <1>9, <1>10, <1>11

LEMMA UpdateDotsWorks ==
  ASSUME Typed, update_dots, scars' \subseteq {"wiped"}, NEW G \in SUBSET Inodes, Works(disk, G, call, todo)
  PROVE  disk' = disk /\ fs_mounted' = fs_mounted /\ call' = CallOf(call, todo') /\ Going(disk, call, todo')
<1>1. todo # << >> /\ Arg.do = "update_dots" /\ Arg = Head(todo)
  BY DEF update_dots, At, Arg
<1>2. Arg \in StepT /\ todo \in Seq(StepT) /\ disk \in DiskT
  BY <1>1, HeadTyped DEF Typed
<1>3. Head(todo).do \in Functions
  BY <1>1 DEF Functions
<1>4. /\ disk.super /\ Sound(disk, G) /\ Protected(disk)
      /\ \/ call.op = "create" /\ Good(disk, G) /\ Creating(disk, G, todo)
         \/ call.op = "delete" /\ Good(disk, G) /\ Deleting(disk, G, call.victim, todo)
         \/ call.op = "write" /\ Good(disk, G) /\ Storing(disk, G, todo)
         \/ call.op = "rename" /\ Renaming(disk, G, todo)
  BY <1>1, WorksCases
<1>5. Apart(disk, G)
  BY <1>4 DEF Sound
<1>6. ~Cleaning(disk, G, todo)
  <2>1. SUFFICES ASSUME Cleaning(disk, G, todo) PROVE FALSE
    OBVIOUS
  <2>2. PICK i \in Inodes \ G : todo = <<Step("free_inode", i, 0, Ignored)>>
    BY <1>3, <2>1, CleaningFunction
  <2>3. Head(todo) = Step("free_inode", i, 0, Ignored)
    BY <2>2, Tuples
  <2> QED
    BY <1>1, <2>3 DEF Step
<1>7. CASE call.op = "rename" /\ Renaming(disk, G, todo)
  <2>1. PICK d \in G, to \in G, i \in G, n \in Names, m \in Names, t \in Modes, k \in Slots :
          RenamesWith(disk, G, d, to, i, n, m, t, k, todo)
    BY <1>2, <1>3, <1>5, <1>7, RenamingFunction
  <2> DEFINE a == Step("dir_add_entry", to, Entry(i, t, m), Fatal)
             u == Step("update_dots", i, to, Fatal)
             r == Step("dir_remove_entry", d, n, Fatal)
             rest == RenameRest(d, n, to, i, t)
             b == disk.node[i].block
             e == [SlotOf(i, 1) EXCEPT !.inode = to]
             w == write_slot(b, 1, e, Fatal)
  <2>2. a.do # "update_dots" /\ r.do # "update_dots" /\ u.at = i /\ u.val = to /\ u.err = Fatal
    BY DEF Step
  <2>3. a \in StepT /\ rest \in Seq(StepT) /\ r \in StepT
    BY EntryTyped, ErrsTyped, CallsTyped, RestTyped
  <2>4. /\ Moving(disk, G, d, n, k, to, i, t)
        /\ \/ todo = <<a>> \o rest \/ todo = <<r>>
           \/ t = "dir" /\ todo = <<u, r>> /\ Doubled(disk, G, d, k, to, i)
    BY <2>1 DEF RenamesWith
  <2>5. /\ todo = <<u, r>> /\ Doubled(disk, G, d, k, to, i) /\ t = "dir"
        /\ Head(todo) = u /\ Tail(todo) = <<r>>
    <3> HIDE DEF a, u, r, rest
    <3>1. todo # <<a>> \o rest /\ todo # <<r>>
      BY <1>1, <2>2, <2>3, Tuples, ListOne
    <3>2. todo = <<u, r>> /\ Doubled(disk, G, d, k, to, i) /\ t = "dir"
      BY <2>4, <3>1
    <3>3. Head(todo) = u /\ Tail(todo) = <<r>>
      BY <3>2, Tuples
    <3> QED
      BY <3>2, <3>3
  <2>6. Arg.at = i /\ Arg.val = to /\ Arg.err = Fatal
    BY <1>1, <2>2, <2>5
  <2>7. i \in Inodes /\ to \in Inodes /\ to # 0 /\ 1 \in Slots /\ (b # 0 => b \in Blocks)
    BY <1>2, SlotTyped, DiskAssumption DEF Inodes, Slots
  <2>8. CASE b = 0
    <3>1. Becomes(<< >>)
      BY <2>6, <2>8 DEF update_dots
    <3>2. disk' = disk /\ fs_mounted' = fs_mounted /\ todo' = << >> \o <<r>> /\ call' = CallOf(call, todo')
      BY <2>5, <3>1 DEF Becomes, Goes, CallOf
    <3>3. Renaming(disk, G, <<r>>)
      BY <2>1, <2>4, <2>5 DEF Renaming
    <3> HIDE DEF r
    <3>4. todo' = <<r>> /\ todo' # << >>
      BY <3>2, Tuples
    <3>5. Going(disk, call, todo')
      BY <1>4, <1>7, <3>3, <3>4, GoingRename
    <3> QED
      BY <3>2, <3>5
  <2>9. CASE b # 0
    <3>1. /\ Becomes(<<w>>) /\ scars' = IF 1 \in Live(i) THEN scars \cup {"dots"} ELSE scars
      BY <2>6, <2>9 DEF update_dots
    <3>2. disk' = disk /\ fs_mounted' = fs_mounted /\ todo' = <<w>> \o <<r>> /\ call' = CallOf(call, todo')
      BY <2>5, <3>1 DEF Becomes, Goes, CallOf
    <3>3. 1 \notin LiveIn(disk, i)
      BY <3>1, DiskNames
    <3>4. SlotOf(i, 1) = SlotIn(disk, i, 1) /\ SlotIn(disk, i, 1) \in EntryT
      BY <1>2, <2>7, <2>9, SlotTyped, DiskNames
    <3>5. e \in EntryT /\ e.name = SlotIn(disk, i, 1).name
      BY <2>7, <3>4 DEF EntryT, Inodes
    <3>6. disk.node[i].size \in Nat /\ disk.node[i].mode = "dir"
      BY <1>2, <2>4, <2>5, <2>7, SlotTyped DEF Moving
    <3>7. disk.node[i].size <= 1 \/ e.name \in Dots
      <4>1. CASE disk.node[i].size > 1
        <5>1. 1 \in 0 .. (disk.node[i].size - 1)
          BY <3>6, <4>1
        <5>2. SlotIn(disk, i, 1).inode = 0 \/ SlotIn(disk, i, 1).name \in Dots
          BY <2>9, <3>3, <3>6, <5>1 DEF LiveIn
        <5>3. SlotIn(disk, i, 1).inode = 0 => SlotIn(disk, i, 1).name = NoName
          BY <3>4 DEF EntryT
        <5> QED
          BY <3>5, <5>2, <5>3 DEF Dots
      <4> QED
        BY <3>6, <4>1
    <3>8. w \in StepT
      BY <2>7, <2>9, <3>5, ErrsTyped, WritesTyped
    <3> HIDE DEF e
    <3>9. Renaming(disk, G, <<w, r>>)
      BY <2>1, <2>4, <2>5, <2>9, <3>3, <3>5, <3>7 DEF Renaming
    <3> HIDE DEF r, w
    <3>10. todo' = <<w, r>> /\ todo' # << >>
      BY <2>3, <3>2, <3>8, ListPair, Tuples
    <3>11. Going(disk, call, todo')
      BY <1>4, <1>7, <3>9, <3>10, GoingRename
    <3> QED
      BY <3>2, <3>11
  <2> QED
    BY <2>8, <2>9
<1>8. CASE call.op = "delete" /\ Good(disk, G) /\ Deleting(disk, G, call.victim, todo)
  <2>1. PICK d \in G, n \in Names :
          todo = <<Step("dir_remove_entry", d, n, Fatal), Step("free_inode", call.victim, 0, Ignored)>>
    BY <1>3, <1>6, <1>8, DeletingFunction
  <2>2. Head(todo) = Step("dir_remove_entry", d, n, Fatal)
    BY <2>1, Tuples
  <2> QED
    BY <1>1, <2>2 DEF Step
<1>9. CASE call.op = "create" /\ Good(disk, G) /\ Creating(disk, G, todo)
  <2>1. PICK i \in Inodes \ G, d \in G, n \in Names, t \in Types :
          todo = <<Step("dir_add_entry", d, Entry(i, t, n), Undo(i))>>
    BY <1>2, <1>3, <1>6, <1>9, CreatingFunction
  <2>2. Head(todo) = Step("dir_add_entry", d, Entry(i, t, n), Undo(i))
    BY <2>1, Tuples
  <2> QED
    BY <1>1, <2>2 DEF Step
<1>10. CASE call.op = "write" /\ Good(disk, G) /\ Storing(disk, G, todo)
  BY <1>3, <1>10, StoringFunction
<1> QED
  BY <1>4, <1>7, <1>8, <1>9, <1>10

LEMMA RunFreeWorks ==
  ASSUME Typed, run_free_inode, scars' \subseteq {"wiped"}, NEW G \in SUBSET Inodes, Works(disk, G, call, todo)
  PROVE  disk' = disk /\ fs_mounted' = fs_mounted /\ call' = CallOf(call, todo') /\ Going(disk, call, todo')
<1>1. todo # << >> /\ Arg.do = "free_inode" /\ Arg = Head(todo)
  BY DEF run_free_inode, At, Arg
<1>2. Arg \in StepT /\ todo \in Seq(StepT) /\ disk \in DiskT
  BY <1>1, HeadTyped DEF Typed
<1>3. Head(todo).do \in Functions
  BY <1>1 DEF Functions
<1>4. /\ disk.super /\ Sound(disk, G) /\ Protected(disk)
      /\ \/ call.op = "create" /\ Good(disk, G) /\ Creating(disk, G, todo)
         \/ call.op = "delete" /\ Good(disk, G) /\ Deleting(disk, G, call.victim, todo)
         \/ call.op = "write" /\ Good(disk, G) /\ Storing(disk, G, todo)
         \/ call.op = "rename" /\ Renaming(disk, G, todo)
  BY <1>1, WorksCases
<1>5. CASE call.op = "rename" /\ Renaming(disk, G, todo)
  <2>0. Apart(disk, G)
    BY <1>4 DEF Sound
  <2>1. PICK d \in G, to \in G, i \in G, n \in Names, m \in Names, t \in Modes, k \in Slots :
          RenamesWith(disk, G, d, to, i, n, m, t, k, todo)
    BY <1>2, <1>3, <1>5, <2>0, RenamingFunction
  <2> DEFINE a == Step("dir_add_entry", to, Entry(i, t, m), Fatal)
             u == Step("update_dots", i, to, Fatal)
             r == Step("dir_remove_entry", d, n, Fatal)
             rest == RenameRest(d, n, to, i, t)
  <2>2. a.do # "free_inode" /\ r.do # "free_inode" /\ u.do # "free_inode"
    BY DEF Step
  <2>3. a \in StepT /\ rest \in Seq(StepT)
    BY EntryTyped, ErrsTyped, CallsTyped, RestTyped
  <2>4. todo = <<a>> \o rest \/ todo = <<r>> \/ todo = <<u, r>>
    BY <2>1 DEF RenamesWith
  <2> HIDE DEF a, u, r, rest
  <2> QED
    BY <1>1, <2>2, <2>3, <2>4, Tuples, ListOne
<1>6. CASE call.op = "write" /\ Good(disk, G) /\ Storing(disk, G, todo)
  BY <1>3, <1>6, StoringFunction
<1>7. CASE call.op \in {"create", "delete"} /\ Good(disk, G) /\ Cleaning(disk, G, todo)
  <2>1. PICK i \in Inodes \ G : /\ todo = <<Step("free_inode", i, 0, Ignored)>>
                                /\ disk.node[i].block # 0 => disk.node[i].block \notin Owned(disk, G)
    BY <1>3, <1>7, CleaningFunction
  <2>2. Head(todo) = Step("free_inode", i, 0, Ignored) /\ Tail(todo) = << >>
    BY <2>1, Tuples
  <2>3. Arg.at = i
    BY <1>1, <2>2 DEF Step
  <2>4. /\ disk' = disk /\ fs_mounted' = fs_mounted /\ todo' = free_inode(i) \o << >>
        /\ call' = CallOf(call, todo')
    BY <2>2, <2>3 DEF run_free_inode, Becomes, Goes, CallOf
  <2>5. Cleaning(disk, G, todo')
    BY <1>2, <2>1, <2>4, FreeBecomes
  <2>6. Creating(disk, G, todo') /\ Deleting(disk, G, call.victim, todo')
    BY <2>5 DEF Creating, Deleting
  <2>7. Going(disk, call, todo')
    BY <1>4, <1>7, <2>6, GoingOn
  <2> QED
    BY <2>4, <2>7
<1>8. CASE call.op = "create" /\ Good(disk, G) /\ Creating(disk, G, todo) /\ ~Cleaning(disk, G, todo)
  <2>1. PICK i \in Inodes \ G, d \in G, n \in Names, t \in Types :
          todo = <<Step("dir_add_entry", d, Entry(i, t, n), Undo(i))>>
    BY <1>2, <1>3, <1>8, CreatingFunction
  <2>2. Head(todo) = Step("dir_add_entry", d, Entry(i, t, n), Undo(i))
    BY <2>1, Tuples
  <2> QED
    BY <1>1, <2>2 DEF Step
<1>9. CASE call.op = "delete" /\ Good(disk, G) /\ Deleting(disk, G, call.victim, todo) /\ ~Cleaning(disk, G, todo)
  <2>1. PICK d \in G, n \in Names :
          todo = <<Step("dir_remove_entry", d, n, Fatal), Step("free_inode", call.victim, 0, Ignored)>>
    BY <1>3, <1>9, DeletingFunction
  <2>2. Head(todo) = Step("dir_remove_entry", d, n, Fatal)
    BY <2>1, Tuples
  <2> QED
    BY <1>1, <2>2 DEF Step
<1> QED
  BY <1>4, <1>5, <1>6, <1>7, <1>8, <1>9


-----------------------------------------------------------------------------
(***************************************************************************)
(* The calls begin.                                                        *)
(***************************************************************************)
\* But for a rename between its two names, everything has one name.
LEMMA RenamingGood ==
  ASSUME NEW D, NEW G \in SUBSET Inodes, NEW td, Renaming(D, G, td)
  PROVE  Unique(D, G, {}) \/ (td # << >> /\ Twice(td))
<1>1. PICK d \in G, to \in G, i \in G, n \in Names, m \in Names, t \in Modes, k \in Slots :
        \/ Unique(D, G, {})
        \/ t = "dir" /\ td = RenameRest(d, n, to, i, t)
        \/ \E e : td = <<write_slot(D.node[i].block, 1, e, Fatal), Step("dir_remove_entry", d, n, Fatal)>>
        \/ td = <<Step("dir_remove_entry", d, n, Fatal)>>
        \/ td = <<write_slot(D.node[d].block, k, NoEntry, Fatal)>>
  BY DEF Renaming
<1>2. ASSUME t = "dir", td = RenameRest(d, n, to, i, t)
      PROVE  td # << >> /\ Twice(td)
  <2> DEFINE u == Step("update_dots", i, to, Fatal)
             r == Step("dir_remove_entry", d, n, Fatal)
  <2>1. td = <<u, r>>
    BY <1>2, RestTyped
  <2>2. u.do \notin {"dir_add_entry", "inode"} /\ r.do \notin {"dir_add_entry", "inode"}
    BY DEF Step
  <2> HIDE DEF u, r
  <2> QED
    BY <2>1, <2>2, TwiceOne, Tuples
<1>3. ASSUME NEW e, td = <<write_slot(D.node[i].block, 1, e, Fatal), Step("dir_remove_entry", d, n, Fatal)>>
      PROVE  td # << >> /\ Twice(td)
  <2> DEFINE u == write_slot(D.node[i].block, 1, e, Fatal)
             r == Step("dir_remove_entry", d, n, Fatal)
  <2>1. td = <<u, r>>
    BY <1>3
  <2>2. u.do \notin {"dir_add_entry", "inode"} /\ r.do \notin {"dir_add_entry", "inode"}
    BY DEF Step, write_slot
  <2> HIDE DEF u, r
  <2> QED
    BY <2>1, <2>2, TwiceOne, Tuples
<1>4. ASSUME NEW w, w.do \in {"dir_remove_entry", "slot"}, td = <<w>>
      PROVE  td # << >> /\ Twice(td)
  BY <1>4, TwiceOne, Tuples
<1>5. Step("dir_remove_entry", d, n, Fatal).do = "dir_remove_entry"
  BY DEF Step
<1>6. write_slot(D.node[d].block, k, NoEntry, Fatal).do = "slot"
  BY DEF Step, write_slot
<1>7. td = <<Step("dir_remove_entry", d, n, Fatal)>> => td # << >> /\ Twice(td)
  BY <1>4, <1>5
<1>8. td = <<write_slot(D.node[d].block, k, NoEntry, Fatal)>> => td # << >> /\ Twice(td)
  BY <1>4, <1>6
<1> QED
  BY <1>1, <1>2, <1>3, <1>7, <1>8

LEMMA WorksGood ==
  ASSUME NEW D, NEW G \in SUBSET Inodes, NEW c, NEW td, Works(D, G, c, td)
  PROVE  D.super /\ (Good(D, G) \/ (c.op = "rename" /\ td # << >> /\ Twice(td)))
<1>1. D.super /\ Sound(D, G) /\ Protected(D)
  BY WorksCases
<1>2. CASE c.op = "rename" /\ Renaming(D, G, td)
  BY <1>1, <1>2, RenamingGood DEF Good
<1> QED
  BY <1>1, <1>2, WorksCases

\* Where calls find the disk: it is good, and paths stay in the good part.
LEMMA ReadyGood ==
  ASSUME Typed, Ready, Shape(disk, fs_mounted, call, todo, scars)
  PROVE  \E G \in SUBSET Inodes : disk.super /\ Good(disk, G) /\ BelowIn(disk, ROOT) \subseteq G
<1>1. PICK G \in SUBSET Inodes : Works(disk, G, call, todo)
  BY DEF Ready, Shape
<1>2. disk.super /\ Good(disk, G)
  BY <1>1, WorksGood DEF Ready
<1>3. BelowIn(disk, ROOT) \subseteq G
  BY <1>2, LinkingClosed DEF Good, Sound, Typed
<1> QED
  BY <1>2, <1>3

Begun(G) ==
  /\ disk' = disk /\ fs_mounted' = fs_mounted
  /\ Works(disk, G, call', todo')

LEMMA CreateWorks ==
  ASSUME Typed, NEW G \in SUBSET Inodes, disk.super, Good(disk, G), BelowIn(disk, ROOT) \subseteq G,
         NEW d \in Paths, NEW n \in Names, NEW t \in Types, ipo_fs_create(d, n, t), scars' \subseteq {"wiped"}
  PROVE  Begun(G)
<1>0. disk \in DiskT
  BY DEF Typed
<1>1. d \in G
  BY PathsTyped
<1>2. PICK i \in Scan(Inodes, disk.ibit) :
        /\ Begin("create", 0, allocate_inode(i, Fatal)
             \o <<write_inode(i, NewInode(t), Ignored),
                  Step("dir_add_entry", d, Entry(i, t, n), Undo(i))>>)
        /\ Took(i, disk.ibit) \/ i \notin disk.ibit
  BY DEF ipo_fs_create, CreateSteps, NewInode, Undo
<1>3. i \in Inodes /\ i \notin disk.ibit
  BY <1>0, <1>2, BitsTyped, ScanTyped, TookTyped
<1>4. i \in Inodes \ G
  BY <1>3 DEF Good, Sound, Apart
<1> DEFINE a1 == bitmap_set_inode(i, TRUE, Fatal)
           a2 == write_inode(i, ZeroInode, Ignored)
           a3 == write_inode(i, NewInode(t), Ignored)
           a4 == Step("dir_add_entry", d, Entry(i, t, n), Undo(i))
<1>5. t \in Modes /\ d \in Inodes
  BY <1>1, NewNode
<1>6. Entry(i, t, n) \in EntryT /\ Entry(i, t, n).inode # 0
  BY <1>3, <1>5, EntryTyped
<1>7. a1 \in StepT /\ a2 \in StepT /\ a3 \in StepT /\ Undo(i) \in Errs
  BY <1>3, ErrsTyped, WritesTyped, NodesTyped, NewNode DEF Undo
<1>8. a4 \in StepT
  BY <1>5, <1>6, <1>7, CallsTyped
<1>9. /\ todo' = <<a1, a2>> \o <<a3, a4>> /\ call' = [op |-> "create", victim |-> 0]
      /\ disk' = disk /\ fs_mounted' = fs_mounted
  BY <1>2 DEF Begin, allocate_inode
<1>10. todo' = <<a1, a2, a3, a4>>
  <2> HIDE DEF a1, a2, a3, a4
  <2> QED
    BY <1>7, <1>8, <1>9, TwoAndTwo
<1>11. Creating(disk, G, todo')
  BY <1>1, <1>4, <1>10 DEF Creating
<1>12. call'.op = "create"
  BY <1>9
<1> QED
  BY <1>9, <1>11, <1>12 DEF Begun, Works, Good

LEMMA DeleteWorks ==
  ASSUME Typed, NEW G \in SUBSET Inodes, disk.super, Good(disk, G), BelowIn(disk, ROOT) \subseteq G,
         NEW d \in Paths, NEW n \in Names, ipo_fs_delete(d, n)
  PROVE  Begun(G)
<1>1. d \in G /\ d \in Inodes
  BY PathsTyped
<1> DEFINE e == dir_find_entry(d, n)
           k == First(Find(d, n))
<1>2. /\ ~disk.node[e.inode].prot
      /\ Begin("delete", e.inode, <<Step("dir_remove_entry", d, n, Fatal), Step("free_inode", e.inode, 0, Ignored)>>)
  BY DEF ipo_fs_delete, DeleteSteps
<1>3. k \in Slots /\ FoundAt(disk, d, n, k, e.inode)
  BY <1>1, FoundTyped DEF ipo_fs_delete
<1>4. /\ todo' = <<Step("dir_remove_entry", d, n, Fatal), Step("free_inode", e.inode, 0, Ignored)>>
      /\ call'.op = "delete" /\ call'.victim = e.inode /\ disk' = disk /\ fs_mounted' = fs_mounted
  BY <1>2 DEF Begin
<1> HIDE DEF e, k
<1>5. Deleting(disk, G, e.inode, todo')
  BY <1>1, <1>2, <1>3, <1>4 DEF Deleting
<1> QED
  BY <1>4, <1>5 DEF Begun, Works, Good

\* A file has no names in it, so it is all there is below it.
LEMMA FileBelow ==
  ASSUME NEW D \in DiskT, NEW i \in Inodes, D.node[i].mode # "dir"
  PROVE  Closed(D, {i})
BY DEF Closed, Linked, LiveIn

LEMMA RenameWorks ==
  ASSUME Typed, NEW G \in SUBSET Inodes, disk.super, Good(disk, G), BelowIn(disk, ROOT) \subseteq G,
         NEW d \in Paths, NEW n \in Names, NEW to \in Paths, NEW m \in Names, ipo_fs_rename(d, n, to, m)
  PROVE  Begun(G)
<1>0. disk \in DiskT
  BY DEF Typed
<1>1. d \in G /\ d \in Inodes /\ to \in G /\ to \in Inodes /\ to \in BelowIn(disk, ROOT)
  BY PathsTyped
<1> DEFINE e == dir_find_entry(d, n)
           k == First(Find(d, n))
           i == e.inode
           t == e.type
<1>2. /\ ~disk.node[i].prot /\ (t = "dir" => to \notin Below(i))
      /\ Begin("rename", 0, RenameSteps(d, n, to, m, e))
      /\ disk.node[to].mode = "dir" /\ Find(d, n) # {}
  BY DiskNames DEF ipo_fs_rename
<1>3. /\ k \in Slots /\ FoundAt(disk, d, n, k, i) /\ i \in Inodes /\ t \in Modes
      /\ e = SlotIn(disk, d, k)
  BY <1>1, <1>2, FoundTyped
<1>4. i \in G /\ disk.node[i].mode = t
  BY <1>1, <1>3 DEF FoundAt, Good, Sound, Linking
<1>5. RenameSteps(d, n, to, m, e) = <<Step("dir_add_entry", to, Entry(i, t, m), Fatal)>> \o RenameRest(d, n, to, i, t)
  <2> DEFINE a == Step("dir_add_entry", to, Entry(i, t, m), Fatal)
             u == Step("update_dots", i, to, Fatal)
             r == Step("dir_remove_entry", d, n, Fatal)
  <2>1. a \in StepT /\ u \in StepT /\ r \in StepT
    BY <1>1, <1>3, EntryTyped, ErrsTyped, CallsTyped
  <2> DEFINE x == IF t = "dir" THEN <<u>> ELSE << >>
  <2>2. RenameSteps(d, n, to, m, e) = <<a>> \o x \o <<r>>
    BY DEF RenameSteps
  <2>3. RenameRest(d, n, to, i, t) = x \o <<r>>
    BY DEF RenameRest
  <2> HIDE DEF a, u, r, e, t
  <2>4. <<a>> \in Seq(StepT) /\ <<u>> \in Seq(StepT) /\ <<r>> \in Seq(StepT) /\ << >> \in Seq(StepT)
    BY <2>1
  <2>5. x \in Seq(StepT)
    BY <2>4
  <2> HIDE DEF x
  <2>6. <<a>> \o x \o <<r>> = <<a>> \o (x \o <<r>>)
    BY <2>4, <2>5, ConcatAssociative
  <2> QED
    BY <2>2, <2>3, <2>6 DEF a
<1>6. \E C \in SUBSET G : Closed(disk, C) /\ i \in C /\ to \notin C
  <2>1. CASE t = "dir"
    <3>1. Below(i) = BelowIn(disk, i)
      BY <1>0, <1>3, BelowDisk
    <3>2. BelowIn(disk, i) \subseteq G /\ Closed(disk, BelowIn(disk, i)) /\ i \in BelowIn(disk, i)
      BY <1>0, <1>3, <1>4, BelowLeast, LinkingClosed DEF Good, Sound
    <3> QED
      BY <1>2, <2>1, <3>1, <3>2
  <2>2. CASE t # "dir"
    <3>1. Closed(disk, {i}) /\ to \notin {i}
      BY <1>0, <1>2, <1>3, <1>4, <2>2, FileBelow
    <3> QED
      BY <1>4, <3>1
  <2> QED
    BY <2>1, <2>2
<1>7. /\ todo' = <<Step("dir_add_entry", to, Entry(i, t, m), Fatal)>> \o RenameRest(d, n, to, i, t)
      /\ call'.op = "rename" /\ disk' = disk /\ fs_mounted' = fs_mounted
  BY <1>2, <1>5 DEF Begin
<1> HIDE DEF e, k, i, t
<1>8. Moving(disk, G, d, n, k, to, i, t)
  BY <1>1, <1>2, <1>3, <1>4, <1>6 DEF Moving
<1>9. Renaming(disk, G, todo')
  BY <1>1, <1>3, <1>4, <1>7, <1>8 DEF Renaming, Good
<1> QED
  BY <1>7, <1>9 DEF Begun, Works, Good

LEMMA StoreWorks ==
  ASSUME Typed, NEW G \in SUBSET Inodes, disk.super, Good(disk, G), BelowIn(disk, ROOT) \subseteq G,
         NEW i \in Paths, ipo_fs_write(i), scars' \subseteq {"wiped"}
  PROVE  Begun(G)
<1>0. disk \in DiskT
  BY DEF Typed
<1>1. i \in G /\ i \in Inodes
  BY PathsTyped
<1> DEFINE n == disk.node[i]
           err == Instead(<<write_inode(i, n, Ignored)>>)
           data(b) == Step("data", b, i, Ignored)
           new(b) == write_inode(i, [n EXCEPT !.size = 1, !.block = b], Ignored)
<1>2. n \in NodeT /\ (n.block # 0 => n.block \in Blocks)
  BY <1>0, <1>1, SlotTyped
<1>3. n.mode # "dir"
  BY DEF ipo_fs_write
<1>4. SUFFICES disk' = disk /\ fs_mounted' = fs_mounted /\ call'.op = "write" /\ Storing(disk, G, todo')
  BY DEF Begun, Works, Good
<1>5. CASE n.block # 0 /\ Begin("write", 0, <<data(n.block), new(n.block)>>)
  <2>1. /\ disk' = disk /\ fs_mounted' = fs_mounted /\ call'.op = "write"
        /\ todo' = <<data(n.block), new(n.block)>>
    BY <1>5 DEF Begin
  <2>2. n.block \in Blocks /\ n.block \in disk.bbit /\ disk.block[n.block].data \in {0, i}
    BY <1>1, <1>2, <1>5 DEF Good, Sound, Apart
  <2> QED
    BY <1>1, <1>3, <2>1, <2>2 DEF Storing
<1>6. ASSUME n.block = 0, NEW b \in Scan(Blocks, disk.bbit), Took(b, disk.bbit),
             Begin("write", 0, allocate_block(b, err) \o <<data(b), new(b)>>)
      PROVE  disk' = disk /\ fs_mounted' = fs_mounted /\ call'.op = "write" /\ Storing(disk, G, todo')
  <2>1. b \in Blocks /\ b \notin disk.bbit
    BY <1>0, <1>6, BitsTyped, ScanTyped, TookTyped
  <2>2. b # 0 /\ b \notin Owned(disk, G)
    BY <1>0, <2>1, OwnedApart DEF Blocks, Good, Sound
  <2> DEFINE a1 == bitmap_set_block(b, TRUE, err)
             a2 == zero_block(b, err)
             a3 == data(b)
             a4 == new(b)
  <2>3. [n EXCEPT !.size = 1, !.block = b] \in NodeT /\ err \in Errs
    BY <1>1, <1>2, <2>1, NodeUpdates, ErrsTyped
  <2>4. a1 \in StepT /\ a2 \in StepT
    BY <2>1, <2>3, WritesTyped
  <2>5. a3 \in StepT /\ a4 \in StepT
    BY <1>1, <2>1, <2>3, ErrsTyped, WritesTyped
  <2>6. /\ disk' = disk /\ fs_mounted' = fs_mounted /\ call'.op = "write"
        /\ todo' = <<a1, a2>> \o <<a3, a4>>
    BY <1>6 DEF Begin, allocate_block
  <2>7. todo' = <<a1, a2, a3, a4>>
    <3> HIDE DEF a1, a2, a3, a4
    <3> QED
      BY <2>4, <2>5, <2>6, TwoAndTwo
  <2> QED
    BY <1>1, <1>3, <1>6, <2>1, <2>2, <2>6, <2>7 DEF Storing
<1>7. CASE Begin("write", 0, <<write_inode(i, n, Ignored)>>)
  <2>1. /\ disk' = disk /\ fs_mounted' = fs_mounted /\ call'.op = "write"
        /\ todo' = <<write_inode(i, n, Ignored)>>
    BY <1>7 DEF Begin
  <2> QED
    BY <1>1, <1>3, <2>1 DEF Storing
<1>8. \/ n.block # 0 /\ Begin("write", 0, <<data(n.block), new(n.block)>>)
      \/ /\ n.block = 0
         /\ \E b \in Scan(Blocks, disk.bbit) :
              Begin("write", 0, allocate_block(b, err) \o <<data(b), new(b)>>) /\ Took(b, disk.bbit)
      \/ Begin("write", 0, <<write_inode(i, n, Ignored)>>)
  BY DEF ipo_fs_write
<1> QED
  BY <1>5, <1>6, <1>7, <1>8


-----------------------------------------------------------------------------
(***************************************************************************)
(* A call goes on, fails, or is cut off.                                   *)
(***************************************************************************)
\* The functions a call can come to.
LEMMA WorksHead ==
  ASSUME NEW D \in DiskT, NEW G \in SUBSET Inodes, NEW c, NEW td, Works(D, G, c, td), td # << >>,
         Head(td).do \in Functions
  PROVE  Head(td).do \in {"dir_add_entry", "dir_remove_entry", "update_dots", "free_inode"}
<1>1. /\ D.super /\ Sound(D, G) /\ Protected(D)
      /\ \/ c.op = "create" /\ Good(D, G) /\ Creating(D, G, td)
         \/ c.op = "delete" /\ Good(D, G) /\ Deleting(D, G, c.victim, td)
         \/ c.op = "write" /\ Good(D, G) /\ Storing(D, G, td)
         \/ c.op = "rename" /\ Renaming(D, G, td)
  BY WorksCases
<1>2. CASE Cleaning(D, G, td)
  <2>1. PICK i \in Inodes \ G : td = <<Step("free_inode", i, 0, Ignored)>>
    BY <1>2, CleaningFunction
  <2>2. Head(td) = Step("free_inode", i, 0, Ignored)
    BY <2>1, Tuples
  <2> QED
    BY <2>2 DEF Step
<1>3. CASE Good(D, G) /\ Creating(D, G, td) /\ ~Cleaning(D, G, td)
  <2>1. PICK i \in Inodes \ G, d \in G, n \in Names, t \in Types :
          td = <<Step("dir_add_entry", d, Entry(i, t, n), Undo(i))>>
    BY <1>3, CreatingFunction
  <2>2. Head(td) = Step("dir_add_entry", d, Entry(i, t, n), Undo(i))
    BY <2>1, Tuples
  <2> QED
    BY <2>2 DEF Step
<1>4. CASE Deleting(D, G, c.victim, td) /\ ~Cleaning(D, G, td)
  <2>1. PICK d \in G, n \in Names :
          td = <<Step("dir_remove_entry", d, n, Fatal), Step("free_inode", c.victim, 0, Ignored)>>
    BY <1>4, DeletingFunction
  <2>2. Head(td) = Step("dir_remove_entry", d, n, Fatal)
    BY <2>1, Tuples
  <2> QED
    BY <2>2 DEF Step
<1>5. CASE Renaming(D, G, td)
  <2>1. PICK d \in G, to \in G, i \in G, n \in Names, m \in Names, t \in Modes, k \in Slots :
          RenamesWith(D, G, d, to, i, n, m, t, k, td)
    BY <1>1, <1>5, RenamingFunction DEF Sound
  <2> DEFINE a == Step("dir_add_entry", to, Entry(i, t, m), Fatal)
             u == Step("update_dots", i, to, Fatal)
             r == Step("dir_remove_entry", d, n, Fatal)
             rest == RenameRest(d, n, to, i, t)
  <2>2. a.do = "dir_add_entry" /\ u.do = "update_dots" /\ r.do = "dir_remove_entry"
    BY DEF Step
  <2>3. a \in StepT /\ rest \in Seq(StepT)
    BY EntryTyped, ErrsTyped, CallsTyped, RestTyped
  <2>4. td = <<a>> \o rest \/ td = <<u, r>> \/ td = <<r>>
    BY <2>1 DEF RenamesWith
  <2> HIDE DEF a, u, r, rest
  <2> QED
    BY <2>2, <2>3, <2>4, Tuples, ListOne
<1> QED
  BY <1>1, <1>2, <1>3, <1>4, <1>5, StoringFunction

\* A step leaves the disk, the call and the list in a shape of the invariant.
Shaped == Shape(disk', fs_mounted', call', todo', scars')

LEMMA GoingShaped ==
  ASSUME NEW D, disk' = D, call' = CallOf(call, todo'), Going(D, call, todo')
  PROVE  Shaped
BY DEF Shaped, Shape, Going

LEMMA WorksGoes ==
  ASSUME Typed, NEW G \in SUBSET Inodes, Works(disk, G, call, todo), Steps, scars' \subseteq {"wiped"}
  PROVE  Shaped
<1>0. disk \in DiskT /\ todo \in Seq(StepT)
  BY DEF Typed
<1>1. CASE run_dir_add_entry
  BY <1>1, RunAddWorks, GoingShaped
<1>2. CASE run_dir_remove_entry
  BY <1>2, RunRemoveWorks, GoingShaped
<1>3. CASE update_dots
  BY <1>3, UpdateDotsWorks, GoingShaped
<1>4. CASE run_free_inode
  BY <1>4, RunFreeWorks, GoingShaped
<1>5. CASE block_write
  <2>1. /\ todo # << >> /\ Head(todo).do \notin Functions /\ disk' = PutOn(disk, Head(todo))
        /\ todo' = Tail(todo) /\ call' = CallOf(call, todo')
    BY <1>5, PutDisk DEF block_write, Writing, Arg, Returns, Goes, CallOf
  <2>2. Going(PutOn(disk, Head(todo)), call, Tail(todo))
    BY <1>0, <2>1, WorksWrite
  <2> QED
    BY <2>1, <2>2, GoingShaped
<1>6. CASE ensure_fs_mounted \/ ipo_fs_mount \/ format_dots \/ format_protected
  <2>1. /\ todo # << >>
        /\ Head(todo).do \in {"ensure_fs_mounted", "ipo_fs_mount", "dots_block", "protected_app", "protected_autorun"}
    BY <1>6 DEF ensure_fs_mounted, ipo_fs_mount, format_dots, format_protected, At
  <2>2. Head(todo).do \in Functions
    BY <2>1 DEF Functions
  <2>3. Head(todo).do \in {"dir_add_entry", "dir_remove_entry", "update_dots", "free_inode"}
    BY <1>0, <2>1, <2>2, WorksHead
  <2> QED
    BY <2>1, <2>3
<1> QED
  BY <1>1, <1>2, <1>3, <1>4, <1>5, <1>6 DEF Steps

LEMMA TwoNamesCut ==
  ASSUME todo # << >>
  PROVE  TwoNames <=> Cut(call, todo)
BY DEF TwoNames, Cut, Twice

LEMMA WorksCutOff ==
  ASSUME Typed, NEW G \in SUBSET Inodes, Works(disk, G, call, todo), reset \/ write_fails \/ read_fails,
         scars' \subseteq {"wiped"}
  PROVE  Shaped
<1>0. disk \in DiskT /\ todo \in Seq(StepT)
  BY DEF Typed
<1>1. ASSUME NEW X, scars' = scars \cup CutShort \cup X, todo # << >>
      PROVE  ~Cut(call, todo) /\ X \subseteq {"wiped"}
  BY <1>1, TwoNamesCut DEF CutShort
<1>2. CASE reset
  <2>1. /\ fs_mounted' = FALSE /\ todo' = Boot /\ call'.op = "boot" /\ disk' = disk
        /\ scars' = scars \cup CutShort
    BY <1>2 DEF reset, Booting
  <2>2. ~TwoNames
    BY <2>1 DEF CutShort
  <2>3. disk.super /\ Good(disk, G)
    BY <2>2, WorksGood DEF TwoNames, Twice
  <2>4. Booted(disk', todo')
    BY <2>1, <2>3 DEF Booted
  <2> QED
    BY <2>1, <2>4 DEF Shaped, Shape
<1>3. CASE write_fails
  <2> DEFINE E == PutOn(disk, Head(todo))
  <2>1. /\ todo # << >> /\ Head(todo).do \notin Functions
        /\ todo' = FailList(todo) /\ call' = CallOf(call, todo')
    BY <1>3 DEF write_fails, Writing, Arg, Fails, Goes, CallOf, FailList
  <2>2. PICK stored \in BOOLEAN :
          /\ disk' = IF stored THEN E ELSE disk
          /\ scars' = scars \cup CutShort \cup (IF Head(todo).do = "inode" /\ ~stored THEN {"inode"} ELSE {})
    BY <1>3, PutDisk DEF write_fails, Arg
  <2>3. ~Cut(call, todo) /\ (Head(todo).do = "inode" => stored)
    BY <1>1, <2>1, <2>2
  <2>4. Onward(disk, E, call, todo)
    BY <1>0, <2>1, <2>3, WorksWrite
  <2>5. Going(disk', call, todo')
    BY <2>1, <2>2, <2>3, <2>4 DEF Onward
  <2> QED
    BY <2>1, <2>5, GoingShaped
<1>4. CASE read_fails
  <2>1. todo # << >> /\ Head(todo).do \in Functions
    BY <1>4 DEF read_fails, Readers, Functions, Arg
  <2>2. Head(todo).do # "ensure_fs_mounted"
    BY <1>0, <2>1, WorksHead
  <2>3. /\ disk' = disk /\ todo' = FailList(todo) /\ call' = CallOf(call, todo')
        /\ scars' = scars \cup CutShort \cup {}
    BY <1>4, <2>2 DEF read_fails, At, Fails, Goes, CallOf, FailList, Arg
  <2>4. ~Cut(call, todo)
    BY <1>1, <2>1, <2>3
  <2>5. Going(disk, call, todo')
    BY <1>0, <2>1, <2>3, <2>4, WorksFail
  <2> QED
    BY <2>3, <2>5, GoingShaped
<1> QED
  BY <1>2, <1>3, <1>4


-----------------------------------------------------------------------------
(***************************************************************************)
(* The format, write by write.                                             *)
(***************************************************************************)
LEMMA FewSteps ==
  ASSUME NEW a \in StepT, NEW b \in StepT, NEW c \in StepT, NEW d \in StepT
  PROVE  /\ <<a, b, c>> \in Seq(StepT) /\ <<a, b, c, d>> \in Seq(StepT)
         /\ <<a>> \o <<b, c>> = <<a, b, c>> /\ <<a>> \o <<b, c, d>> = <<a, b, c, d>>
<1>1. <<a, b, c>> \in Seq(StepT) /\ <<a, b, c, d>> \in Seq(StepT)
  OBVIOUS
<1>2. <<a, b, c>> = <<a>> \o <<b, c>>
  OBVIOUS
<1>3. <<a, b, c, d>> = <<a>> \o <<b, c, d>>
  OBVIOUS
<1> QED
  BY <1>1, <1>2, <1>3

LEMMA Regroup ==
  ASSUME NEW s \in Seq(StepT), NEW t \in Seq(StepT), NEW u \in Seq(StepT)
  PROVE  (s \o t) \o u = s \o (t \o u)
BY ConcatAssociative

LEMMA SixSteps ==
  ASSUME NEW a \in StepT, NEW b \in StepT, NEW c \in StepT, NEW d \in StepT, NEW e \in StepT, NEW f \in StepT
  PROVE  <<a, b, c, d, e, f>> \in Seq(StepT)
OBVIOUS

Format1 == Step("superblock", 0, 0, Fatal)
Format2 == Step("inode bitmap", 0, 0, Fatal)
Format3 == Step("block bitmap", 0, 0, Fatal)
RootBit == bitmap_set_inode(ROOT, TRUE, Ignored)
RootNode == write_inode(ROOT, RootInode, Ignored)

LEMMA FormatSteps ==
  /\ Format1 \in StepT /\ Format2 \in StepT /\ Format3 \in StepT /\ RootBit \in StepT /\ RootNode \in StepT
  /\ RootDots \in StepT /\ Super \in StepT /\ Mount \in StepT /\ DoApp \in StepT /\ DoAutorun \in StepT
  /\ Format1.do = "superblock" /\ Format2.do = "inode bitmap" /\ Format3.do = "block bitmap"
  /\ RootBit.do = "inode bit" /\ RootNode.do = "inode" /\ RootDots.do = "dots_block" /\ Super.do = "superblock"
  /\ Mount.do = "ipo_fs_mount" /\ DoApp.do = "protected_app" /\ DoAutorun.do = "protected_autorun"
<1>1. Format1 \in StepT /\ Format2 \in StepT /\ Format3 \in StepT
  BY CallsTyped, ErrsTyped DEF OnDisk, Format1, Format2, Format3
<1>2. Super \in StepT /\ Mount \in StepT /\ DoApp \in StepT /\ DoAutorun \in StepT
  BY CallsTyped, ErrsTyped DEF OnDisk, Super, Mount, DoApp, DoAutorun
<1>3. RootBit \in StepT /\ RootNode \in StepT /\ RootDots \in StepT
  BY CallsTyped, WritesTyped, ErrsTyped, NodesTyped DEF RootBit, RootNode, RootDots
<1>4. Format1.do = "superblock" /\ Format2.do = "inode bitmap" /\ Format3.do = "block bitmap"
  BY DEF Format1, Format2, Format3, Step
<1>5. RootBit.do = "inode bit" /\ RootNode.do = "inode" /\ RootDots.do = "dots_block" /\ Super.do = "superblock"
  BY DEF RootBit, RootNode, RootDots, Super, bitmap_set_inode, write_inode, Step
<1>6. Mount.do = "ipo_fs_mount" /\ DoApp.do = "protected_app" /\ DoAutorun.do = "protected_autorun"
  BY DEF Mount, DoApp, DoAutorun, Step
<1> QED
  BY <1>1, <1>2, <1>3, <1>4, <1>5, <1>6

LEMMA FormatRests ==
  /\ AfterRoot \in Seq(StepT) /\ AfterApp \in Seq(StepT) /\ AfterAutorun \in Seq(StepT)
  /\ AfterZeroing = <<RootBit, RootNode, RootDots>> \o AfterRoot
  /\ AfterRoot = <<DoApp>> \o AfterApp /\ AfterApp = <<DoAutorun>> \o AfterAutorun
  /\ AfterAutorun = <<Super, Mount>>
<1>1. AfterZeroing = <<RootBit, RootNode, RootDots, DoApp, DoAutorun, Super, Mount>>
  BY DEF AfterZeroing, RootBit, RootNode
<1>2. AfterRoot = <<DoApp, DoAutorun, Super, Mount>> /\ AfterApp = <<DoAutorun, Super, Mount>>
      /\ AfterAutorun = <<Super, Mount>>
  BY DEF AfterRoot, AfterApp, AfterAutorun
<1>3. AfterAutorun \in Seq(StepT)
  BY <1>2, FormatSteps, TwoSteps
<1>4. AfterRoot \in Seq(StepT) /\ AfterApp \in Seq(StepT)
  BY <1>2, FormatSteps, FewSteps
<1>5. AfterRoot = <<DoApp>> \o AfterApp /\ AfterApp = <<DoAutorun>> \o AfterAutorun
  <2>1. <<DoApp, DoAutorun, Super, Mount>> = <<DoApp>> \o <<DoAutorun, Super, Mount>>
    OBVIOUS
  <2>2. <<DoAutorun, Super, Mount>> = <<DoAutorun>> \o <<Super, Mount>>
    OBVIOUS
  <2> QED
    BY <1>2, <2>1, <2>2
<1>6. AfterZeroing = <<RootBit, RootNode, RootDots>> \o AfterRoot
  <2>1. <<RootBit, RootNode, RootDots, DoApp, DoAutorun, Super, Mount>>
        = <<RootBit, RootNode, RootDots>> \o <<DoApp, DoAutorun, Super, Mount>>
    OBVIOUS
  <2> QED
    BY <1>1, <1>2, <2>1
<1> QED
  BY <1>2, <1>3, <1>4, <1>5, <1>6

\* The list ipo_fs_format() starts with.
LEMMA FormatList ==
  \E zs \in Zeroing : ipo_fs_format \o <<Mount>> = <<Format1, Format2, Format3>> \o (zs \o AfterZeroing)
<1> DEFINE zs == [i \in Inodes |-> write_inode(i, ZeroInode, Fatal)]
           as == <<Format1, Format2, Format3>>
           bs == <<RootBit, RootNode, RootDots, DoApp, DoAutorun, Super>>
           W == {write_inode(i, ZeroInode, Fatal) : i \in Inodes}
<1>1. zs \in Seq(W)
  <2>1. zs \in [1 .. INODE_COUNT -> W]
    BY DEF Inodes
  <2> HIDE DEF zs, W
  <2> QED
    BY <2>1, DiskAssumption, SeqDef
<1>2. zs \in Zeroing
  BY <1>1 DEF Zeroing
<1>3. W \subseteq StepT
  BY WritesTyped, ErrsTyped, NodesTyped
<1>4. zs \in Seq(StepT)
  <2> HIDE DEF zs, W
  <2> QED
    BY <1>1, <1>3, SeqDef
<1>5. as \in Seq(StepT) /\ bs \in Seq(StepT) /\ <<Mount>> \in Seq(StepT)
  <2>1. as \in Seq(StepT) /\ <<Mount>> \in Seq(StepT)
    BY FormatSteps, FewSteps, TwoSteps
  <2>2. bs \in Seq(StepT)
    BY FormatSteps, SixSteps, Zenon
  <2> QED
    BY <2>1, <2>2
<1>6. ipo_fs_format = as \o zs \o bs
  BY DEF ipo_fs_format, Format1, Format2, Format3, RootBit, RootNode, RootDots, DoApp, DoAutorun, Super
<1>7. bs \o <<Mount>> = AfterZeroing
  <2>1. <<RootBit, RootNode, RootDots, DoApp, DoAutorun, Super, Mount>> = bs \o <<Mount>>
    OBVIOUS
  <2> QED
    BY <2>1 DEF AfterZeroing, RootBit, RootNode
<1>8. ipo_fs_format \o <<Mount>> = as \o (zs \o AfterZeroing)
  <2> HIDE DEF as, zs, bs
  <2>1. as \o zs \in Seq(StepT)
    BY <1>4, <1>5, MoreSteps
  <2>2. (as \o zs \o bs) \o <<Mount>> = (as \o zs) \o AfterZeroing
    BY <1>5, <1>7, <2>1, Regroup, Zenon
  <2>3. AfterZeroing \in Seq(StepT)
    BY <1>5, <1>7, MoreSteps
  <2>4. (as \o zs) \o AfterZeroing = as \o (zs \o AfterZeroing)
    BY <1>4, <1>5, <2>3, Regroup, Zenon
  <2> QED
    BY <1>6, <2>2, <2>4
<1> HIDE DEF zs
<1> QED
  BY <1>2, <1>8

LEMMA ZeroingSteps ==
  ASSUME NEW zs \in Zeroing
  PROVE  /\ zs \in Seq(StepT)
         /\ zs # << >> => Tail(zs) \in Zeroing /\ \E i \in Inodes : Head(zs) = write_inode(i, ZeroInode, Fatal)
         /\ \A rest \in Seq(StepT) : zs # << >> =>
              zs \o rest # << >> /\ Head(zs \o rest) = Head(zs) /\ Tail(zs \o rest) = Tail(zs) \o rest
<1> DEFINE W == {write_inode(i, ZeroInode, Fatal) : i \in Inodes}
<1>1. W \subseteq StepT
  BY WritesTyped, ErrsTyped, NodesTyped
<1>2. zs \in Seq(W)
  BY DEF Zeroing
<1>3. zs # << >> => Tail(zs) \in Zeroing /\ Head(zs) \in W
  <2>1. zs # << >> => Tail(zs) \in Seq(W) /\ Head(zs) \in W
    <3> HIDE DEF W
    <3> QED
      BY <1>2, HeadTailProperties
  <2> QED
    BY <2>1 DEF Zeroing
<1>4. zs \in Seq(StepT)
  <2> HIDE DEF W
  <2> QED
    BY <1>1, <1>2, SeqDef
<1>5. ASSUME zs # << >>, NEW rest \in Seq(StepT)
      PROVE  zs \o rest # << >> /\ Head(zs \o rest) = Head(zs) /\ Tail(zs \o rest) = Tail(zs) \o rest
  BY <1>4, <1>5, SMTT(30)
<1> QED
  BY <1>3, <1>4, <1>5


\* Step a, then the steps `rest' are left.
Begins(td, a, rest) ==
  /\ td = <<a>> \o rest /\ td # << >> /\ Head(td) = a /\ Tail(td) = rest
  /\ td \in Seq(StepT) /\ rest \in Seq(StepT)
LEMMA BeginsOne ==
  ASSUME NEW a \in StepT, NEW rest \in Seq(StepT)
  PROVE  Begins(<<a>> \o rest, a, rest)
BY ListOne DEF Begins

LEMMA BeginsTwo ==
  ASSUME NEW a \in StepT, NEW b \in StepT, NEW rest \in Seq(StepT)
  PROVE  Begins(<<a, b>> \o rest, a, <<b>> \o rest)
<1>1. <<b>> \o rest \in Seq(StepT)
  BY ListOne
<1>2. <<a, b>> \o rest = <<a>> \o (<<b>> \o rest)
  BY ListTwo
<1> QED
  BY <1>1, <1>2, ListOne DEF Begins

LEMMA BeginsThree ==
  ASSUME NEW a \in StepT, NEW b \in StepT, NEW c \in StepT, NEW rest \in Seq(StepT)
  PROVE  Begins(<<a, b, c>> \o rest, a, <<b, c>> \o rest)
<1>1. <<b, c>> \o rest \in Seq(StepT)
  BY BeginsTwo DEF Begins
<1>2. <<a, b, c>> \o rest = <<a>> \o (<<b, c>> \o rest)
  BY ListThree
<1> QED
  BY <1>1, <1>2, ListOne DEF Begins

LEMMA BeginsFour ==
  ASSUME NEW a \in StepT, NEW b \in StepT, NEW c \in StepT, NEW d \in StepT, NEW rest \in Seq(StepT)
  PROVE  Begins(<<a, b, c, d>> \o rest, a, <<b, c, d>> \o rest)
<1>1. <<b, c, d>> \o rest \in Seq(StepT)
  BY BeginsThree DEF Begins
<1>2. <<a, b, c, d>> \o rest = <<a>> \o (<<b, c, d>> \o rest)
  <2>1. <<a>> \in Seq(StepT) /\ <<b, c, d>> \in Seq(StepT)
    OBVIOUS
  <2>2. <<a, b, c, d>> = <<a>> \o <<b, c, d>>
    OBVIOUS
  <2> QED
    BY <2>1, <2>2, ConcatAssociative
<1> QED
  BY <1>1, <1>2, ListOne DEF Begins

\* /app is there, as inode a.
AppThere(D, a) ==
  /\ Rooted(D, {ROOT, a}, 3, {2}) /\ SlotIn(D, ROOT, 2) = Entry(a, "dir", "app") /\ D.node[a].prot

\* The moments at which the format comes to a function.
AppCall(D, i, td) ==
  /\ Rooted(D, {ROOT}, 2, {}) /\ D.ibit = {ROOT, i}
  /\ \/ /\ D.bbit = {D.node[ROOT].block} /\ D.node[i] = AppInode
        /\ td = <<AppDots(i)>> \o (<<AddApp(i)>> \o AfterApp)
     \/ /\ D.node[i].prot /\ Newborn(D, {ROOT}, i, "dir") /\ D.node[i].block # D.node[ROOT].block
        /\ td = <<AddApp(i)>> \o AfterApp
AutorunCall(D, a, td) ==
  /\ AppThere(D, a)
  /\ \/ D.ibit = {ROOT, a} /\ td = <<DoAutorun>> \o AfterAutorun
     \/ \E i \in Inodes \ {ROOT, a} :
          i \in D.ibit /\ D.node[i] = AutorunInode /\ td = <<AddAutorun(i)>> \o AfterAutorun
FormatCall(D, td) ==
  \/ /\ D.super /\ D.ibit = {ROOT} /\ D.bbit = {} /\ D.node[ROOT] = RootInode
     /\ td = <<RootDots>> \o AfterRoot
  \/ /\ Rooted(D, {ROOT}, 2, {}) /\ D.ibit = {ROOT} /\ D.bbit = {D.node[ROOT].block}
     /\ td = <<DoApp>> \o AfterApp
  \/ \E i \in Inodes \ {ROOT} : AppCall(D, i, td)
  \/ \E a \in Inodes \ {ROOT} : AutorunCall(D, a, td)
  \/ FormattingLast(D, td) /\ td = <<Mount>>

\* The next step of a format that does not fail, if it is a write, leads to
\* the next moment of the format and takes nothing out of the tree.
Forms(D, sc, td) ==
  LET E == PutOn(D, Head(td))
  IN  /\ td # << >> /\ Head(td).do # "ensure_fs_mounted"
      /\ Head(td).do \in Functions => FormatCall(D, td)
      /\ Head(td).do \notin Functions =>
           /\ Formats(E, sc, Tail(td))
           /\ sc = {} => BelowIn(D, ROOT) \subseteq BelowIn(E, ROOT)

\* A root without names leads nowhere.
LEMMA RootAlone ==
  ASSUME NEW D \in DiskT, NEW E \in DiskT, LiveIn(D, ROOT) = {}
  PROVE  BelowIn(D, ROOT) \subseteq BelowIn(E, ROOT)
<1>1. Closed(D, {ROOT}) /\ ROOT \in Inodes
  BY NodesTyped DEF Closed, Linked
<1>2. BelowIn(D, ROOT) \subseteq {ROOT}
  BY <1>1, BelowLeast
<1>3. ROOT \in BelowIn(E, ROOT)
  BY <1>1, BelowLeast
<1> QED
  BY <1>2, <1>3

LEMMA FormsWrite ==
  ASSUME NEW D \in DiskT, NEW sc, NEW w \in StepT, w.do \notin Functions, NEW td, NEW rest,
         Begins(td, w, rest), Formats(PutOn(D, w), sc, rest),
         sc = {} => LiveIn(D, ROOT) = {} \/ BelowIn(D, ROOT) \subseteq BelowIn(PutOn(D, w), ROOT)
  PROVE  Forms(D, sc, td)
<1>1. td # << >> /\ Head(td) = w /\ Tail(td) = rest
  BY DEF Begins
<1>2. w.do # "ensure_fs_mounted"
  BY DEF Functions
<1>3. PutOn(D, w) \in DiskT
  BY PutTyped
<1>4. sc = {} => BelowIn(D, ROOT) \subseteq BelowIn(PutOn(D, w), ROOT)
  BY <1>3, RootAlone
<1> QED
  BY <1>1, <1>2, <1>4 DEF Forms

LEMMA FormsFunction ==
  ASSUME NEW D, NEW sc, NEW w, w.do \in Functions, w.do # "ensure_fs_mounted",
         NEW td, NEW rest, Begins(td, w, rest), FormatCall(D, td)
  PROVE  Forms(D, sc, td)
BY DEF Forms, Begins

\* The root is not a directory yet, or there is nothing good behind it.
LEMMA QuietLive ==
  ASSUME NEW D, NEW sc, Quiet(D, sc)
  PROVE  sc = {} => LiveIn(D, ROOT) = {}
BY DEF Quiet, LiveIn

\* An inode's bit set, an inode written.
LEMMA BitSet ==
  ASSUME NEW D \in DiskT, NEW i \in Inodes, NEW err
  PROVE  LET E == PutOn(D, bitmap_set_inode(i, TRUE, err))
         IN  /\ E \in DiskT /\ E.super = D.super /\ E.ibit = D.ibit \cup {i} /\ E.bbit = D.bbit
             /\ E.node = D.node /\ E.block = D.block
<1>1. ASSUME NEW v \in BOOLEAN, v
      PROVE  LET E == PutOn(D, bitmap_set_inode(i, v, err))
             IN  /\ E \in DiskT /\ E.super = D.super /\ E.ibit = D.ibit \cup {i} /\ E.bbit = D.bbit
                 /\ E.node = D.node /\ E.block = D.block
  <2> DEFINE E == PutOn(D, bitmap_set_inode(i, v, err))
  <2>1. /\ E \in DiskT /\ E.super = D.super /\ E.bbit = D.bbit /\ E.node = D.node /\ E.block = D.block
        /\ v => E.ibit = D.ibit \cup {i}
    BY PutInodeBit
  <2> HIDE DEF E
  <2>2. E.ibit = D.ibit \cup {i}
    BY <1>1, <2>1
  <2> QED
    BY <2>1, <2>2 DEF E
<1>2. TRUE \in BOOLEAN
  OBVIOUS
<1> QED
  BY <1>1, <1>2, Zenon

InodePut(D, E, i, n) ==
  /\ E \in DiskT /\ E.super = D.super /\ E.ibit = D.ibit /\ E.bbit = D.bbit /\ E.block = D.block
  /\ E.node[i] = n /\ \A j \in Inodes \ {i} : E.node[j] = D.node[j]
LEMMA InodeWritten ==
  ASSUME NEW D \in DiskT, NEW i \in Inodes, NEW n \in NodeT, NEW err
  PROVE  InodePut(D, PutOn(D, write_inode(i, n, err)), i, n)
BY PutInode DEF InodePut

LEMMA FormatStarts ==
  ASSUME NEW D \in DiskT, NEW sc, NEW td, Quiet(D, sc),
         \/ td = ipo_fs_format \o <<Mount>>
         \/ D.super /\ td = Tail(ipo_fs_format \o <<Mount>>)
         \/ D.super /\ D.ibit = {} /\ td = Tail(Tail(ipo_fs_format \o <<Mount>>))
  PROVE  Forms(D, sc, td)
<1>1. PICK zs \in Zeroing : ipo_fs_format \o <<Mount>> = <<Format1, Format2, Format3>> \o (zs \o AfterZeroing)
  BY FormatList
<1> DEFINE F == ipo_fs_format \o <<Mount>>
           X == zs \o AfterZeroing
<1>2. X \in Seq(StepT)
  <2>1. AfterZeroing \in Seq(StepT)
    <3>1. <<RootBit, RootNode, RootDots>> \in Seq(StepT)
      BY FormatSteps, FewSteps
    <3> QED
      BY <3>1, FormatRests, MoreSteps
  <2> QED
    BY <2>1, ZeroingSteps, MoreSteps
<1>3. F = <<Format1, Format2, Format3>> \o X
  BY <1>1
<1>4. \E ys \in Zeroing : X = ys \o AfterZeroing
  OBVIOUS
<1> HIDE DEF F, X
<1>5. Begins(F, Format1, Tail(F)) /\ Begins(Tail(F), Format2, Tail(Tail(F))) /\ Begins(Tail(Tail(F)), Format3, X)
  <2>0. Format1 \in StepT /\ Format2 \in StepT /\ Format3 \in StepT
    BY FormatSteps
  <2>1. Begins(F, Format1, <<Format2, Format3>> \o X)
    BY <1>2, <1>3, <2>0, BeginsThree
  <2>2. Begins(<<Format2, Format3>> \o X, Format2, <<Format3>> \o X)
    BY <1>2, <2>0, BeginsTwo
  <2>3. Begins(<<Format3>> \o X, Format3, X)
    BY <1>2, <2>0, BeginsOne
  <2>4. Tail(F) = <<Format2, Format3>> \o X
    BY <2>1 DEF Begins
  <2>5. Tail(Tail(F)) = <<Format3>> \o X
    BY <2>2, <2>4 DEF Begins
  <2> QED
    BY <2>1, <2>2, <2>3, <2>4, <2>5
<1>6. sc = {} => LiveIn(D, ROOT) = {}
  BY QuietLive
<1>7. Format1.do \notin Functions /\ Format2.do \notin Functions /\ Format3.do \notin Functions
  BY FormatSteps DEF Functions
<1>8. CASE td = F
  <2> DEFINE E == PutOn(D, Format1)
  <2>1. E.super = TRUE /\ E.node = D.node
    BY FormatSteps, PutSuper
  <2> HIDE DEF E
  <2>2. Quiet(E, sc)
    BY <2>1 DEF Quiet
  <2>3. Formats(E, sc, Tail(F))
    BY <2>1, <2>2 DEF Formats, FormattingRoot, F
  <2> QED
    BY <1>5, <1>6, <1>7, <1>8, <2>3, FormatSteps, FormsWrite DEF E
<1>9. CASE D.super /\ td = Tail(F)
  <2> DEFINE E == PutOn(D, Format2)
  <2>1. E.super = D.super /\ E.node = D.node /\ E.ibit = {}
    BY FormatSteps, PutInodeBitmap
  <2> HIDE DEF E
  <2>2. Quiet(E, sc)
    BY <2>1 DEF Quiet
  <2>3. Formats(E, sc, Tail(Tail(F)))
    BY <1>9, <2>1, <2>2 DEF Formats, FormattingRoot, F
  <2> QED
    BY <1>5, <1>6, <1>7, <1>9, <2>3, FormatSteps, FormsWrite DEF E
<1>10. CASE D.super /\ D.ibit = {} /\ td = Tail(Tail(F))
  <2> DEFINE E == PutOn(D, Format3)
  <2>1. E.super = D.super /\ E.node = D.node /\ E.ibit = D.ibit /\ E.bbit = {}
    BY FormatSteps, PutBlockBitmap
  <2> HIDE DEF E
  <2>2. Quiet(E, sc)
    BY <2>1 DEF Quiet
  <2>3. Formats(E, sc, X)
    BY <1>4, <1>10, <2>1, <2>2 DEF Formats, FormattingRoot
  <2> QED
    BY <1>2, <1>5, <1>6, <1>7, <1>10, <2>3, FormatSteps, FormsWrite DEF E
<1> QED
  BY <1>8, <1>9, <1>10 DEF F

LEMMA FormatZeroes ==
  ASSUME NEW D \in DiskT, NEW sc, NEW td, Quiet(D, sc), D.super, D.bbit = {},
         \/ D.ibit = {} /\ \E zs \in Zeroing : td = zs \o AfterZeroing
         \/ D.ibit = {ROOT} /\ td = Tail(AfterZeroing)
  PROVE  Forms(D, sc, td)
<1>1. /\ Begins(AfterZeroing, RootBit, Tail(AfterZeroing))
      /\ Begins(Tail(AfterZeroing), RootNode, <<RootDots>> \o AfterRoot)
  <2> DEFINE R == AfterRoot
  <2>0. /\ RootBit \in StepT /\ RootNode \in StepT /\ RootDots \in StepT /\ R \in Seq(StepT)
        /\ AfterZeroing = <<RootBit, RootNode, RootDots>> \o R
    BY FormatSteps, FormatRests
  <2> HIDE DEF R
  <2>1. Begins(AfterZeroing, RootBit, <<RootNode, RootDots>> \o R)
    BY <2>0, BeginsThree
  <2>2. Begins(<<RootNode, RootDots>> \o R, RootNode, <<RootDots>> \o R)
    BY <2>0, BeginsTwo
  <2>3. Tail(AfterZeroing) = <<RootNode, RootDots>> \o R
    BY <2>1 DEF Begins
  <2> QED
    BY <2>1, <2>2, <2>3 DEF R
<1>2. sc = {} => LiveIn(D, ROOT) = {}
  BY QuietLive
<1>3. RootBit.do \notin Functions /\ RootNode.do \notin Functions
  BY FormatSteps DEF Functions
<1>4. ROOT \in Inodes /\ RootInode \in NodeT /\ ZeroInode \in NodeT
  BY NodesTyped
<1>5. CASE D.ibit = {} /\ td = AfterZeroing
  <2> DEFINE E == PutOn(D, RootBit)
  <2>1. E.super = D.super /\ E.bbit = D.bbit /\ E.node = D.node /\ E.ibit = {ROOT}
    <3>1. E.super = D.super /\ E.bbit = D.bbit /\ E.node = D.node /\ E.ibit = D.ibit \cup {ROOT}
      <4>1. LET F == PutOn(D, bitmap_set_inode(ROOT, TRUE, Ignored))
            IN  /\ F \in DiskT /\ F.super = D.super /\ F.ibit = D.ibit \cup {ROOT} /\ F.bbit = D.bbit
                /\ F.node = D.node /\ F.block = D.block
        BY <1>4, BitSet, Zenon
      <4> QED
        BY <4>1 DEF RootBit
    <3> HIDE DEF E
    <3> QED
      BY <1>5, <3>1
  <2> HIDE DEF E
  <2>2. Quiet(E, sc)
    BY <2>1 DEF Quiet
  <2>3. Formats(E, sc, Tail(AfterZeroing))
    BY <2>1, <2>2 DEF Formats, FormattingRoot
  <2> QED
    BY <1>1, <1>2, <1>3, <1>5, <2>3, FormatSteps, FormsWrite DEF E
<1>6. CASE D.ibit = {ROOT} /\ td = Tail(AfterZeroing)
  <2> DEFINE E == PutOn(D, RootNode)
  <2>1. E.super = D.super /\ E.bbit = D.bbit /\ E.node[ROOT] = RootInode /\ E.ibit = {ROOT}
    <3>1. InodePut(D, E, ROOT, RootInode)
      BY <1>4, InodeWritten DEF RootNode
    <3> HIDE DEF E
    <3> QED
      BY <1>6, <3>1 DEF InodePut
  <2> HIDE DEF E
  <2>2. Formats(E, sc, <<RootDots>> \o AfterRoot)
    BY <2>1 DEF Formats, FormattingRoot
  <2> QED
    BY <1>1, <1>2, <1>3, <1>6, <2>2, FormatSteps, FormsWrite DEF E
<1>7. ASSUME D.ibit = {}, NEW zs \in Zeroing, zs # << >>, td = zs \o AfterZeroing
      PROVE  Forms(D, sc, td)
  <2>1. PICK i \in Inodes : Head(zs) = write_inode(i, ZeroInode, Fatal)
    BY <1>7, ZeroingSteps
  <2> DEFINE w == write_inode(i, ZeroInode, Fatal)
             E == PutOn(D, w)
  <2>2. td # << >> /\ Head(td) = w /\ Tail(td) = Tail(zs) \o AfterZeroing /\ Tail(zs) \in Zeroing
    BY <1>1, <1>7, <2>1, ZeroingSteps DEF Begins
  <2>3. /\ E \in DiskT /\ E.super = D.super /\ E.bbit = D.bbit /\ E.ibit = D.ibit
        /\ E.node[i] = ZeroInode /\ \A j \in Inodes \ {i} : E.node[j] = D.node[j]
    <3>1. InodePut(D, E, i, ZeroInode)
      BY <1>4, InodeWritten
    <3> HIDE DEF E
    <3> QED
      BY <3>1 DEF InodePut
  <2>4. w.do \notin Functions /\ w.do # "ensure_fs_mounted"
    BY DEF write_inode, Step, Functions
  <2> HIDE DEF E, w
  <2>5. Quiet(E, sc)
    BY <1>4, <2>3 DEF Quiet, ZeroInode, Inode
  <2>6. Formats(E, sc, Tail(td))
    BY <1>7, <2>2, <2>3, <2>5 DEF Formats, FormattingRoot
  <2>7. sc = {} => BelowIn(D, ROOT) \subseteq BelowIn(E, ROOT)
    BY <1>2, <2>3, RootAlone
  <2> QED
    BY <2>2, <2>4, <2>6, <2>7 DEF Forms, E
<1>8. << >> \o AfterZeroing = AfterZeroing
  BY <1>1, ConcatEmptySeq DEF Begins
<1> QED
  BY <1>5, <1>6, <1>7, <1>8


\* A block's bit set, an inode's dots block made.
LEMMA BlockBitSet ==
  ASSUME NEW D \in DiskT, NEW b \in Blocks, NEW err
  PROVE  LET E == PutOn(D, bitmap_set_block(b, TRUE, err))
         IN  /\ E \in DiskT /\ E.super = D.super /\ E.ibit = D.ibit /\ E.bbit = D.bbit \cup {b}
             /\ E.node = D.node /\ E.block = D.block
<1>1. ASSUME NEW v \in BOOLEAN, v
      PROVE  LET E == PutOn(D, bitmap_set_block(b, v, err))
             IN  /\ E \in DiskT /\ E.super = D.super /\ E.ibit = D.ibit /\ E.bbit = D.bbit \cup {b}
                 /\ E.node = D.node /\ E.block = D.block
  <2> DEFINE E == PutOn(D, bitmap_set_block(b, v, err))
  <2>1. /\ E \in DiskT /\ E.super = D.super /\ E.ibit = D.ibit /\ E.node = D.node /\ E.block = D.block
        /\ v => E.bbit = D.bbit \cup {b}
    BY PutBlockBit
  <2> HIDE DEF E
  <2>2. E.bbit = D.bbit \cup {b}
    BY <1>1, <2>1
  <2> QED
    BY <2>1, <2>2 DEF E
<1>2. TRUE \in BOOLEAN
  OBVIOUS
<1> QED
  BY <1>1, <1>2, Zenon

Dotted(n, b) == [n EXCEPT !.size = 2, !.block = b]
DotsGo(D, E, i, n, b, B, rest, td) ==
  /\ td # << >> /\ Head(td).do \notin Functions /\ E \in DiskT
  /\ E.super = D.super /\ E.ibit = D.ibit /\ b \in Blocks \ B
  /\ \A j \in Inodes \ {i} : E.node[j] = D.node[j]
  /\ \A c \in Blocks \ {b} : E.block[c] = D.block[c]
  /\ \/ /\ E.node = D.node /\ DotsAt(E, i, n, b, B, rest, Tail(td))
        /\ (D.bbit = B \/ D.bbit = B \cup {b}) /\ (E.bbit = B \/ E.bbit = B \cup {b})
     \/ /\ E.node[i] = Dotted(n, b) /\ E.block = D.block /\ E.block[b] = DotsBlock(i)
        /\ D.bbit = B \cup {b} /\ E.bbit = B \cup {b} /\ Tail(td) = rest
LEMMA DotsWrites ==
  ASSUME NEW D \in DiskT, NEW i \in Inodes, NEW n \in NodeT, NEW b, NEW B, NEW rest \in Seq(StepT), NEW td,
         DotsAt(D, i, n, b, B, rest, td)
  PROVE  DotsGo(D, PutOn(D, Head(td)), i, n, b, B, rest, td)
<1> DEFINE a1 == bitmap_set_block(b, TRUE, Fatal)
           a2 == zero_block(b, Fatal)
           a3 == Step("dots", b, <<i, ROOT>>, Ignored)
           a4 == write_inode(i, Dotted(n, b), Ignored)
           E == PutOn(D, Head(td))
<1>1. /\ b \in Blocks \ B
      /\ \/ D.bbit = B /\ td = <<a1, a2, a3, a4>> \o rest
         \/ D.bbit = B \cup {b} /\ td = <<a2, a3, a4>> \o rest
         \/ D.bbit = B \cup {b} /\ td = <<a3, a4>> \o rest
         \/ D.bbit = B \cup {b} /\ td = <<a4>> \o rest /\ D.block[b] = DotsBlock(i)
  BY DEF DotsAt, DotsBlock, Dotted
<1>2. /\ \A F : F.bbit = B \cup {b} /\ Tail(td) = <<a2, a3, a4>> \o rest => DotsAt(F, i, n, b, B, rest, Tail(td))
      /\ \A F : F.bbit = B \cup {b} /\ Tail(td) = <<a3, a4>> \o rest => DotsAt(F, i, n, b, B, rest, Tail(td))
      /\ \A F : F.bbit = B \cup {b} /\ F.block[b] = DotsBlock(i) /\ Tail(td) = <<a4>> \o rest
                => DotsAt(F, i, n, b, B, rest, Tail(td))
  BY <1>1 DEF DotsAt, DotsBlock, Dotted
<1>3. Dotted(n, b) \in NodeT
  BY <1>1, NodeUpdates DEF Dotted
<1>4. a1 \in StepT /\ a2 \in StepT /\ a3 \in StepT
  BY <1>1, ErrsTyped, WritesTyped
<1>5. a4 \in StepT
  BY <1>3, ErrsTyped, WritesTyped
<1>6. a1.do \notin Functions /\ a2.do \notin Functions /\ a3.do \notin Functions /\ a4.do \notin Functions
  BY DEF bitmap_set_block, zero_block, write_inode, Step, Functions
<1>7. CASE D.bbit = B /\ td = <<a1, a2, a3, a4>> \o rest
  <2> DEFINE F == PutOn(D, a1)
  <2>1. /\ F \in DiskT /\ F.super = D.super /\ F.ibit = D.ibit /\ F.bbit = D.bbit \cup {b}
        /\ F.node = D.node /\ F.block = D.block
    BY <1>1, BlockBitSet, Zenon
  <2> HIDE DEF a1, a2, a3, a4
  <2>2. Begins(td, a1, <<a2, a3, a4>> \o rest)
    BY <1>4, <1>5, <1>7, BeginsFour
  <2>3. Head(td) = a1 /\ Tail(td) = <<a2, a3, a4>> \o rest /\ td # << >>
    BY <2>2 DEF Begins
  <2>4. E = F
    BY <2>3
  <2> HIDE DEF E, F
  <2>5. DotsAt(E, i, n, b, B, rest, Tail(td))
    BY <1>2, <1>7, <2>1, <2>3, <2>4
  <2>6. DotsGo(D, E, i, n, b, B, rest, td)
    BY <1>1, <1>6, <1>7, <2>1, <2>3, <2>4, <2>5 DEF DotsGo
  <2> QED
    BY <2>6 DEF E
<1>8. CASE D.bbit = B \cup {b} /\ td = <<a2, a3, a4>> \o rest
  <2> DEFINE F == PutOn(D, a2)
  <2>1. BlockPut(D, F, b, ZeroBlock)
    BY <1>1, PutZero
  <2> HIDE DEF a1, a2, a3, a4
  <2>2. Begins(td, a2, <<a3, a4>> \o rest)
    BY <1>4, <1>5, <1>8, BeginsThree
  <2>3. Head(td) = a2 /\ Tail(td) = <<a3, a4>> \o rest /\ td # << >>
    BY <2>2 DEF Begins
  <2>4. E = F
    BY <2>3
  <2> HIDE DEF E, F
  <2>5. /\ E \in DiskT /\ E.super = D.super /\ E.ibit = D.ibit /\ E.bbit = D.bbit /\ E.node = D.node
        /\ \A c \in Blocks \ {b} : E.block[c] = D.block[c]
    BY <2>1, <2>4 DEF BlockPut
  <2>6. DotsAt(E, i, n, b, B, rest, Tail(td))
    BY <1>2, <1>8, <2>3, <2>5
  <2>7. DotsGo(D, E, i, n, b, B, rest, td)
    BY <1>1, <1>6, <1>8, <2>3, <2>5, <2>6 DEF DotsGo
  <2> QED
    BY <2>7 DEF E
<1>9. CASE D.bbit = B \cup {b} /\ td = <<a3, a4>> \o rest
  <2> DEFINE F == PutOn(D, a3)
  <2>1. BlockPut(D, F, b, DotsBlock(i))
    BY <1>1, PutDots
  <2> HIDE DEF a1, a2, a3, a4
  <2>2. Begins(td, a3, <<a4>> \o rest)
    BY <1>4, <1>5, <1>9, BeginsTwo
  <2>3. Head(td) = a3 /\ Tail(td) = <<a4>> \o rest /\ td # << >>
    BY <2>2 DEF Begins
  <2>4. E = F
    BY <2>3
  <2> HIDE DEF E, F
  <2>5. /\ E \in DiskT /\ E.super = D.super /\ E.ibit = D.ibit /\ E.bbit = D.bbit /\ E.node = D.node
        /\ \A c \in Blocks \ {b} : E.block[c] = D.block[c]
        /\ E.block[b] = DotsBlock(i)
    BY <2>1, <2>4 DEF BlockPut
  <2>6. DotsAt(E, i, n, b, B, rest, Tail(td))
    BY <1>2, <1>9, <2>3, <2>5
  <2>7. DotsGo(D, E, i, n, b, B, rest, td)
    BY <1>1, <1>6, <1>9, <2>3, <2>5, <2>6 DEF DotsGo
  <2> QED
    BY <2>7 DEF E
<1>10. CASE D.bbit = B \cup {b} /\ td = <<a4>> \o rest /\ D.block[b] = DotsBlock(i)
  <2> DEFINE F == PutOn(D, a4)
  <2>1. InodePut(D, F, i, Dotted(n, b))
    BY <1>3, InodeWritten
  <2> HIDE DEF a1, a2, a3, a4
  <2>2. Begins(td, a4, rest)
    BY <1>5, <1>10, BeginsOne
  <2>3. Head(td) = a4 /\ Tail(td) = rest /\ td # << >>
    BY <2>2 DEF Begins
  <2>4. E = F
    BY <2>3
  <2> HIDE DEF E, F
  <2>5. /\ E \in DiskT /\ E.super = D.super /\ E.ibit = D.ibit /\ E.bbit = D.bbit /\ E.block = D.block
        /\ E.node[i] = Dotted(n, b) /\ \A j \in Inodes \ {i} : E.node[j] = D.node[j]
    BY <2>1, <2>4 DEF InodePut
  <2>6. DotsGo(D, E, i, n, b, B, rest, td)
    BY <1>1, <1>6, <1>10, <2>3, <2>5 DEF DotsGo
  <2> QED
    BY <2>6 DEF E
<1> QED
  BY <1>1, <1>7, <1>8, <1>9, <1>10


\* A new directory block holds no names.
LEMMA DottedNode ==
  ASSUME NEW n \in NodeT, NEW b
  PROVE  /\ Dotted(n, b).mode = n.mode /\ Dotted(n, b).prot = n.prot
         /\ Dotted(n, b).size = 2 /\ Dotted(n, b).block = b
BY DEF Dotted, NodeT

LEMMA DottedLive ==
  ASSUME NEW D \in DiskT, NEW i \in Inodes, NEW b \in Blocks, D.node[i].block = b, D.node[i].size = 2,
         D.block[b] = DotsBlock(i)
  PROVE  LiveIn(D, i) = {} /\ D.block[b].data = 0
<1>1. \A k \in 0 .. (2 - 1) : k \in Slots
  BY DiskAssumption DEF Slots
<1>2. /\ \A k \in Slots : D.block[b].slot[k].name \in Dots
      /\ D.block[b].data = 0
  BY DotsBlockTyped
<1> QED
  BY <1>1, <1>2 DEF LiveIn, SlotIn

LEMMA RootedNew ==
  ASSUME NEW D \in DiskT, NEW b \in Blocks, D.super, D.ibit = {ROOT}, D.bbit = {b},
         D.node[ROOT] = Dotted(RootInode, b), D.block[b] = DotsBlock(ROOT)
  PROVE  Rooted(D, {ROOT}, 2, {})
<1>1. ROOT \in Inodes /\ RootInode \in NodeT /\ b # 0
  BY NodesTyped DEF Blocks
<1>2. D.node[ROOT].mode = "dir" /\ D.node[ROOT].size = 2 /\ D.node[ROOT].block = b
  <2>1. RootInode.mode = "dir"
    BY DEF RootInode, Inode
  <2> QED
    BY <1>1, <2>1, DottedNode
<1>3. LiveIn(D, ROOT) = {} /\ D.block[b].data = 0
  BY <1>1, <1>2, DottedLive
<1>4. Linking(D, {ROOT})
  BY <1>1, <1>3 DEF Linking, Distinct
<1>5. Apart(D, {ROOT})
  BY <1>2, <1>3 DEF Apart
<1>6. Unique(D, {ROOT}, {})
  BY <1>3 DEF Unique
<1> QED
  BY <1>1, <1>2, <1>3, <1>4, <1>5, <1>6 DEF Rooted, Sound

LEMMA RootDotsForms ==
  ASSUME NEW D \in DiskT, NEW sc, NEW td, D.super, D.ibit = {ROOT}, D.node[ROOT] = RootInode,
         \/ D.bbit = {} /\ td = <<RootDots>> \o AfterRoot
         \/ \E b \in Blocks : DotsAt(D, ROOT, RootInode, b, {}, AfterRoot, td)
  PROVE  Forms(D, sc, td)
<1>0. (D.bbit = {} /\ td = <<RootDots>> \o AfterRoot) \/ \E b \in Blocks : DotsAt(D, ROOT, RootInode, b, {}, AfterRoot, td)
  OBVIOUS
<1>1. AfterRoot \in Seq(StepT) /\ ROOT \in Inodes /\ RootInode \in NodeT
  BY FormatRests, NodesTyped
<1>2. LiveIn(D, ROOT) = {}
  BY DEF LiveIn, RootInode, Inode
<1>3. CASE D.bbit = {} /\ td = <<RootDots>> \o AfterRoot
  <2>1. RootDots \in StepT /\ RootDots.do = "dots_block"
    BY FormatSteps
  <2>2. Begins(td, RootDots, AfterRoot)
    BY <1>1, <1>3, <2>1, BeginsOne
  <2>3. FormatCall(D, td)
    BY <1>3 DEF FormatCall
  <2> QED
    BY <2>1, <2>2, <2>3, FormsFunction DEF Functions
<1>4. ASSUME NEW b \in Blocks, DotsAt(D, ROOT, RootInode, b, {}, AfterRoot, td)
      PROVE  Forms(D, sc, td)
  <2> DEFINE E == PutOn(D, Head(td))
  <2>1. DotsGo(D, E, ROOT, RootInode, b, {}, AfterRoot, td)
    BY <1>1, <1>4, DotsWrites
  <2>2. td # << >> /\ Head(td).do # "ensure_fs_mounted" /\ E \in DiskT /\ Head(td).do \notin Functions
    BY <2>1 DEF DotsGo, Functions
  <2> HIDE DEF E
  <2>3. BelowIn(D, ROOT) \subseteq BelowIn(E, ROOT)
    BY <1>2, <2>2, RootAlone
  <2>4. Formats(E, sc, Tail(td))
    <3>1. CASE E.node = D.node /\ DotsAt(E, ROOT, RootInode, b, {}, AfterRoot, Tail(td))
      <4>1. E.super /\ E.ibit = {ROOT} /\ E.node[ROOT] = RootInode
        BY <2>1, <3>1 DEF DotsGo
      <4> QED
        BY <3>1, <4>1 DEF Formats, FormattingRoot
    <3>2. CASE /\ E.node[ROOT] = Dotted(RootInode, b) /\ E.block[b] = DotsBlock(ROOT)
               /\ E.bbit = {} \cup {b} /\ Tail(td) = AfterRoot
      <4>1. E.super /\ E.ibit = {ROOT} /\ E.bbit = {b}
        BY <2>1, <3>2 DEF DotsGo
      <4>2. Rooted(E, {ROOT}, 2, {})
        BY <2>2, <3>2, <4>1, RootedNew
      <4>3. E.bbit = {E.node[ROOT].block}
        BY <1>1, <3>2, <4>1, DottedNode
      <4> QED
        BY <3>2, <4>1, <4>2, <4>3 DEF Formats, FormattingApp
    <3> QED
      BY <2>1, <3>1, <3>2 DEF DotsGo
  <2> QED
    BY <2>2, <2>3, <2>4 DEF Forms, E
<1> QED
  BY <1>0, <1>3, <1>4

LEMMA FormattingRootForms ==
  ASSUME NEW D \in DiskT, NEW sc, NEW td, FormattingRoot(D, Quiet(D, sc), td)
  PROVE  Forms(D, sc, td)
<1> DEFINE q == Quiet(D, sc)
<1>1. \/ q /\ td = ipo_fs_format \o <<Mount>>
      \/ q /\ D.super /\ td = Tail(ipo_fs_format \o <<Mount>>)
      \/ q /\ D.super /\ D.ibit = {} /\ td = Tail(Tail(ipo_fs_format \o <<Mount>>))
      \/ q /\ D.super /\ D.ibit = {} /\ D.bbit = {} /\ \E zs \in Zeroing : td = zs \o AfterZeroing
      \/ q /\ D.super /\ D.ibit = {ROOT} /\ D.bbit = {} /\ td = Tail(AfterZeroing)
      \/ /\ D.super /\ D.ibit = {ROOT} /\ D.node[ROOT] = RootInode
         /\ \/ D.bbit = {} /\ td = <<RootDots>> \o AfterRoot
            \/ \E b \in Blocks : DotsAt(D, ROOT, RootInode, b, {}, AfterRoot, td)
  BY DEF FormattingRoot
<1> HIDE DEF q
<1>2. q => Quiet(D, sc)
  BY DEF q
<1>3. CASE q /\ \/ td = ipo_fs_format \o <<Mount>>
                \/ D.super /\ td = Tail(ipo_fs_format \o <<Mount>>)
                \/ D.super /\ D.ibit = {} /\ td = Tail(Tail(ipo_fs_format \o <<Mount>>))
  BY <1>2, <1>3, FormatStarts
<1>4. CASE q /\ D.super /\ D.bbit = {} /\ \/ D.ibit = {} /\ \E zs \in Zeroing : td = zs \o AfterZeroing
                                          \/ D.ibit = {ROOT} /\ td = Tail(AfterZeroing)
  BY <1>2, <1>4, FormatZeroes
<1>5. CASE /\ D.super /\ D.ibit = {ROOT} /\ D.node[ROOT] = RootInode
           /\ \/ D.bbit = {} /\ td = <<RootDots>> \o AfterRoot
              \/ \E b \in Blocks : DotsAt(D, ROOT, RootInode, b, {}, AfterRoot, td)
  BY <1>5, RootDotsForms
<1> QED
  BY <1>1, <1>3, <1>4, <1>5


\* The root stays what it is while others are made.
LEMMA RootedKept ==
  ASSUME NEW D \in DiskT, NEW E \in DiskT, NEW G, NEW sz, NEW L, Rooted(D, G, sz, L),
         Kept(D, E, G), E.node[ROOT] = D.node[ROOT]
  PROVE  /\ Rooted(E, G, sz, L) /\ BelowIn(E, ROOT) = BelowIn(D, ROOT)
         /\ \A k \in L : SlotIn(E, ROOT, k) = SlotIn(D, ROOT, k)
         /\ \A j \in G : E.node[j].prot = D.node[j].prot
<1>1. D.super /\ Linking(D, G) /\ Unique(D, G, {}) /\ ROOT \in G /\ LiveIn(D, ROOT) = L
  BY DEF Rooted, Sound, Linking
<1>2. Sound(E, G) /\ Unique(E, G, {}) /\ E.super
  BY <1>1, KeptGood
<1>3. SameNames(D, E, G)
  BY DEF Kept
<1>4. LiveIn(E, ROOT) = L /\ \A k \in L : SlotIn(E, ROOT, k) = SlotIn(D, ROOT, k)
  BY <1>1, <1>3 DEF SameNames
<1>5. BelowIn(E, ROOT) = BelowIn(D, ROOT)
  BY <1>1, <1>3, SameBelow
<1>6. Rooted(E, G, sz, L)
  BY <1>2, <1>4 DEF Rooted
<1>7. \A j \in G : E.node[j].prot = D.node[j].prot
  BY <1>3 DEF SameNames
<1> QED
  BY <1>4, <1>5, <1>6, <1>7

LEMMA RootedFacts ==
  ASSUME NEW D, NEW G, NEW sz, NEW L, Rooted(D, G, sz, L)
  PROVE  Apart(D, G) /\ Linking(D, G) /\ G \in SUBSET Inodes /\ ROOT \in G /\ D.super /\ Unique(D, G, {})
         /\ LiveIn(D, ROOT) = L /\ D.node[ROOT].size = sz /\ D.node[ROOT].mode = "dir" /\ D.node[ROOT].block # 0
BY DEF Rooted, Sound, Linking

LEMMA AppSteps ==
  ASSUME NEW i \in Inodes
  PROVE  /\ AddApp(i) \in StepT /\ AppDots(i) \in StepT /\ AddAutorun(i) \in StepT
         /\ AddApp(i).do = "dir_add_entry" /\ AppDots(i).do = "dots_block" /\ AddAutorun(i).do = "dir_add_entry"
         /\ <<AddApp(i)>> \o AfterApp \in Seq(StepT) /\ <<AddAutorun(i)>> \o AfterAutorun \in Seq(StepT)
<1>1. ROOT \in Inodes /\ AppInode \in NodeT
  BY NodesTyped
<1>2. Entry(i, "dir", "app") \in EntryT /\ Entry(i, "file", "autorun") \in EntryT
      /\ Entry(i, "dir", "app").inode # 0 /\ Entry(i, "file", "autorun").inode # 0
  BY DiskAssumption DEF Entry, EntryT, Modes, Inodes
<1>3. AddApp(i) \in StepT /\ AddAutorun(i) \in StepT
  BY <1>1, <1>2, CallsTyped, ErrsTyped DEF AddApp, AddAutorun
<1>4. AppDots(i) \in StepT
  BY <1>1, CallsTyped, ErrsTyped DEF AppDots
<1>5. AddApp(i).do = "dir_add_entry" /\ AppDots(i).do = "dots_block" /\ AddAutorun(i).do = "dir_add_entry"
  BY DEF AddApp, AppDots, AddAutorun, Step
<1>6. AfterApp \in Seq(StepT) /\ AfterAutorun \in Seq(StepT)
  BY FormatRests
<1>7. <<AddApp(i)>> \o AfterApp \in Seq(StepT) /\ <<AddAutorun(i)>> \o AfterAutorun \in Seq(StepT)
  BY <1>3, <1>6, ListOne
<1> QED
  BY <1>3, <1>4, <1>5, <1>7


\* The inode of somebody else is marked, or written.
Beside(D, E, G, i, ibit, n) ==
  /\ E \in DiskT /\ Kept(D, E, G) /\ E.node[ROOT] = D.node[ROOT] /\ E.bbit = D.bbit
  /\ E.ibit = ibit /\ E.node[i] = n
LEMMA BesideBit ==
  ASSUME NEW D \in DiskT, NEW G \in SUBSET Inodes, Apart(D, G), NEW i \in Inodes, NEW err
  PROVE  Beside(D, PutOn(D, bitmap_set_inode(i, TRUE, err)), G, i, D.ibit \cup {i}, D.node[i])
<1> DEFINE E == PutOn(D, bitmap_set_inode(i, TRUE, err))
<1>1. /\ Kept(D, E, G) /\ Owned(E, G) = Owned(D, G) /\ E \in DiskT
      /\ E.ibit = D.ibit \cup {i} /\ E.node = D.node /\ E.block = D.block /\ E.bbit = D.bbit
  BY InodeBitOn, Zenon
<1> HIDE DEF E
<1>2. Beside(D, E, G, i, D.ibit \cup {i}, D.node[i])
  BY <1>1 DEF Beside
<1> QED
  BY <1>2 DEF E

LEMMA BesideInode ==
  ASSUME NEW D \in DiskT, NEW G \in SUBSET Inodes, Apart(D, G), ROOT \in G, NEW i \in Inodes \ G,
         NEW n \in NodeT, NEW err
  PROVE  Beside(D, PutOn(D, write_inode(i, n, err)), G, i, D.ibit, n)
<1> DEFINE E == PutOn(D, write_inode(i, n, err))
<1>1. /\ Kept(D, E, G) /\ E \in DiskT /\ E.ibit = D.ibit /\ E.bbit = D.bbit /\ E.node[i] = n
      /\ \A j \in Inodes \ {i} : E.node[j] = D.node[j]
  BY InodeSet
<1> HIDE DEF E
<1>2. Beside(D, E, G, i, D.ibit, n)
  BY <1>1, NodesTyped DEF Beside
<1> QED
  BY <1>2 DEF E

\* Inode i is marked, cleared and written: the root does not change.
LEMMA AppInodes ==
  ASSUME NEW D \in DiskT, NEW sc, NEW td, Rooted(D, {ROOT}, 2, {}), NEW i \in Inodes \ {ROOT},
         D.bbit = {D.node[ROOT].block}, NEW a, a = AppDots(i), NEW rest, rest = <<AddApp(i)>> \o AfterApp,
         NEW a1, a1 = bitmap_set_inode(i, TRUE, Fatal), NEW a2, a2 = write_inode(i, ZeroInode, Ignored),
         NEW a3, a3 = write_inode(i, AppInode, Ignored),
         \/ D.ibit = {ROOT} /\ td = <<a1, a2, a3, a>> \o rest
         \/ /\ D.ibit = {ROOT, i}
            /\ \/ td = <<a2, a3, a>> \o rest
               \/ td = <<a3, a>> \o rest
               \/ D.node[i] = AppInode /\ td = <<a>> \o rest
  PROVE  Forms(D, sc, td)
<1>1. /\ a \in StepT /\ rest \in Seq(StepT) /\ a.do \in Functions /\ a.do # "ensure_fs_mounted"
  BY AppSteps DEF Functions
<1>2. a1 \in StepT /\ a2 \in StepT /\ a3 \in StepT
  BY WritesTyped, ErrsTyped, NodesTyped
<1>3. a1.do \notin Functions /\ a2.do \notin Functions /\ a3.do \notin Functions
  BY DEF bitmap_set_inode, write_inode, Step, Functions
<1>4. Apart(D, {ROOT}) /\ LiveIn(D, ROOT) = {} /\ ROOT \in Inodes /\ {ROOT} \in SUBSET Inodes
  BY RootedFacts, NodesTyped
<1>5. ASSUME NEW F, NEW n, Beside(D, F, {ROOT}, i, {ROOT, i}, n), NEW t,
             t = <<a2, a3, a>> \o rest \/ t = <<a3, a>> \o rest \/ (n = AppInode /\ t = <<a>> \o rest)
      PROVE  Formats(F, sc, t)
  <2>1. /\ F \in DiskT /\ Kept(D, F, {ROOT}) /\ F.node[ROOT] = D.node[ROOT] /\ F.bbit = D.bbit
        /\ F.ibit = {ROOT, i} /\ F.node[i] = n
    BY <1>5 DEF Beside
  <2>2. Rooted(F, {ROOT}, 2, {})
    BY <2>1, RootedKept
  <2>3. F.bbit = {F.node[ROOT].block}
    BY <2>1
  <2>4. MakingApp(F, i, t)
    BY <1>5, <2>1, <2>3 DEF MakingApp
  <2>5. FormattingApp(F, t)
    BY <2>2, <2>4 DEF FormattingApp
  <2> QED
    BY <2>5 DEF Formats
<1>6. CASE D.ibit = {ROOT} /\ td = <<a1, a2, a3, a>> \o rest
  <2>1. Beside(D, PutOn(D, a1), {ROOT}, i, {ROOT, i}, D.node[i])
    <3>1. Beside(D, PutOn(D, bitmap_set_inode(i, TRUE, Fatal)), {ROOT}, i, D.ibit \cup {i}, D.node[i])
      BY <1>4, BesideBit
    <3>2. D.ibit \cup {i} = {ROOT, i}
      BY <1>6
    <3> QED
      BY <3>1, <3>2
  <2>2. Begins(td, a1, <<a2, a3, a>> \o rest)
    BY <1>1, <1>2, <1>6, BeginsFour
  <2>3. Formats(PutOn(D, a1), sc, <<a2, a3, a>> \o rest)
    BY <1>5, <2>1
  <2> QED
    BY <1>2, <1>3, <1>4, <2>2, <2>3, FormsWrite
<1>7. ASSUME D.ibit = {ROOT, i}
      PROVE  /\ Beside(D, PutOn(D, a2), {ROOT}, i, {ROOT, i}, ZeroInode)
             /\ Beside(D, PutOn(D, a3), {ROOT}, i, {ROOT, i}, AppInode)
  <2>1. ROOT \in {ROOT} /\ i \in Inodes \ {ROOT} /\ ZeroInode \in NodeT /\ AppInode \in NodeT
    BY NodesTyped
  <2>2. /\ Beside(D, PutOn(D, write_inode(i, ZeroInode, Ignored)), {ROOT}, i, D.ibit, ZeroInode)
        /\ Beside(D, PutOn(D, write_inode(i, AppInode, Ignored)), {ROOT}, i, D.ibit, AppInode)
    BY <1>4, <2>1, BesideInode
  <2> QED
    BY <1>7, <2>2
<1>8. CASE D.ibit = {ROOT, i} /\ td = <<a2, a3, a>> \o rest
  <2>1. Begins(td, a2, <<a3, a>> \o rest)
    BY <1>1, <1>2, <1>8, BeginsThree
  <2>2. Formats(PutOn(D, a2), sc, <<a3, a>> \o rest)
    BY <1>5, <1>7, <1>8
  <2> QED
    BY <1>2, <1>3, <1>4, <2>1, <2>2, FormsWrite
<1>9. CASE D.ibit = {ROOT, i} /\ td = <<a3, a>> \o rest
  <2>1. Begins(td, a3, <<a>> \o rest)
    BY <1>1, <1>2, <1>9, BeginsTwo
  <2>2. Formats(PutOn(D, a3), sc, <<a>> \o rest)
    BY <1>5, <1>7, <1>9
  <2> QED
    BY <1>2, <1>3, <1>4, <2>1, <2>2, FormsWrite
<1>10. CASE D.ibit = {ROOT, i} /\ D.node[i] = AppInode /\ td = <<a>> \o rest
  <2>1. Begins(td, a, rest)
    BY <1>1, <1>10, BeginsOne
  <2>2. AppCall(D, i, td)
    BY <1>10 DEF AppCall
  <2>3. FormatCall(D, td)
    BY <2>2 DEF FormatCall
  <2> QED
    BY <1>1, <2>1, <2>3, FormsFunction
<1> QED
  BY <1>6, <1>8, <1>9, <1>10

\* The block of /app gets its dots.
LEMMA AppDotsForms ==
  ASSUME NEW D \in DiskT, NEW sc, NEW td, Rooted(D, {ROOT}, 2, {}), NEW i \in Inodes \ {ROOT},
         D.ibit = {ROOT, i}, D.node[i] = AppInode, NEW c,
         DotsAt(D, i, AppInode, c, {D.node[ROOT].block}, <<AddApp(i)>> \o AfterApp, td)
  PROVE  Forms(D, sc, td)
<1> DEFINE b == D.node[ROOT].block
           rest == <<AddApp(i)>> \o AfterApp
           E == PutOn(D, Head(td))
<1>1. rest \in Seq(StepT) /\ AppInode \in NodeT /\ ROOT \in Inodes /\ {ROOT} \in SUBSET Inodes
  BY AppSteps, NodesTyped
<1>2. DotsGo(D, E, i, AppInode, c, {b}, rest, td)
  BY <1>1, DotsWrites
<1> HIDE DEF E, rest
<1>3. td # << >> /\ Head(td).do # "ensure_fs_mounted" /\ E \in DiskT /\ c \in Blocks \ {b}
      /\ Head(td).do \notin Functions
  BY <1>2 DEF DotsGo, Functions
<1>4. Apart(D, {ROOT}) /\ LiveIn(D, ROOT) = {} /\ b # 0
  BY RootedFacts
<1>5. BelowIn(D, ROOT) \subseteq BelowIn(E, ROOT)
  BY <1>3, <1>4, RootAlone
<1>6. E.node[ROOT] = D.node[ROOT] /\ E.super = D.super /\ E.ibit = {ROOT, i}
  BY <1>1, <1>2 DEF DotsGo
<1>7. E.bbit = {b} \/ E.bbit = {b, c}
  BY <1>2 DEF DotsGo
<1>8. b \in Blocks /\ E.block[b] = D.block[b]
  <2>1. b \in Blocks
    BY <1>1, <1>4, SlotTyped
  <2> QED
    BY <1>2, <1>3, <2>1 DEF DotsGo
<1>9. Kept(D, E, {ROOT}) /\ Owned(E, {ROOT}) = Owned(D, {ROOT})
  <2>1. Untouched(D, E, {ROOT})
    BY <1>6, <1>7, <1>8 DEF Untouched
  <2> QED
    BY <1>4, <2>1, UntouchedKept
<1>10. Rooted(E, {ROOT}, 2, {}) /\ E.node[ROOT].block = b
  BY <1>3, <1>6, <1>9, RootedKept
<1>11. Formats(E, sc, Tail(td))
  <2>1. MakingApp(E, i, Tail(td))
    <3>1. CASE E.node = D.node /\ DotsAt(E, i, AppInode, c, {b}, rest, Tail(td))
      BY <1>3, <1>6, <1>10, <3>1 DEF MakingApp, rest
    <3>2. CASE /\ E.node[i] = Dotted(AppInode, c) /\ E.block[c] = DotsBlock(i)
               /\ E.bbit = {b} \cup {c} /\ Tail(td) = rest
      <4>1. AppInode.mode = "dir" /\ AppInode.prot = TRUE
        BY DEF AppInode, Inode
      <4>2. E.node[i].mode = "dir" /\ E.node[i].prot /\ E.node[i].size = 2 /\ E.node[i].block = c
        BY <1>1, <3>2, <4>1, DottedNode
      <4>3. LiveIn(E, i) = {} /\ E.block[c].data = 0
        BY <1>3, <3>2, <4>2, DottedLive
      <4>4. c \notin Owned(E, {ROOT})
        BY <1>3, <1>10 DEF Owned
      <4>5. Newborn(E, {ROOT}, i, "dir")
        BY <1>6, <3>2, <4>2, <4>3, <4>4 DEF Newborn
      <4> QED
        BY <1>3, <1>6, <1>10, <3>2, <4>2, <4>5 DEF MakingApp, rest
    <3> QED
      BY <1>2, <3>1, <3>2 DEF DotsGo
  <2> QED
    BY <1>10, <2>1 DEF Formats, FormattingApp
<1> QED
  BY <1>3, <1>5, <1>11 DEF Forms, E


\* The root has one more name, n of the new inode i.
RootGrew(D, E, G, i, sz, L, e) ==
  /\ E \in DiskT /\ Rooted(E, G \cup {i}, sz + 1, L \cup {sz}) /\ SlotIn(E, ROOT, sz) = e
  /\ \A k \in L : SlotIn(E, ROOT, k) = SlotIn(D, ROOT, k)
  /\ \A j \in G \cup {i} : E.node[j].prot = D.node[j].prot
  /\ E.ibit = D.ibit /\ E.bbit = D.bbit /\ BelowIn(D, ROOT) \subseteq BelowIn(E, ROOT)
LEMMA RootGrows ==
  ASSUME NEW D \in DiskT, NEW G \in SUBSET Inodes, NEW sz, NEW L, Rooted(D, G, sz, L), NEW i \in Inodes \ G,
         NEW t \in Modes, NEW n \in {"app", "autorun"}, Takes(D, G, ROOT, D.node[ROOT].block),
         D.block[D.node[ROOT].block].slot[sz] = Entry(i, t, n),
         Newborn(D, G, i, t), D.node[i].block # D.node[ROOT].block, Fresh(D, ROOT, Entry(i, t, n))
  PROVE  RootGrew(D, PutOn(D, write_inode(ROOT, Counted(D.node[ROOT], D.node[ROOT].block), Ignored)),
                  G, i, sz, L, Entry(i, t, n))
<1> DEFINE p == D.node[ROOT].block
           e == Entry(i, t, n)
           c == Counted(D.node[ROOT], p)
           E == PutOn(D, write_inode(ROOT, c, Ignored))
<1>1. e \in EntryT /\ e.inode = i /\ e.type = t /\ e.name = n /\ e.inode # 0 /\ e.name \notin Dots
  BY EntryTyped
<1>2. D.block[p].slot[D.node[ROOT].size] = e /\ Fresh(D, ROOT, e)
  BY RootedFacts
<1>3. /\ Apart(D, G) /\ Linking(D, G) /\ ROOT \in G /\ D.super /\ Unique(D, G, {})
      /\ LiveIn(D, ROOT) = L /\ D.node[ROOT].size = sz /\ D.node[ROOT].mode = "dir" /\ p # 0
  BY RootedFacts
<1> HIDE DEF e
<1>4. ROOT \in Inodes /\ D.node[ROOT] \in NodeT /\ p \in Blocks
  BY <1>3, NodesTyped, SlotTyped
<1>5. Stored(D, G, ROOT, p, e)
  BY <1>1, <1>2, <1>3, <1>4 DEF Stored
<1>6. Newborn(D, G, i, e.type) /\ D.node[i].block # p
  BY <1>1
<1>7. Grown(D, E, G \cup {i}, ROOT, sz, e) /\ Apart(E, G \cup {i}) /\ E \in DiskT
  BY <1>3, <1>5, <1>6, EntryCounts
<1>8. c \in NodeT /\ c.size = sz + 1 /\ c.block = p /\ c.mode = "dir"
  <2>1. D.node[ROOT].size < MAX_ENTRIES
    BY DEF Takes
  <2>2. c.size = D.node[ROOT].size + 1 /\ c.block = p /\ c.mode = D.node[ROOT].mode
    BY <1>4 DEF Counted, NodeT
  <2>3. c \in NodeT
    BY <1>4, <2>1, NodeUpdates DEF Counted
  <2> QED
    BY <1>3, <2>2, <2>3
<1>9. InodePut(D, E, ROOT, c)
  BY <1>4, <1>8, InodeWritten
<1> HIDE DEF c, E
<1>10. E.ibit = D.ibit /\ E.bbit = D.bbit /\ E.super = D.super /\ E.node[ROOT] = c
  BY <1>9 DEF InodePut
<1>11. D.node[i].mode = e.type /\ LiveIn(D, i) = {}
  BY <1>6 DEF Newborn
<1>12. Linking(E, G \cup {i}) /\ Unique(E, G \cup {i}, {})
  BY <1>1, <1>2, <1>3, <1>7, <1>11, GrownNew
<1>13. BelowIn(D, ROOT) \subseteq BelowIn(E, ROOT)
  BY <1>3, <1>7, GrownBelow
<1>14. /\ LiveIn(E, ROOT) = L \cup {sz} /\ SlotIn(E, ROOT, sz) = e
       /\ \A k \in L : SlotIn(E, ROOT, k) = SlotIn(D, ROOT, k)
       /\ \A j \in G \cup {i} : E.node[j].prot = D.node[j].prot
  BY <1>3, <1>7 DEF Grown
<1> HIDE DEF p
<1>15. Rooted(E, G \cup {i}, sz + 1, L \cup {sz})
  BY <1>3, <1>7, <1>8, <1>10, <1>12, <1>14 DEF Rooted, Sound
<1>16. RootGrew(D, E, G, i, sz, L, e)
  BY <1>7, <1>10, <1>13, <1>14, <1>15 DEF RootGrew
<1> QED
  BY <1>16 DEF E, c, e, p

\* The name of /app is entered.
LEMMA AppAdds ==
  ASSUME NEW D \in DiskT, NEW sc, NEW td, Rooted(D, {ROOT}, 2, {}), NEW i \in Inodes \ {ROOT},
         D.ibit = {ROOT, i}, D.node[i].prot, Newborn(D, {ROOT}, i, "dir"),
         D.node[i].block # D.node[ROOT].block,
         Adding(D, {ROOT}, ROOT, Entry(i, "dir", "app"), D.node[ROOT].block, Fatal, AfterApp, td)
  PROVE  Forms(D, sc, td)
<1> DEFINE b == D.node[ROOT].block
           e == Entry(i, "dir", "app")
           E == PutOn(D, Head(td))
           G == {ROOT}
<1>1. /\ Apart(D, G) /\ LiveIn(D, ROOT) = {} /\ ROOT \in Inodes /\ G \in SUBSET Inodes /\ b # 0
      /\ D.node[ROOT].size = 2
  BY RootedFacts, NodesTyped
<1>2. e \in EntryT /\ b \in Blocks /\ Fatal \in Errs /\ AfterApp \in Seq(StepT)
  <2>1. "dir" \in Modes /\ "app" \in Names \cup {"app", "autorun"}
    BY DEF Modes
  <2>2. b \in Blocks
    BY <1>1, SlotTyped
  <2> QED
    BY <2>1, <2>2, EntryTyped, ErrsTyped, FormatRests
<1>3. AddGoes(D, E, G, ROOT, e, b, Fatal, AfterApp, td)
  BY <1>1, <1>2, AddingWrites
<1> HIDE DEF E, e
<1>4. td # << >> /\ Head(td).do # "ensure_fs_mounted" /\ E \in DiskT /\ Head(td).do \notin Functions
  BY <1>3 DEF AddGoes, Functions
<1>5. BelowIn(D, ROOT) \subseteq BelowIn(E, ROOT)
  BY <1>1, <1>4, RootAlone
<1>6. Formats(E, sc, Tail(td))
  <2>1. CASE /\ Kept(D, E, G) /\ E.node = D.node /\ E.ibit = D.ibit /\ D.bbit \subseteq E.bbit
             /\ \A a \in Blocks \ {b} : E.block[a] = D.block[a]
             /\ Owned(E, G) = Owned(D, G)
             /\ Adding(E, G, ROOT, e, b, Fatal, AfterApp, Tail(td))
    <3>1. Rooted(E, G, 2, {})
      BY <1>4, <2>1, RootedKept
    <3>2. Newborn(E, G, i, "dir")
      <4>1. CASE D.node[i].block # 0
        <5>1. D.node[i].block \in Blocks \ {b}
          BY <4>1, SlotTyped
        <5>2. E.block[D.node[i].block] = D.block[D.node[i].block] /\ \A l : SlotIn(E, i, l) = SlotIn(D, i, l)
          BY <2>1, <5>1 DEF SlotIn
        <5>3. LiveIn(E, i) = LiveIn(D, i)
          BY <2>1, <5>2, SameLive
        <5> QED
          BY <2>1, <5>2, <5>3 DEF Newborn
      <4>2. CASE D.node[i].block = 0
        BY <2>1, <4>2 DEF Newborn, LiveIn
      <4> QED
        BY <4>1, <4>2
    <3>3. MakingApp(E, i, Tail(td))
      BY <2>1, <3>2 DEF MakingApp, e
    <3> QED
      BY <3>1, <3>3 DEF Formats, FormattingApp
  <2>2. CASE /\ Head(td) = write_inode(ROOT, Counted(D.node[ROOT], b), Ignored) /\ Tail(td) = AfterApp
             /\ Takes(D, G, ROOT, b) /\ D.block[b].slot[D.node[ROOT].size] = e /\ Fresh(D, ROOT, e)
    <3> DEFINE F == PutOn(D, write_inode(ROOT, Counted(D.node[ROOT], b), Ignored))
    <3>1. RootGrew(D, F, G, i, 2, {}, e)
      <4>1. "dir" \in Modes /\ "app" \in {"app", "autorun"} /\ D.block[b].slot[2] = Entry(i, "dir", "app")
        BY <1>1, <2>2 DEF Modes, e
      <4> QED
        BY <1>1, <2>2, <4>1, RootGrows DEF e
    <3>2. E = F
      BY <2>2 DEF E
    <3> HIDE DEF F
    <3>3. /\ Rooted(E, {ROOT, i}, 3, {2}) /\ SlotIn(E, ROOT, 2) = e /\ E.node[i].prot /\ E.ibit = {ROOT, i}
      <4>1. {ROOT} \cup {i} = {ROOT, i} /\ {} \cup {2} = {2} /\ 2 + 1 = 3
        OBVIOUS
      <4>2. Rooted(E, {ROOT} \cup {i}, 2 + 1, {} \cup {2}) /\ SlotIn(E, ROOT, 2) = e /\ E.ibit = D.ibit
        BY <3>1, <3>2 DEF RootGrew
      <4>3. E.node[i].prot = D.node[i].prot
        BY <3>1, <3>2 DEF RootGrew
      <4> QED
        BY <4>1, <4>2, <4>3
    <3>4. FormattingAutorun(E, Tail(td))
      BY <2>2, <3>3 DEF FormattingAutorun, e
    <3> QED
      BY <3>4 DEF Formats
  <2> QED
    BY <1>3, <2>1, <2>2 DEF AddGoes
<1> QED
  BY <1>4, <1>5, <1>6 DEF Forms, E

LEMMA FormattingAppForms ==
  ASSUME NEW D \in DiskT, NEW sc, NEW td, FormattingApp(D, td)
  PROVE  Forms(D, sc, td)
<1>1. Rooted(D, {ROOT}, 2, {})
  BY DEF FormattingApp
<1>2. CASE D.ibit = {ROOT} /\ D.bbit = {D.node[ROOT].block} /\ td = AfterRoot
  <2>1. Begins(td, DoApp, AfterApp)
    BY <1>2, FormatRests, FormatSteps, BeginsOne
  <2>3. FormatCall(D, td)
    BY <1>1, <1>2, <2>1 DEF FormatCall, Begins
  <2>2. DoApp.do \in Functions /\ DoApp.do # "ensure_fs_mounted"
    BY FormatSteps DEF Functions
  <2> QED
    BY <2>1, <2>2, <2>3, FormsFunction
<1>3. ASSUME NEW i \in Inodes \ {ROOT}, MakingApp(D, i, td)
      PROVE  Forms(D, sc, td)
  <2> DEFINE b == D.node[ROOT].block
             a1 == bitmap_set_inode(i, TRUE, Fatal)
             a2 == write_inode(i, ZeroInode, Ignored)
             a3 == write_inode(i, AppInode, Ignored)
             a == AppDots(i)
             rest == <<AddApp(i)>> \o AfterApp
  <2>1. \/ /\ D.bbit = {b}
           /\ \/ D.ibit = {ROOT} /\ td = <<a1, a2, a3, a>> \o rest
              \/ /\ D.ibit = {ROOT, i}
                 /\ \/ td = <<a2, a3, a>> \o rest
                    \/ td = <<a3, a>> \o rest
                    \/ D.node[i] = AppInode /\ td = <<a>> \o rest
        \/ /\ D.ibit = {ROOT, i} /\ D.node[i] = AppInode
           /\ \E c \in Blocks : DotsAt(D, i, AppInode, c, {b}, rest, td)
        \/ /\ D.ibit = {ROOT, i} /\ D.node[i].prot /\ Newborn(D, {ROOT}, i, "dir") /\ D.node[i].block # b
           /\ \/ td = rest
              \/ Adding(D, {ROOT}, ROOT, Entry(i, "dir", "app"), b, Fatal, AfterApp, td)
    BY <1>3 DEF MakingApp
  <2>2. ASSUME D.bbit = {b},
               \/ D.ibit = {ROOT} /\ td = <<a1, a2, a3, a>> \o rest
               \/ /\ D.ibit = {ROOT, i}
                  /\ \/ td = <<a2, a3, a>> \o rest
                     \/ td = <<a3, a>> \o rest
                     \/ D.node[i] = AppInode /\ td = <<a>> \o rest
        PROVE  Forms(D, sc, td)
    BY <1>1, <2>2, AppInodes
  <2>3. ASSUME D.ibit = {ROOT, i}, D.node[i] = AppInode,
               NEW c \in Blocks, DotsAt(D, i, AppInode, c, {b}, rest, td)
        PROVE  Forms(D, sc, td)
    BY <1>1, <2>3, AppDotsForms
  <2>4. ASSUME D.ibit = {ROOT, i}, D.node[i].prot, Newborn(D, {ROOT}, i, "dir"), D.node[i].block # b, td = rest
        PROVE  Forms(D, sc, td)
    <3>1. AddApp(i) \in StepT /\ AddApp(i).do = "dir_add_entry" /\ AfterApp \in Seq(StepT)
      BY AppSteps, FormatRests
    <3>2. Begins(td, AddApp(i), AfterApp)
      BY <2>4, <3>1, BeginsOne
    <3>3. AppCall(D, i, td)
      BY <1>1, <2>4 DEF AppCall
    <3>4. FormatCall(D, td)
      BY <3>3 DEF FormatCall
    <3> QED
      BY <3>1, <3>2, <3>4, FormsFunction DEF Functions
  <2>5. ASSUME D.ibit = {ROOT, i}, D.node[i].prot, Newborn(D, {ROOT}, i, "dir"), D.node[i].block # b,
               Adding(D, {ROOT}, ROOT, Entry(i, "dir", "app"), b, Fatal, AfterApp, td)
        PROVE  Forms(D, sc, td)
    BY <1>1, <2>5, AppAdds
  <2> HIDE DEF a1, a2, a3, a, rest, b
  <2> QED
    BY <2>1, <2>2, <2>3, <2>4, <2>5
<1> QED
  BY <1>2, <1>3 DEF FormattingApp


LEMMA AppKept ==
  ASSUME NEW D \in DiskT, NEW E \in DiskT, NEW a, AppThere(D, a), Kept(D, E, {ROOT, a}),
         E.node[ROOT] = D.node[ROOT]
  PROVE  AppThere(E, a) /\ BelowIn(E, ROOT) = BelowIn(D, ROOT)
<1> DEFINE G == {ROOT, a}
<1>1. Rooted(D, G, 3, {2})
  BY DEF AppThere
<1>2. Kept(D, E, G) /\ 2 \in {2} /\ a \in G
  OBVIOUS
<1> HIDE DEF G
<1>3. /\ Rooted(E, G, 3, {2}) /\ BelowIn(E, ROOT) = BelowIn(D, ROOT)
      /\ \A k \in {2} : SlotIn(E, ROOT, k) = SlotIn(D, ROOT, k)
      /\ \A j \in G : E.node[j].prot = D.node[j].prot
  BY <1>1, <1>2, RootedKept
<1> QED
  BY <1>2, <1>3 DEF AppThere, G

LEMMA AutorunInodes ==
  ASSUME NEW D \in DiskT, NEW sc, NEW td, NEW a \in Inodes \ {ROOT}, AppThere(D, a),
         NEW i \in Inodes \ {ROOT, a}, NEW rest, rest = <<AddAutorun(i)>> \o AfterAutorun,
         NEW a1, a1 = bitmap_set_inode(i, TRUE, Fatal), NEW a2, a2 = write_inode(i, ZeroInode, Ignored),
         NEW a3, a3 = write_inode(i, AutorunInode, Ignored),
         \/ td = <<a1, a2, a3>> \o rest
         \/ i \in D.ibit /\ td = <<a2, a3>> \o rest
         \/ i \in D.ibit /\ td = <<a3>> \o rest
         \/ i \in D.ibit /\ D.node[i] = AutorunInode /\ td = rest
  PROVE  Forms(D, sc, td)
<1> DEFINE G == {ROOT, a}
<1>1. rest \in Seq(StepT)
  BY AppSteps
<1>2. a1 \in StepT /\ a2 \in StepT /\ a3 \in StepT
  BY WritesTyped, ErrsTyped, NodesTyped
<1>3. a1.do \notin Functions /\ a2.do \notin Functions /\ a3.do \notin Functions
  BY DEF bitmap_set_inode, write_inode, Step, Functions
<1>4. Apart(D, G) /\ ROOT \in Inodes /\ G \in SUBSET Inodes /\ ROOT \in G /\ i \in Inodes \ G
  BY RootedFacts, NodesTyped DEF AppThere
<1>5. ASSUME NEW F, NEW n, NEW ib, Beside(D, F, G, i, ib, n), i \in ib, NEW t,
             \/ t = <<a2, a3>> \o rest \/ t = <<a3>> \o rest
             \/ n = AutorunInode /\ t = rest
      PROVE  Formats(F, sc, t) /\ BelowIn(D, ROOT) \subseteq BelowIn(F, ROOT)
  <2>1. /\ F \in DiskT /\ Kept(D, F, G) /\ F.node[ROOT] = D.node[ROOT] /\ F.ibit = ib /\ F.node[i] = n
    BY <1>5 DEF Beside
  <2>2. AppThere(F, a) /\ BelowIn(F, ROOT) = BelowIn(D, ROOT)
    BY <2>1, AppKept
  <2>3. MakingAutorun(F, a, i, t)
    BY <1>5, <2>1 DEF MakingAutorun
  <2>4. FormattingAutorun(F, t)
    BY <2>2, <2>3 DEF FormattingAutorun, AppThere
  <2> QED
    BY <2>2, <2>4 DEF Formats
<1>6. Beside(D, PutOn(D, a1), G, i, D.ibit \cup {i}, D.node[i])
  BY <1>4, BesideBit
<1>7. /\ Beside(D, PutOn(D, a2), G, i, D.ibit, ZeroInode)
      /\ Beside(D, PutOn(D, a3), G, i, D.ibit, AutorunInode)
  <2>1. ZeroInode \in NodeT /\ AutorunInode \in NodeT
    BY NodesTyped
  <2> HIDE DEF G
  <2>2. /\ Beside(D, PutOn(D, write_inode(i, ZeroInode, Ignored)), G, i, D.ibit, ZeroInode)
        /\ Beside(D, PutOn(D, write_inode(i, AutorunInode, Ignored)), G, i, D.ibit, AutorunInode)
    BY <1>4, <2>1, BesideInode
  <2> QED
    BY <2>2
<1> HIDE DEF G
<1>8. CASE td = <<a1, a2, a3>> \o rest
  <2>1. Begins(td, a1, <<a2, a3>> \o rest)
    BY <1>1, <1>2, <1>8, BeginsThree
  <2>2. i \in D.ibit \cup {i}
    OBVIOUS
  <2>3. /\ Formats(PutOn(D, a1), sc, <<a2, a3>> \o rest)
        /\ BelowIn(D, ROOT) \subseteq BelowIn(PutOn(D, a1), ROOT)
    BY <1>5, <1>6, <2>2
  <2> QED
    BY <1>2, <1>3, <2>1, <2>3, FormsWrite
<1>9. CASE i \in D.ibit /\ td = <<a2, a3>> \o rest
  <2>1. Begins(td, a2, <<a3>> \o rest)
    BY <1>1, <1>2, <1>9, BeginsTwo
  <2>2. /\ Formats(PutOn(D, a2), sc, <<a3>> \o rest)
        /\ BelowIn(D, ROOT) \subseteq BelowIn(PutOn(D, a2), ROOT)
    BY <1>5, <1>7, <1>9
  <2> QED
    BY <1>2, <1>3, <2>1, <2>2, FormsWrite
<1>10. CASE i \in D.ibit /\ td = <<a3>> \o rest
  <2>1. Begins(td, a3, rest)
    BY <1>1, <1>2, <1>10, BeginsOne
  <2>2. /\ Formats(PutOn(D, a3), sc, rest)
        /\ BelowIn(D, ROOT) \subseteq BelowIn(PutOn(D, a3), ROOT)
    BY <1>5, <1>7, <1>10
  <2> QED
    BY <1>2, <1>3, <2>1, <2>2, FormsWrite
<1>11. CASE i \in D.ibit /\ D.node[i] = AutorunInode /\ td = rest
  <2>1. AddAutorun(i) \in StepT /\ AddAutorun(i).do = "dir_add_entry" /\ AfterAutorun \in Seq(StepT)
    BY AppSteps, FormatRests
  <2>2. Begins(td, AddAutorun(i), AfterAutorun)
    BY <1>11, <2>1, BeginsOne
  <2>3. AutorunCall(D, a, td)
    BY <1>11 DEF AutorunCall
  <2>4. FormatCall(D, td)
    BY <2>3 DEF FormatCall
  <2> QED
    BY <2>1, <2>2, <2>4, FormsFunction DEF Functions
<1> QED
  BY <1>8, <1>9, <1>10, <1>11

\* With /app and /autorun the root is complete.
LEMMA RootComplete ==
  ASSUME NEW D \in DiskT, NEW E, NEW a \in Inodes \ {ROOT}, AppThere(D, a), NEW i \in Inodes \ {ROOT, a},
         D.node[i].prot, RootGrew(D, E, {ROOT, a}, i, 3, {2}, Entry(i, "file", "autorun"))
  PROVE  /\ E \in DiskT /\ E.super /\ Good(E, {ROOT, a, i}) /\ {ROOT, a, i} \in SUBSET Inodes
         /\ BelowIn(D, ROOT) \subseteq BelowIn(E, ROOT)
<1> DEFINE G == {ROOT, a}
<1>1. /\ E \in DiskT /\ Rooted(E, G \cup {i}, 3 + 1, {2} \cup {3})
      /\ SlotIn(E, ROOT, 3) = Entry(i, "file", "autorun")
      /\ \A k \in {2} : SlotIn(E, ROOT, k) = SlotIn(D, ROOT, k)
      /\ \A j \in G \cup {i} : E.node[j].prot = D.node[j].prot
      /\ BelowIn(D, ROOT) \subseteq BelowIn(E, ROOT)
  BY DEF RootGrew
<1>2. /\ E.super /\ Sound(E, G \cup {i}) /\ Unique(E, G \cup {i}, {}) /\ LiveIn(E, ROOT) = {2, 3}
  BY <1>1 DEF Rooted
<1>3. /\ SlotIn(E, ROOT, 2).name = "app" /\ SlotIn(E, ROOT, 2).inode = a
      /\ SlotIn(E, ROOT, 3).name = "autorun" /\ SlotIn(E, ROOT, 3).inode = i
  <2>1. SlotIn(E, ROOT, 2) = Entry(a, "dir", "app")
    BY <1>1 DEF AppThere
  <2> QED
    BY <1>1, <2>1 DEF Entry
<1>4. E.node[a].prot /\ E.node[i].prot
  <2>1. E.node[a].prot = D.node[a].prot /\ E.node[i].prot = D.node[i].prot
    BY <1>1
  <2>2. D.node[a].prot
    BY DEF AppThere
  <2> QED
    BY <2>1, <2>2
<1>5. Protected(E)
  <2>1. Special(E, "app")
    BY <1>2, <1>3, <1>4 DEF Special
  <2>2. Special(E, "autorun")
    BY <1>2, <1>3, <1>4 DEF Special
  <2> QED
    BY <2>1, <2>2 DEF Protected
<1>6. G \cup {i} = {ROOT, a, i} /\ {ROOT, a, i} \in SUBSET Inodes
  BY NodesTyped
<1>7. Good(E, {ROOT, a, i})
  BY <1>2, <1>5, <1>6 DEF Good
<1> QED
  BY <1>1, <1>2, <1>6, <1>7

\* The name of /autorun is entered.
LEMMA AutorunAdds ==
  ASSUME NEW D \in DiskT, NEW sc, NEW td, NEW a \in Inodes \ {ROOT}, AppThere(D, a),
         NEW i \in Inodes \ {ROOT, a}, i \in D.ibit, D.node[i] = AutorunInode,
         Adding(D, {ROOT, a}, ROOT, Entry(i, "file", "autorun"), D.node[ROOT].block, Fatal, AfterAutorun, td)
  PROVE  Forms(D, sc, td)
<1> DEFINE b == D.node[ROOT].block
           e == Entry(i, "file", "autorun")
           E == PutOn(D, Head(td))
           G == {ROOT, a}
<1>0. Rooted(D, G, 3, {2})
  BY DEF AppThere
<1>1. /\ Apart(D, G) /\ ROOT \in Inodes /\ G \in SUBSET Inodes /\ b # 0 /\ D.node[ROOT].size = 3 /\ i \in Inodes \ G
  BY <1>0, RootedFacts, NodesTyped
<1>2. e \in EntryT /\ b \in Blocks /\ Fatal \in Errs /\ AfterAutorun \in Seq(StepT)
  <2>1. "file" \in Modes /\ "autorun" \in Names \cup {"app", "autorun"}
    BY DEF Modes
  <2>2. b \in Blocks
    BY <1>1, SlotTyped
  <2> QED
    BY <2>1, <2>2, EntryTyped, ErrsTyped, FormatRests
<1>3. AddGoes(D, E, G, ROOT, e, b, Fatal, AfterAutorun, td)
  BY <1>1, <1>2, AddingWrites
<1> HIDE DEF E, e
<1>4. td # << >> /\ Head(td).do # "ensure_fs_mounted" /\ E \in DiskT /\ Head(td).do \notin Functions
  BY <1>3 DEF AddGoes, Functions
<1>5. Formats(E, sc, Tail(td)) /\ BelowIn(D, ROOT) \subseteq BelowIn(E, ROOT)
  <2>1. CASE /\ Kept(D, E, G) /\ E.node = D.node /\ E.ibit = D.ibit
             /\ Adding(E, G, ROOT, e, b, Fatal, AfterAutorun, Tail(td))
    <3>1. AppThere(E, a) /\ BelowIn(E, ROOT) = BelowIn(D, ROOT)
      BY <1>4, <2>1, AppKept
    <3>2. MakingAutorun(E, a, i, Tail(td))
      BY <2>1 DEF MakingAutorun, e
    <3>3. FormattingAutorun(E, Tail(td))
      BY <3>1, <3>2 DEF FormattingAutorun, AppThere
    <3> QED
      BY <3>1, <3>3 DEF Formats
  <2>2. CASE /\ Head(td) = write_inode(ROOT, Counted(D.node[ROOT], b), Ignored) /\ Tail(td) = AfterAutorun
             /\ Takes(D, G, ROOT, b) /\ D.block[b].slot[D.node[ROOT].size] = e /\ Fresh(D, ROOT, e)
    <3> DEFINE F == PutOn(D, write_inode(ROOT, Counted(D.node[ROOT], b), Ignored))
    <3>0. D.node[i].mode = "file" /\ D.node[i].prot = TRUE /\ D.node[i].block = 0
      BY DEF AutorunInode, Inode
    <3>1. RootGrew(D, F, G, i, 3, {2}, e)
      <4>1. "file" \in Modes /\ "autorun" \in {"app", "autorun"} /\ D.block[b].slot[3] = Entry(i, "file", "autorun")
        BY <1>1, <2>2 DEF Modes, e
      <4>2. Newborn(D, G, i, "file") /\ D.node[i].block # b
        BY <1>1, <3>0, NewbornOf
      <4> HIDE DEF G
      <4> QED
        BY <1>0, <1>1, <2>2, <4>1, <4>2, RootGrows DEF e
    <3>2. E = F
      BY <2>2 DEF E
    <3> HIDE DEF F
    <3>3. /\ E.super /\ Good(E, {ROOT, a, i}) /\ {ROOT, a, i} \in SUBSET Inodes
          /\ BelowIn(D, ROOT) \subseteq BelowIn(E, ROOT)
      BY <3>0, <3>1, <3>2, RootComplete DEF e
    <3>4. FormattingLast(E, Tail(td))
      BY <2>2, <3>3 DEF FormattingLast
    <3> QED
      BY <3>3, <3>4 DEF Formats
  <2> QED
    BY <1>3, <2>1, <2>2 DEF AddGoes
<1> QED
  BY <1>4, <1>5 DEF Forms, E

LEMMA FormattingAutorunForms ==
  ASSUME NEW D \in DiskT, NEW sc, NEW td, FormattingAutorun(D, td)
  PROVE  Forms(D, sc, td)
<1>1. PICK a \in Inodes \ {ROOT} :
        /\ AppThere(D, a)
        /\ (D.ibit = {ROOT, a} /\ td = AfterApp) \/ \E i \in Inodes \ {ROOT, a} : MakingAutorun(D, a, i, td)
  BY DEF FormattingAutorun, AppThere
<1>2. CASE D.ibit = {ROOT, a} /\ td = AfterApp
  <2>1. Begins(td, DoAutorun, AfterAutorun)
    BY <1>2, FormatRests, FormatSteps, BeginsOne
  <2>3. AutorunCall(D, a, td)
    BY <1>1, <1>2, <2>1 DEF AutorunCall, Begins
  <2>4. FormatCall(D, td)
    BY <2>3 DEF FormatCall
  <2>2. DoAutorun.do \in Functions /\ DoAutorun.do # "ensure_fs_mounted"
    BY FormatSteps DEF Functions
  <2> QED
    BY <2>1, <2>2, <2>4, FormsFunction
<1>3. ASSUME NEW i \in Inodes \ {ROOT, a}, MakingAutorun(D, a, i, td)
      PROVE  Forms(D, sc, td)
  <2> DEFINE a1 == bitmap_set_inode(i, TRUE, Fatal)
             a2 == write_inode(i, ZeroInode, Ignored)
             a3 == write_inode(i, AutorunInode, Ignored)
             rest == <<AddAutorun(i)>> \o AfterAutorun
  <2>1. \/ td = <<a1, a2, a3>> \o rest
        \/ i \in D.ibit /\ td = <<a2, a3>> \o rest
        \/ i \in D.ibit /\ td = <<a3>> \o rest
        \/ i \in D.ibit /\ D.node[i] = AutorunInode /\ td = rest
        \/ /\ i \in D.ibit /\ D.node[i] = AutorunInode
           /\ Adding(D, {ROOT, a}, ROOT, Entry(i, "file", "autorun"), D.node[ROOT].block, Fatal, AfterAutorun, td)
    BY <1>3 DEF MakingAutorun
  <2>2. ASSUME \/ td = <<a1, a2, a3>> \o rest
               \/ i \in D.ibit /\ td = <<a2, a3>> \o rest
               \/ i \in D.ibit /\ td = <<a3>> \o rest
               \/ i \in D.ibit /\ D.node[i] = AutorunInode /\ td = rest
        PROVE  Forms(D, sc, td)
    BY <1>1, <2>2, AutorunInodes
  <2>3. ASSUME i \in D.ibit, D.node[i] = AutorunInode,
               Adding(D, {ROOT, a}, ROOT, Entry(i, "file", "autorun"), D.node[ROOT].block, Fatal, AfterAutorun, td)
        PROVE  Forms(D, sc, td)
    BY <1>1, <2>3, AutorunAdds
  <2> HIDE DEF a1, a2, a3, rest
  <2> QED
    BY <2>1, <2>2, <2>3
<1> QED
  BY <1>1, <1>2, <1>3

LEMMA BeginsPair ==
  ASSUME NEW a \in StepT, NEW b \in StepT
  PROVE  Begins(<<a, b>>, a, <<b>>)
<1>1. << >> \in Seq(StepT) /\ <<a, b>> \in Seq(StepT) /\ <<b>> \in Seq(StepT)
  OBVIOUS
<1>2. Begins(<<a, b>> \o << >>, a, <<b>> \o << >>)
  BY <1>1, BeginsTwo
<1>3. <<a, b>> \o << >> = <<a, b>> /\ <<b>> \o << >> = <<b>>
  BY <1>1, ConcatEmptySeq
<1> QED
  BY <1>2, <1>3

\* The second write of the superblock, and the mount.
LEMMA FormattingLastForms ==
  ASSUME NEW D \in DiskT, NEW sc, NEW td, FormattingLast(D, td)
  PROVE  Forms(D, sc, td)
<1>1. PICK G \in SUBSET Inodes : D.super /\ Good(D, G)
  BY DEF FormattingLast
<1>2. Super \in StepT /\ Mount \in StepT /\ Super.do \notin Functions /\ Mount.do \in Functions
      /\ Mount.do # "ensure_fs_mounted"
  BY FormatSteps DEF Functions
<1>3. CASE td = AfterAutorun
  <2> DEFINE E == PutOn(D, Super)
  <2>1. E \in DiskT /\ E.super = TRUE /\ E.ibit = D.ibit /\ E.bbit = D.bbit /\ E.node = D.node /\ E.block = D.block
    BY FormatSteps, PutSuper
  <2>2. Begins(td, Super, <<Mount>>)
    BY <1>2, <1>3, FormatRests, BeginsPair
  <2> HIDE DEF E
  <2>3. Apart(D, G) /\ Linking(D, G)
    BY <1>1 DEF Good, Sound
  <2>4. Untouched(D, E, G)
    BY <1>1, <2>1, <2>3 DEF Untouched, Apart
  <2>5. Kept(D, E, G)
    BY <2>3, <2>4, UntouchedKept
  <2>6. E.super /\ Good(E, G) /\ BelowIn(E, ROOT) = BelowIn(D, ROOT)
    <3>1. Good(E, G)
      BY <1>1, <2>1, <2>5, KeptOn
    <3>2. BelowIn(E, ROOT) = BelowIn(D, ROOT)
      BY <2>1, <2>3, <2>5, SameBelow DEF Kept, Linking
    <3> QED
      BY <2>1, <3>1, <3>2
  <2>7. Formats(E, sc, <<Mount>>)
    BY <2>6 DEF Formats, FormattingLast
  <2> QED
    BY <1>2, <2>2, <2>6, <2>7, FormsWrite DEF E
<1>4. CASE td = <<Mount>>
  <2>1. td # << >> /\ Head(td) = Mount
    BY <1>4
  <2>2. FormatCall(D, td)
    BY <1>4 DEF FormatCall
  <2> QED
    BY <1>2, <2>1, <2>2 DEF Forms
<1> QED
  BY <1>3, <1>4 DEF FormattingLast

\* Every step of a format: nothing it writes takes a name out of the tree.
LEMMA FormatsForms ==
  ASSUME NEW D \in DiskT, NEW sc, NEW td, Formats(D, sc, td)
  PROVE  Forms(D, sc, td)
BY FormattingRootForms, FormattingAppForms, FormattingAutorunForms, FormattingLastForms DEF Formats


-----------------------------------------------------------------------------
(***************************************************************************)
(* The functions of a format.                                              *)
(***************************************************************************)
FiveIn(a, b, c, d, e, r) == (<<a, b>> \o <<c, d, e>>) \o r = <<a, b, c, d>> \o (<<e>> \o r)
FourIn(a, b, c, d, r) == (<<a, b>> \o <<c, d>>) \o r = <<a, b, c>> \o (<<d>> \o r)
LEMMA FiveSteps ==
  ASSUME NEW a \in StepT, NEW b \in StepT, NEW c \in StepT, NEW d \in StepT, NEW e \in StepT,
         NEW r \in Seq(StepT)
  PROVE  FiveIn(a, b, c, d, e, r)
<1> DEFINE X == <<e>> \o r
<1>1. /\ <<a, b>> \in Seq(StepT) /\ <<c, d, e>> \in Seq(StepT) /\ X \in Seq(StepT)
      /\ <<c, d, e>> \o r \in Seq(StepT)
  BY FewSteps, TwoSteps, MoreSteps
<1>2. (<<a, b>> \o <<c, d, e>>) \o r = <<a, b>> \o (<<c, d, e>> \o r)
  BY <1>1, Regroup
<1>3. <<a, b>> \o (<<c, d, e>> \o r) = <<a>> \o (<<b>> \o (<<c, d, e>> \o r))
  BY <1>1, ListTwo
<1>4. <<c, d, e>> \o r = <<c>> \o (<<d, e>> \o r)
  BY ListThree
<1>5. <<d, e>> \o r = <<d>> \o X
  BY ListTwo
<1> HIDE DEF X
<1>6. <<a, b, c, d>> \o X = <<a>> \o (<<b, c, d>> \o X)
  <2>1. Begins(<<a, b, c, d>> \o X, a, <<b, c, d>> \o X)
    BY <1>1, BeginsFour
  <2> QED
    BY <2>1 DEF Begins
<1>7. <<b, c, d>> \o X = <<b>> \o (<<c, d>> \o X)
  <2>1. Begins(<<b, c, d>> \o X, b, <<c, d>> \o X)
    BY <1>1, BeginsThree
  <2> QED
    BY <2>1 DEF Begins
<1>8. <<c, d>> \o X = <<c>> \o (<<d>> \o X)
  BY <1>1, ListTwo
<1>9. (<<a, b>> \o <<c, d, e>>) \o r = <<a, b, c, d>> \o X
  BY <1>2, <1>3, <1>4, <1>5, <1>6, <1>7, <1>8, Zenon
<1> QED
  BY <1>9 DEF X, FiveIn

LEMMA FourSteps ==
  ASSUME NEW a \in StepT, NEW b \in StepT, NEW c \in StepT, NEW d \in StepT, NEW r \in Seq(StepT)
  PROVE  FourIn(a, b, c, d, r)
<1> DEFINE X == <<d>> \o r
<1>1. /\ <<a, b>> \in Seq(StepT) /\ <<c, d>> \in Seq(StepT) /\ X \in Seq(StepT)
      /\ <<c, d>> \o r \in Seq(StepT)
  BY TwoSteps, MoreSteps
<1>2. (<<a, b>> \o <<c, d>>) \o r = <<a, b>> \o (<<c, d>> \o r)
  BY <1>1, Regroup
<1>3. <<a, b>> \o (<<c, d>> \o r) = <<a>> \o (<<b>> \o (<<c, d>> \o r))
  BY <1>1, ListTwo
<1>4. <<c, d>> \o r = <<c>> \o X
  BY ListTwo
<1> HIDE DEF X
<1>5. <<a, b, c>> \o X = <<a>> \o (<<b, c>> \o X)
  <2>1. Begins(<<a, b, c>> \o X, a, <<b, c>> \o X)
    BY <1>1, BeginsThree
  <2> QED
    BY <2>1 DEF Begins
<1>6. <<b, c>> \o X = <<b>> \o (<<c>> \o X)
  BY <1>1, ListTwo
<1>7. (<<a, b>> \o <<c, d>>) \o r = <<a, b, c>> \o X
  BY <1>2, <1>3, <1>4, <1>5, <1>6, Zenon
<1> QED
  BY <1>7 DEF X, FourIn

LEMMA ProtectedLists ==
  ASSUME NEW i \in Inodes
  PROVE  /\ protected_app(i) \o AfterApp
            = <<bitmap_set_inode(i, TRUE, Fatal), write_inode(i, ZeroInode, Ignored),
                write_inode(i, AppInode, Ignored), AppDots(i)>> \o (<<AddApp(i)>> \o AfterApp)
         /\ protected_autorun(i) \o AfterAutorun
            = <<bitmap_set_inode(i, TRUE, Fatal), write_inode(i, ZeroInode, Ignored),
                write_inode(i, AutorunInode, Ignored)>> \o (<<AddAutorun(i)>> \o AfterAutorun)
<1> DEFINE a1 == bitmap_set_inode(i, TRUE, Fatal)
           a2 == write_inode(i, ZeroInode, Ignored)
           a3 == write_inode(i, AppInode, Ignored)
           a4 == write_inode(i, AutorunInode, Ignored)
<1>1. protected_app(i) = <<a1, a2>> \o <<a3, AppDots(i), AddApp(i)>>
  BY DEF protected_app, allocate_inode, AppDots, AddApp
<1>2. protected_autorun(i) = <<a1, a2>> \o <<a4, AddAutorun(i)>>
  BY DEF protected_autorun, allocate_inode, AddAutorun
<1>3. a1 \in StepT /\ a2 \in StepT /\ a3 \in StepT /\ a4 \in StepT
  BY WritesTyped, ErrsTyped, NodesTyped
<1>4. AppDots(i) \in StepT /\ AddApp(i) \in StepT /\ AddAutorun(i) \in StepT
  BY AppSteps
<1>5. AfterApp \in Seq(StepT) /\ AfterAutorun \in Seq(StepT)
  BY FormatRests
<1> HIDE DEF a1, a2, a3, a4
<1>6. protected_app(i) \o AfterApp = <<a1, a2, a3, AppDots(i)>> \o (<<AddApp(i)>> \o AfterApp)
  <2>1. (<<a1, a2>> \o <<a3, AppDots(i), AddApp(i)>>) \o AfterApp
        = <<a1, a2, a3, AppDots(i)>> \o (<<AddApp(i)>> \o AfterApp)
    <3>1. FiveIn(a1, a2, a3, AppDots(i), AddApp(i), AfterApp)
      BY <1>3, <1>4, <1>5, FiveSteps
    <3> QED
      BY <3>1 DEF FiveIn
  <2> QED
    BY <1>1, <2>1, Zenon
<1>7. protected_autorun(i) \o AfterAutorun = <<a1, a2, a4>> \o (<<AddAutorun(i)>> \o AfterAutorun)
  <2>1. (<<a1, a2>> \o <<a4, AddAutorun(i)>>) \o AfterAutorun
        = <<a1, a2, a4>> \o (<<AddAutorun(i)>> \o AfterAutorun)
    <3>1. FourIn(a1, a2, a4, AddAutorun(i), AfterAutorun)
      BY <1>3, <1>4, <1>5, FourSteps
    <3> QED
      BY <3>1 DEF FourIn
  <2> QED
    BY <1>2, <2>1, Zenon
<1> QED
  BY <1>6, <1>7 DEF a1, a2, a3, a4

LEMMA DotsBecomes ==
  ASSUME NEW D, NEW i \in Inodes, NEW n \in NodeT, NEW B, D.bbit = B, NEW b \in Blocks \ B,
         NEW rest \in Seq(StepT)
  PROVE  DotsAt(D, i, n, b, B, rest, dots_block(i, n, b) \o rest)
<1> DEFINE a1 == bitmap_set_block(b, TRUE, Fatal)
           a2 == zero_block(b, Fatal)
           a3 == Step("dots", b, <<i, ROOT>>, Ignored)
           a4 == write_inode(i, [n EXCEPT !.size = 2, !.block = b], Ignored)
           ds == dots_block(i, n, b)
<1>1. ds = <<a1, a2>> \o <<a3, a4>>
  BY DEF dots_block, allocate_block
<1>2. Dotted(n, b) \in NodeT
  BY NodeUpdates DEF Dotted
<1>3. a1 \in StepT /\ a2 \in StepT /\ a3 \in StepT
  BY ErrsTyped, WritesTyped
<1>4. a4 \in StepT
  BY <1>2, ErrsTyped, WritesTyped DEF Dotted
<1> HIDE DEF a1, a2, a3, a4, ds
<1>5. ds = <<a1, a2, a3, a4>>
  BY <1>1, <1>3, <1>4, TwoAndTwo
<1>6. ds \o rest = <<a1, a2, a3, a4>> \o rest
  BY <1>5
<1>7. DotsAt(D, i, n, b, B, rest, ds \o rest)
  BY <1>6 DEF DotsAt, a1, a2, a3, a4
<1> QED
  BY <1>7 DEF ds

\* Which action the next step is.
LEMMA StepOf ==
  ASSUME Steps
  PROVE  /\ todo # << >>
         /\ Head(todo).do = "ensure_fs_mounted" => ensure_fs_mounted
         /\ Head(todo).do = "ipo_fs_mount" => ipo_fs_mount
         /\ Head(todo).do = "dots_block" => format_dots
         /\ Head(todo).do \in {"protected_app", "protected_autorun"} => format_protected
         /\ Head(todo).do = "dir_add_entry" => run_dir_add_entry
         /\ Head(todo).do \notin Functions => block_write
<1>1. /\ ensure_fs_mounted => At("ensure_fs_mounted")
      /\ ipo_fs_mount => At("ipo_fs_mount")
      /\ format_dots => At("dots_block")
      /\ format_protected => At("protected_app") \/ At("protected_autorun")
      /\ run_dir_add_entry => At("dir_add_entry")
      /\ run_dir_remove_entry => At("dir_remove_entry")
      /\ update_dots => At("update_dots")
      /\ run_free_inode => At("free_inode")
      /\ block_write => Writing
  BY DEF ensure_fs_mounted, ipo_fs_mount, format_dots, format_protected, run_dir_add_entry,
         run_dir_remove_entry, update_dots, run_free_inode, block_write
<1>2. \/ ensure_fs_mounted \/ ipo_fs_mount \/ format_dots \/ format_protected
      \/ run_dir_add_entry \/ run_dir_remove_entry \/ update_dots \/ run_free_inode
      \/ block_write
  BY DEF Steps
<1>3. \A do : At(do) <=> todo # << >> /\ Head(todo).do = do
  BY DEF At
<1>4. Writing <=> todo # << >> /\ Head(todo).do \notin Functions
  BY DEF Writing, Arg
<1> QED
  BY <1>1, <1>2, <1>3, <1>4 DEF Functions

\* The format goes on from the disk it finds.
FormatGoesOn(D, td) ==
  /\ disk' = D /\ fs_mounted' = fs_mounted /\ call' = CallOf(call, td) /\ scars' = scars /\ todo' = td
LEMMA FormatGoing ==
  ASSUME ~fs_mounted, call.op = "boot", NEW D \in DiskT, NEW td, FormatGoesOn(D, td), Formats(D, scars, td)
  PROVE  Shaped
<1>1. td # << >>
  BY FormatsForms DEF Forms
<1>2. disk' = D /\ ~fs_mounted' /\ call' = call /\ scars' = scars /\ todo' = td
  BY <1>1 DEF FormatGoesOn, CallOf
<1>3. call'.op = "boot"
  BY <1>2
<1>4. Formats(disk', scars', todo')
  BY <1>2
<1> QED
  BY <1>2, <1>3, <1>4 DEF Shaped, Shape

LEMMA BitsLeft ==
  ASSUME NEW x, NEW y
  PROVE  ~(Blocks \subseteq {x}) /\ ~(Inodes \subseteq {x, y})
<1>1. 1 \in Blocks /\ 2 \in Blocks /\ 1 \in Inodes /\ 2 \in Inodes /\ 3 \in Inodes
  BY DiskAssumption DEF Blocks, Inodes
<1> QED
  BY <1>1

\* dots_block() finds a free block.
LEMMA DotsGoOn ==
  ASSUME Typed, format_dots, scars' \subseteq {"wiped"}, NEW x, disk.bbit \subseteq {x},
         NEW i \in Inodes, NEW n \in NodeT, NEW rest \in Seq(StepT), NEW w, w = Step("dots_block", i, n, Fatal),
         Begins(todo, w, rest)
  PROVE  \E b \in Blocks : DotsAt(disk, i, n, b, disk.bbit, rest, todo') /\ FormatGoesOn(disk, todo')
<1>1. todo # << >> /\ Arg = w /\ Tail(todo) = rest
  BY DEF Begins, Arg
<1>2. Arg.at = i /\ Arg.val = n
  BY <1>1 DEF Step
<1>3. Blocks \in SUBSET Nat /\ disk.bbit \in SUBSET Blocks
  BY BitsTyped DEF Typed
<1>4. ~(Blocks \subseteq disk.bbit)
  BY BitsLeft
<1>5. PICK b \in Scan(Blocks, disk.bbit) : Becomes(dots_block(i, n, b)) /\ Took(b, disk.bbit)
  BY <1>2, <1>4 DEF format_dots
<1>6. b \in Blocks /\ b \notin disk.bbit /\ scars' = scars
  BY <1>3, <1>5, ScanTyped, TookTyped
<1>7. /\ todo' = dots_block(i, n, b) \o rest /\ call' = CallOf(call, todo')
      /\ disk' = disk /\ fs_mounted' = fs_mounted
  BY <1>1, <1>5 DEF Becomes, Goes, CallOf
<1>8. DotsAt(disk, i, n, b, disk.bbit, rest, todo')
  BY <1>6, <1>7, DotsBecomes
<1>9. FormatGoesOn(disk, todo')
  BY <1>6, <1>7 DEF FormatGoesOn
<1> QED
  BY <1>6, <1>8, <1>9

\* An inode is found for /app, and for /autorun.
LEMMA ProtectedGoesOn ==
  ASSUME Typed, format_protected, scars' \subseteq {"wiped"}, NEW x, NEW y, disk.ibit \subseteq {x, y},
         NEW w, NEW rest, Begins(todo, w, rest)
  PROVE  /\ w = DoApp => \E i \in Inodes \ disk.ibit :
                           FormatGoesOn(disk, todo') /\ todo' = protected_app(i) \o rest
         /\ w = DoAutorun => \E i \in Inodes \ disk.ibit :
                               FormatGoesOn(disk, todo') /\ todo' = protected_autorun(i) \o rest
<1>1. todo # << >> /\ Head(todo) = w /\ Tail(todo) = rest
  BY DEF Begins
<1>2. w = DoApp => At("protected_app")
  BY <1>1 DEF DoApp, At, Step
<1>3. w = DoAutorun => ~At("protected_app")
  BY <1>1 DEF DoAutorun, At, Step
<1>4. Inodes \in SUBSET Nat /\ disk.ibit \in SUBSET Inodes
  BY BitsTyped DEF Typed
<1>5. ~(Inodes \subseteq disk.ibit)
  BY BitsLeft
<1>6. PICK i \in Scan(Inodes, disk.ibit) :
        /\ Becomes(IF At("protected_app") THEN protected_app(i) ELSE protected_autorun(i))
        /\ Took(i, disk.ibit)
  BY <1>5 DEF format_protected
<1>7. i \in Inodes /\ i \notin disk.ibit /\ scars' = scars
  BY <1>4, <1>6, ScanTyped, TookTyped
<1>8. /\ todo' = (IF At("protected_app") THEN protected_app(i) ELSE protected_autorun(i)) \o rest
      /\ call' = CallOf(call, todo') /\ disk' = disk /\ fs_mounted' = fs_mounted
  BY <1>1, <1>6 DEF Becomes, Goes, CallOf
<1>9. FormatGoesOn(disk, todo')
  BY <1>7, <1>8 DEF FormatGoesOn
<1> QED
  BY <1>2, <1>3, <1>7, <1>8, <1>9

\* The root takes the entry: it has room, and no such name.
LEMMA AddGoesOn ==
  ASSUME Typed, run_dir_add_entry, scars' \subseteq {"wiped"}, NEW G \in SUBSET Inodes, NEW sz, NEW L,
         Rooted(disk, G, sz, L), sz < 5, NEW e, \A k \in L : SlotIn(disk, ROOT, k).name # e.name,
         NEW w, w = Step("dir_add_entry", ROOT, e, Fatal), NEW rest, Begins(todo, w, rest)
  PROVE  /\ FormatGoesOn(disk, todo')
         /\ Adding(disk, G, ROOT, e, disk.node[ROOT].block, Fatal, rest, todo')
<1>1. todo # << >> /\ Arg = w /\ Tail(todo) = rest
  BY DEF Begins, Arg
<1>2. Arg.at = ROOT /\ Arg.val = e /\ Arg.err = Fatal
  BY <1>1 DEF Step
<1>3. /\ Apart(disk, G) /\ ROOT \in G /\ LiveIn(disk, ROOT) = L /\ disk.node[ROOT].size = sz
      /\ disk.node[ROOT].mode = "dir" /\ disk.node[ROOT].block # 0
  BY RootedFacts
<1>4. disk.node[ROOT].size \in Nat
  <2>1. disk.node[ROOT] \in NodeT
    BY NodesTyped, SlotTyped DEF Typed
  <2> QED
    BY <2>1 DEF NodeT
<1>5. ~(disk.node[ROOT].size >= MAX_ENTRIES)
  BY <1>3, <1>4, DiskAssumption
<1>6. /\ disk' = disk /\ fs_mounted' = fs_mounted /\ call' = CallOf(call, todo') /\ scars' = scars
      /\ \E p \in Blocks : /\ p = disk.node[ROOT].block
                           /\ Adding(disk, G, ROOT, e, p, Fatal, rest, todo')
  <2>1. /\ disk' = disk /\ fs_mounted' = fs_mounted /\ call' = CallOf(call, todo') /\ scars' = scars
        /\ \/ \/ disk.node[ROOT].mode # "dir" \/ disk.node[ROOT].size >= MAX_ENTRIES
              \/ \E l \in LiveIn(disk, ROOT) : SlotIn(disk, ROOT, l).name = e.name
              \/ disk.node[ROOT].block = 0 /\ Blocks \subseteq disk.bbit
           \/ \E p \in Blocks : /\ disk.node[ROOT].block # 0 => p = disk.node[ROOT].block
                                /\ Adding(disk, G, ROOT, e, p, Fatal, rest, todo')
    BY <1>1, <1>2, <1>3, AddSucceeds
  <2> QED
    BY <1>3, <1>5, <2>1
<1>7. FormatGoesOn(disk, todo')
  BY <1>6 DEF FormatGoesOn
<1> QED
  BY <1>6, <1>7

LEMMA RootDotsGoes ==
  ASSUME Typed, Steps, scars' \subseteq {"wiped"}, ~fs_mounted, call.op = "boot",
         disk.super, disk.ibit = {ROOT}, disk.bbit = {}, disk.node[ROOT] = RootInode,
         todo = <<RootDots>> \o AfterRoot
  PROVE  Shaped
<1>1. Begins(todo, RootDots, AfterRoot) /\ AfterRoot \in Seq(StepT) /\ RootDots.do = "dots_block"
  BY FormatSteps, FormatRests, BeginsOne
<1>2. Head(todo).do = "dots_block"
  BY <1>1 DEF Begins
<1>3. format_dots
  BY <1>2, StepOf
<1>4. ROOT \in Inodes /\ RootInode \in NodeT /\ disk \in DiskT /\ disk.bbit \subseteq {0}
  BY NodesTyped DEF Typed
<1>5. RootDots = Step("dots_block", ROOT, RootInode, Fatal)
  BY DEF RootDots
<1>6. PICK b \in Blocks : DotsAt(disk, ROOT, RootInode, b, disk.bbit, AfterRoot, todo') /\ FormatGoesOn(disk, todo')
  BY <1>1, <1>3, <1>4, <1>5, DotsGoOn
<1>7. Formats(disk, scars, todo')
  BY <1>6 DEF Formats, FormattingRoot
<1> QED
  BY <1>4, <1>6, <1>7, FormatGoing

LEMMA DoAppGoes ==
  ASSUME Typed, Steps, scars' \subseteq {"wiped"}, ~fs_mounted, call.op = "boot",
         Rooted(disk, {ROOT}, 2, {}), disk.ibit = {ROOT}, disk.bbit = {disk.node[ROOT].block},
         todo = <<DoApp>> \o AfterApp
  PROVE  Shaped
<1>1. Begins(todo, DoApp, AfterApp) /\ DoApp.do = "protected_app"
  BY FormatSteps, FormatRests, BeginsOne
<1>2. Head(todo).do = "protected_app"
  BY <1>1 DEF Begins
<1>3. format_protected
  BY <1>2, StepOf
<1>4. disk.ibit \subseteq {ROOT, ROOT} /\ disk \in DiskT
  BY DEF Typed
<1>5. PICK i \in Inodes \ disk.ibit : FormatGoesOn(disk, todo') /\ todo' = protected_app(i) \o AfterApp
  BY <1>1, <1>3, <1>4, ProtectedGoesOn
<1>6. MakingApp(disk, i, todo')
  BY <1>5, ProtectedLists DEF MakingApp
<1>7. Formats(disk, scars, todo')
  BY <1>5, <1>6 DEF Formats, FormattingApp
<1> QED
  BY <1>4, <1>5, <1>7, FormatGoing

LEMMA AppCallGoes ==
  ASSUME Typed, Steps, scars' \subseteq {"wiped"}, ~fs_mounted, call.op = "boot",
         NEW i \in Inodes \ {ROOT}, AppCall(disk, i, todo)
  PROVE  Shaped
<1> DEFINE b == disk.node[ROOT].block
           rest == <<AddApp(i)>> \o AfterApp
<1>1. Rooted(disk, {ROOT}, 2, {}) /\ disk.ibit = {ROOT, i} /\ disk \in DiskT
  BY DEF AppCall, Typed
<1>2. /\ AddApp(i) \in StepT /\ AppDots(i) \in StepT /\ AddApp(i).do = "dir_add_entry" /\ AppDots(i).do = "dots_block"
      /\ rest \in Seq(StepT) /\ AfterApp \in Seq(StepT)
  BY AppSteps, FormatRests
<1>3. CASE disk.bbit = {b} /\ disk.node[i] = AppInode /\ todo = <<AppDots(i)>> \o rest
  <2> HIDE DEF rest
  <2>1. Begins(todo, AppDots(i), rest)
    BY <1>2, <1>3, BeginsOne
  <2>2. format_dots
    <3>1. Head(todo).do = "dots_block"
      BY <1>2, <2>1 DEF Begins
    <3> QED
      BY <3>1, StepOf
  <2>3. AppInode \in NodeT /\ disk.bbit \subseteq {b} /\ AppDots(i) = Step("dots_block", i, AppInode, Fatal)
    BY <1>3, NodesTyped DEF AppDots
  <2>4. PICK c \in Blocks : DotsAt(disk, i, AppInode, c, disk.bbit, rest, todo') /\ FormatGoesOn(disk, todo')
    BY <1>2, <2>1, <2>2, <2>3, DotsGoOn
  <2>5. MakingApp(disk, i, todo')
    BY <1>1, <1>3, <2>4 DEF MakingApp, rest
  <2>6. Formats(disk, scars, todo')
    BY <1>1, <2>5 DEF Formats, FormattingApp
  <2> QED
    BY <1>1, <2>4, <2>6, FormatGoing
<1>4. CASE /\ disk.node[i].prot /\ Newborn(disk, {ROOT}, i, "dir") /\ disk.node[i].block # b
           /\ todo = <<AddApp(i)>> \o AfterApp
  <2> DEFINE e == Entry(i, "dir", "app")
  <2>1. Begins(todo, AddApp(i), AfterApp)
    BY <1>2, <1>4, BeginsOne
  <2>2. run_dir_add_entry
    <3>1. Head(todo).do = "dir_add_entry"
      BY <1>2, <2>1 DEF Begins
    <3> QED
      BY <3>1, StepOf
  <2>3. AddApp(i) = Step("dir_add_entry", ROOT, e, Fatal) /\ {ROOT} \in SUBSET Inodes
    BY NodesTyped DEF AddApp
  <2> HIDE DEF e
  <2>4. \A k \in {} : SlotIn(disk, ROOT, k).name # e.name
    OBVIOUS
  <2>5. FormatGoesOn(disk, todo') /\ Adding(disk, {ROOT}, ROOT, e, b, Fatal, AfterApp, todo')
    BY <1>1, <2>1, <2>2, <2>3, <2>4, AddGoesOn
  <2>6. MakingApp(disk, i, todo')
    BY <1>1, <1>4, <2>5 DEF MakingApp, e
  <2>7. Formats(disk, scars, todo')
    BY <1>1, <2>6 DEF Formats, FormattingApp
  <2> QED
    BY <1>1, <2>5, <2>7, FormatGoing
<1> QED
  BY <1>3, <1>4 DEF AppCall

LEMMA AutorunCallGoes ==
  ASSUME Typed, Steps, scars' \subseteq {"wiped"}, ~fs_mounted, call.op = "boot",
         NEW a \in Inodes \ {ROOT}, AutorunCall(disk, a, todo)
  PROVE  Shaped
<1> DEFINE G == {ROOT, a}
<1>1. AppThere(disk, a) /\ disk \in DiskT
  BY DEF AutorunCall, Typed
<1>2. Rooted(disk, G, 3, {2}) /\ SlotIn(disk, ROOT, 2) = Entry(a, "dir", "app") /\ disk.node[a].prot
  BY <1>1 DEF AppThere
<1>3. CASE disk.ibit = {ROOT, a} /\ todo = <<DoAutorun>> \o AfterAutorun
  <2>1. Begins(todo, DoAutorun, AfterAutorun) /\ DoAutorun.do = "protected_autorun"
    BY <1>3, FormatSteps, FormatRests, BeginsOne
  <2>2. Head(todo).do = "protected_autorun"
    BY <2>1 DEF Begins
  <2>3. format_protected
    BY <2>2, StepOf
  <2>4. disk.ibit \subseteq {ROOT, a}
    BY <1>3
  <2>5. PICK i \in Inodes \ disk.ibit : FormatGoesOn(disk, todo') /\ todo' = protected_autorun(i) \o AfterAutorun
    BY <2>1, <2>3, <2>4, ProtectedGoesOn
  <2>6. MakingAutorun(disk, a, i, todo') /\ i \in Inodes \ {ROOT, a}
    BY <1>3, <2>5, ProtectedLists DEF MakingAutorun
  <2>7. Formats(disk, scars, todo')
    BY <1>2, <2>6 DEF Formats, FormattingAutorun
  <2> QED
    BY <1>1, <2>5, <2>7, FormatGoing
<1>4. ASSUME NEW i \in Inodes \ {ROOT, a}, i \in disk.ibit, disk.node[i] = AutorunInode,
             todo = <<AddAutorun(i)>> \o AfterAutorun
      PROVE  Shaped
  <2> DEFINE e == Entry(i, "file", "autorun")
  <2>0. AddAutorun(i) \in StepT /\ AddAutorun(i).do = "dir_add_entry" /\ AfterAutorun \in Seq(StepT)
    BY AppSteps, FormatRests
  <2>1. Begins(todo, AddAutorun(i), AfterAutorun)
    BY <1>4, <2>0, BeginsOne
  <2>2. run_dir_add_entry
    <3>1. Head(todo).do = "dir_add_entry"
      BY <2>0, <2>1 DEF Begins
    <3> QED
      BY <3>1, StepOf
  <2>3. AddAutorun(i) = Step("dir_add_entry", ROOT, e, Fatal) /\ G \in SUBSET Inodes
    BY NodesTyped DEF AddAutorun
  <2>4. \A k \in {2} : SlotIn(disk, ROOT, k).name # e.name
    BY <1>2 DEF Entry
  <2> HIDE DEF e, G
  <2>5. /\ FormatGoesOn(disk, todo')
        /\ Adding(disk, G, ROOT, e, disk.node[ROOT].block, Fatal, AfterAutorun, todo')
    BY <1>2, <2>1, <2>2, <2>3, <2>4, AddGoesOn
  <2>6. MakingAutorun(disk, a, i, todo')
    BY <1>4, <2>5 DEF MakingAutorun, e, G
  <2>7. Formats(disk, scars, todo')
    BY <1>2, <1>4, <2>6 DEF Formats, FormattingAutorun, G
  <2> QED
    BY <1>1, <2>5, <2>7, FormatGoing
<1> QED
  BY <1>3, <1>4 DEF AutorunCall

\* The disk is mounted, with nothing to do.
LEMMA Mounted ==
  ASSUME disk.super, NEW G \in SUBSET Inodes, Good(disk, G), disk' = disk, todo' = << >>, call' = CallOf(call, todo')
  PROVE  Shaped
<1>1. call'.op = "none"
  BY DEF CallOf, Idle
<1>2. Works(disk', G, call', todo')
  BY <1>1 DEF Works, Good
<1> QED
  BY <1>2 DEF Shaped, Shape

LEMMA MountGoes ==
  ASSUME Steps, FormattingLast(disk, todo), todo = <<Mount>>
  PROVE  Shaped
<1>1. Head(todo) = Mount /\ Tail(todo) = << >>
  BY Tuples
<1>2. Head(todo).do = "ipo_fs_mount"
  BY <1>1, FormatSteps
<1>3. ipo_fs_mount
  BY <1>2, StepOf
<1>4. disk' = disk /\ todo' = << >> /\ call' = CallOf(call, todo')
  BY <1>1, <1>3 DEF ipo_fs_mount, Returns, Goes, CallOf
<1> QED
  BY <1>4, Mounted DEF FormattingLast

LEMMA FormatCallGoes ==
  ASSUME Typed, Steps, scars' \subseteq {"wiped"}, ~fs_mounted, call.op = "boot", FormatCall(disk, todo)
  PROVE  Shaped
BY RootDotsGoes, DoAppGoes, AppCallGoes, AutorunCallGoes, MountGoes DEF FormatCall

\* A format goes on; cut off, it leaves its mark.
LEMMA FormatsGoes ==
  ASSUME Typed, Steps, scars' \subseteq {"wiped"}, ~fs_mounted, call.op = "boot", Formats(disk, scars, todo)
  PROVE  Shaped
<1>0. disk \in DiskT /\ todo \in Seq(StepT)
  BY DEF Typed
<1>1. Forms(disk, scars, todo)
  BY <1>0, FormatsForms
<1>2. CASE Head(todo).do \in Functions
  BY <1>1, <1>2, FormatCallGoes DEF Forms
<1>3. CASE Head(todo).do \notin Functions
  <2> DEFINE E == PutOn(disk, Head(todo))
  <2>1. block_write
    BY <1>3, StepOf
  <2>2. todo # << >> /\ Formats(E, scars, Tail(todo))
    BY <1>1, <1>3 DEF Forms
  <2>3. E \in DiskT
    <3>1. Head(todo) \in StepT
      BY <1>0, <2>2, HeadTyped
    <3> QED
      BY <1>0, <1>3, <3>1, PutTyped
  <2>4. disk' = E /\ fs_mounted' = fs_mounted /\ todo' = Tail(todo) /\ call' = CallOf(call, Tail(todo)) /\ scars' = scars
    BY <2>1, PutDisk DEF block_write, Arg, Returns, Goes, CallOf, TookNone
  <2> HIDE DEF E
  <2>5. FormatGoesOn(E, Tail(todo))
    BY <2>4 DEF FormatGoesOn
  <2> QED
    BY <2>2, <2>3, <2>5, FormatGoing
<1> QED
  BY <1>2, <1>3

LEMMA FormatsCutOff ==
  ASSUME Typed, reset \/ write_fails \/ read_fails, scars' \subseteq {"wiped"}, call.op = "boot",
         Formats(disk, scars, todo)
  PROVE  FALSE
<1>1. todo # << >> /\ Head(todo).do # "ensure_fs_mounted"
  BY FormatsForms DEF Forms, Typed
<1>2. Formatting /\ ~At("ensure_fs_mounted")
  BY <1>1 DEF Formatting, At
<1>3. "format" \in CutShort
  BY <1>2 DEF CutShort
<1>4. CutShort \subseteq scars'
  BY <1>2 DEF reset, write_fails, read_fails
<1> QED
  BY <1>3, <1>4

\* A boot mounts the disk, or formats it.
LEMMA BootList ==
  ASSUME todo = Boot
  PROVE  /\ todo # << >> /\ Tail(todo) = << >> /\ Head(todo).do = "ensure_fs_mounted" /\ At("ensure_fs_mounted")
         /\ (ipo_fs_format \o <<Mount>>) \o Tail(todo) = ipo_fs_format \o <<Mount>>
<1> DEFINE w == Step("ensure_fs_mounted", 0, 0, Ignored)
<1>1. w.do = "ensure_fs_mounted"
  BY DEF Step
<1>2. todo = <<w>>
  BY DEF Boot
<1> HIDE DEF w
<1>3. todo # << >> /\ Tail(todo) = << >> /\ Head(todo) = w
  BY <1>2, Tuples
<1>4. ipo_fs_format \o <<Mount>> \in Seq(StepT)
  BY FormatTyped DEF Mount
<1>5. (ipo_fs_format \o <<Mount>>) \o << >> = ipo_fs_format \o <<Mount>>
  <2> DEFINE f == ipo_fs_format \o <<Mount>>
  <2>1. f \in Seq(StepT)
    BY <1>4
  <2> HIDE DEF f
  <2>2. f \o << >> = f
    BY <2>1, ConcatEmptySeq
  <2> QED
    BY <2>2 DEF f
<1>6. At("ensure_fs_mounted")
  BY <1>1, <1>3 DEF At
<1> QED
  BY <1>1, <1>3, <1>5, <1>6

LEMMA FormatBegins ==
  ASSUME todo = Boot, call.op = "boot", ~fs_mounted, Becomes(ipo_fs_format \o <<Mount>>), Quiet(disk, scars'),
         disk \in DiskT
  PROVE  Shaped
<1>1. todo' = ipo_fs_format \o <<Mount>> /\ disk' = disk /\ ~fs_mounted' /\ call' = CallOf(call, todo')
  BY BootList DEF Becomes, Goes, CallOf
<1> DEFINE td == ipo_fs_format \o <<Mount>>
           sc == scars'
<1>2. Formats(disk, sc, td)
  BY DEF Formats, FormattingRoot
<1>3. td # << >>
  <2> HIDE DEF td, sc
  <2> QED
    BY <1>2, FormatsForms DEF Forms
<1>4. call'.op = "boot"
  BY <1>1, <1>3 DEF CallOf
<1> QED
  BY <1>1, <1>2, <1>4 DEF Shaped, Shape

LEMMA BootedGoes ==
  ASSUME Typed, Steps, ~fs_mounted, call.op = "boot", Booted(disk, todo)
  PROVE  Shaped
<1>1. todo = Boot /\ disk \in DiskT
  BY DEF Booted, Typed
<1>2. ensure_fs_mounted
  BY <1>1, BootList, StepOf
<1>3. CASE disk.super
  <2>1. disk' = disk /\ todo' = << >> /\ call' = CallOf(call, todo')
    BY <1>1, <1>2, <1>3, BootList DEF ensure_fs_mounted, Returns, Goes, CallOf
  <2>2. PICK G \in SUBSET Inodes : Good(disk, G)
    BY <1>3 DEF Booted
  <2> QED
    BY <1>3, <2>1, <2>2, Mounted
<1>4. CASE ~disk.super
  <2>1. Becomes(ipo_fs_format \o <<Mount>>)
    BY <1>2, <1>4 DEF ensure_fs_mounted, Mount
  <2>2. Quiet(disk, scars')
    BY <1>4 DEF Booted, Quiet
  <2> QED
    BY <1>1, <2>1, <2>2, FormatBegins
<1> QED
  BY <1>3, <1>4

LEMMA BootedCutOff ==
  ASSUME Typed, reset \/ write_fails \/ read_fails, ~fs_mounted, call.op = "boot", Booted(disk, todo)
  PROVE  Shaped
<1>1. todo = Boot /\ disk \in DiskT
  BY DEF Booted, Typed
<1>2. CASE reset
  <2>1. fs_mounted' = FALSE /\ todo' = todo /\ call'.op = "boot" /\ disk' = disk
    BY <1>1, <1>2 DEF reset, Booting
  <2> QED
    BY <2>1 DEF Shaped, Shape
<1>3. CASE write_fails
  <2>1. Head(todo).do \notin Functions
    BY <1>3 DEF write_fails, Writing, Arg
  <2> QED
    BY <1>1, <2>1, BootList DEF Functions
<1>4. CASE read_fails
  <2>1. Becomes(ipo_fs_format \o <<Mount>>) /\ scars' = IF disk.super THEN scars \cup {"wiped"} ELSE scars
    BY <1>1, <1>4, BootList DEF read_fails, Mount
  <2>2. Quiet(disk, scars')
    BY <2>1 DEF Booted, Quiet
  <2> QED
    BY <1>1, <2>1, <2>2, FormatBegins
<1> QED
  BY <1>2, <1>3, <1>4

\* The calls begin on a good disk.
LEMMA CallShaped ==
  ASSUME NEW G \in SUBSET Inodes, Begun(G)
  PROVE  Shaped
BY DEF Begun, Shaped, Shape

Calling ==
  \/ \E d \in Paths, n \in Names :
       \/ \E t \in Types : ipo_fs_create(d, n, t)
       \/ ipo_fs_delete(d, n)
       \/ \E to \in Paths, m \in Names : ipo_fs_rename(d, n, to, m)
  \/ \E i \in Paths : ipo_fs_write(i)

LEMMA CallingGoes ==
  ASSUME Typed, Calling, Shape(disk, fs_mounted, call, todo, scars), scars' \subseteq {"wiped"}
  PROVE  Shaped
<1>1. Ready
  BY DEF Calling, ipo_fs_create, ipo_fs_delete, ipo_fs_rename, ipo_fs_write
<1>2. PICK G \in SUBSET Inodes : disk.super /\ Good(disk, G) /\ BelowIn(disk, ROOT) \subseteq G
  BY <1>1, ReadyGood
<1>3. ASSUME NEW d \in Paths, NEW n \in Names, NEW t \in Types, ipo_fs_create(d, n, t) PROVE Shaped
  BY <1>2, <1>3, CreateWorks, CallShaped
<1>4. ASSUME NEW d \in Paths, NEW n \in Names, ipo_fs_delete(d, n) PROVE Shaped
  BY <1>2, <1>4, DeleteWorks, CallShaped
<1>5. ASSUME NEW d \in Paths, NEW n \in Names, NEW to \in Paths, NEW m \in Names, ipo_fs_rename(d, n, to, m)
      PROVE  Shaped
  BY <1>2, <1>5, RenameWorks, CallShaped
<1>6. ASSUME NEW i \in Paths, ipo_fs_write(i) PROVE Shaped
  BY <1>2, <1>6, StoreWorks, CallShaped
<1> QED
  BY <1>3, <1>4, <1>5, <1>6 DEF Calling

-----------------------------------------------------------------------------
(***************************************************************************)
(* The disks a boot can find.                                              *)
(***************************************************************************)
\* A list, and the same value up to place N.
Filled(f, s, z, N) ==
  /\ \A i \in 1 .. Len(s) : f[i] = s[i]
  /\ \A i \in 1 .. N : i > Len(s) => f[i] = z
FilledUp(s, z, N, n) == s \o [i \in 1 .. (N - n) |-> z]
LEMMA Fill ==
  ASSUME NEW T, NEW N \in Nat, NEW s \in Seq(T), NEW z \in T, NEW n, n = Len(s), n <= N
  PROVE  FilledUp(s, z, N, n) \in [1 .. N -> T] /\ Filled(FilledUp(s, z, N, n), s, z, N)
<1> DEFINE u == [i \in 1 .. (N - n) |-> z]
           f == s \o u
<1>1. Len(s) \in Nat /\ N - n \in Nat
  BY LenProperties
<1>2. u \in Seq(T) /\ Len(u) = N - n
  <2>1. u \in [1 .. (N - n) -> T]
    OBVIOUS
  <2> HIDE DEF u
  <2> QED
    BY <1>1, <2>1, SeqDef, LenProperties
<1>3. \A i \in 1 .. (N - n) : u[i] = z
  OBVIOUS
<1> HIDE DEF u
<1>4. f \in Seq(T) /\ Len(f) = N /\ \A i \in 1 .. Len(f) : f[i] = IF i <= Len(s) THEN s[i] ELSE u[i - Len(s)]
  BY <1>1, <1>2, ConcatProperties
<1> HIDE DEF f
<1>5. f \in [1 .. N -> T]
  BY <1>4, LenProperties
<1>6. \A i \in 1 .. Len(s) : f[i] = s[i]
  BY <1>1, <1>4
<1>7. ASSUME NEW i \in 1 .. N, i > Len(s) PROVE f[i] = z
  <2>1. i - Len(s) \in 1 .. (N - n) /\ i \in 1 .. Len(f) /\ ~(i <= Len(s))
    BY <1>1, <1>4, <1>7
  <2> QED
    BY <1>3, <1>4, <2>1
<1>8. f \in [1 .. N -> T] /\ Filled(f, s, z, N)
  BY <1>5, <1>6, <1>7 DEF Filled
<1> QED
  BY <1>8 DEF FilledUp, f, u

\* A block that holds the entries es.
LEMMA DirBlockTyped ==
  ASSUME NEW es \in Seq(EntryT)
  PROVE  /\ DirBlock(es) \in BlockT /\ DirBlock(es).data = 0
         /\ \A k \in Slots : k < Len(es) => DirBlock(es).slot[k] = es[k + 1]
<1> DEFINE s == [k \in Slots |-> IF k < Len(es) THEN es[k + 1] ELSE NoEntry]
<1>1. ASSUME NEW k \in Slots PROVE s[k] \in EntryT
  <2>1. k \in Int /\ k >= 0 /\ Len(es) \in Nat
    BY DiskAssumption, LenProperties DEF Slots
  <2>2. k < Len(es) => es[k + 1] \in EntryT
    BY <2>1, ElementOfSeq
  <2> QED
    BY <2>2, NoEntryTyped
<1>2. s \in [Slots -> EntryT]
  BY <1>1
<1>3. \A k \in Slots : k < Len(es) => s[k] = es[k + 1]
  OBVIOUS
<1>4. DirBlock(es) = [ZeroBlock EXCEPT !.slot = s]
  BY DEF DirBlock
<1> HIDE DEF s
<1> QED
  BY <1>2, <1>3, <1>4, ZeroBlockTyped DEF BlockT

LEMMA FiveLong ==
  ASSUME NEW T, NEW a \in T, NEW b \in T, NEW c \in T, NEW d \in T, NEW e \in T
  PROVE  LET s == <<a, b, c, d, e>>
         IN  s \in Seq(T) /\ Len(s) = 5 /\ s[1] = a /\ s[2] = b /\ s[3] = c /\ s[4] = d /\ s[5] = e
OBVIOUS
LEMMA FourLong ==
  ASSUME NEW T, NEW a \in T, NEW b \in T, NEW c \in T, NEW d \in T
  PROVE  LET s == <<a, b, c, d>>
         IN  s \in Seq(T) /\ Len(s) = 4 /\ s[1] = a /\ s[2] = b /\ s[3] = c /\ s[4] = d
OBVIOUS
LEMMA TwoLong ==
  ASSUME NEW T, NEW a \in T, NEW b \in T
  PROVE  /\ <<a, b>> \in Seq(T) /\ Len(<<a, b>>) = 2 /\ <<a, b>>[1] = a /\ <<a, b>>[2] = b
         /\ <<a>> \in Seq(T) /\ Len(<<a>>) = 1 /\ <<a>>[1] = a
OBVIOUS

LEMMA BlankTyped ==
  /\ Blank \in DiskT /\ ~Blank.super /\ Blank.node[ROOT].mode # "dir"
  /\ Foreign \in DiskT /\ ~Foreign.super /\ Foreign.node[ROOT].mode # "dir"
<1>1. Inode("file", FALSE, 1, 1) \in NodeT /\ Inode("file", FALSE, 1, 1).mode = "file"
  BY DiskAssumption DEF Inode, NodeT, Modes
<1>2. [i \in Inodes |-> ZeroInode] \in [Inodes -> NodeT] /\ [b \in Blocks |-> ZeroBlock] \in [Blocks -> BlockT]
      /\ [i \in Inodes |-> Inode("file", FALSE, 1, 1)] \in [Inodes -> NodeT]
  BY <1>1, NodesTyped, ZeroBlockTyped
<1>3. Blank \in DiskT /\ ~Blank.super
  BY <1>2 DEF Blank, DiskT
<1>4. Foreign \in DiskT /\ ~Foreign.super
  BY <1>2 DEF Blank, Foreign, DiskT
<1>5. Blank.node[ROOT].mode # "dir"
  BY NodesTyped DEF Blank, ZeroInode, Inode
<1>6. Foreign.node[ROOT].mode # "dir"
  <2>1. Foreign.node = [i \in Inodes |-> Inode("file", FALSE, 1, 1)]
    BY DEF Foreign, Blank
  <2> QED
    BY <1>1, <2>1, NodesTyped
<1> QED
  BY <1>3, <1>4, <1>5, <1>6

\* What somebody left on a disk in use.
UsedNodes(D) ==
  /\ D.node[1] = Inode("dir", FALSE, 5, 1) /\ D.node[2] = Inode("dir", TRUE, 2, 2)
  /\ D.node[3] = AutorunInode /\ D.node[4] = Inode("dir", FALSE, 1, 3)
  /\ D.node[5] = Inode("file", FALSE, 1, 4)
UsedRoot(D, n) ==
  /\ D.block[1].slot[0] = Entry(ROOT, "dir", ".") /\ D.block[1].slot[1] = Entry(ROOT, "dir", "..")
  /\ D.block[1].slot[2] = Entry(2, "dir", "app") /\ D.block[1].slot[3] = Entry(3, "file", "autorun")
  /\ D.block[1].slot[4] = Entry(4, "dir", n)
UsedOthers(D, n) ==
  /\ D.block[2].slot[0] = Entry(2, "dir", ".") /\ D.block[2].slot[1] = Entry(ROOT, "dir", "..")
  /\ D.block[3].slot[0] = Entry(5, "file", n)
  /\ D.block[1].data = 0 /\ D.block[2].data = 0 /\ D.block[3].data = 0 /\ D.block[4].data = 5
UsedDisk(D, n) ==
  /\ D \in DiskT /\ D.super /\ D.ibit = 1 .. 5 /\ D.bbit = 1 .. 4
  /\ UsedNodes(D) /\ UsedRoot(D, n) /\ UsedOthers(D, n)

LEMMA UsedTyped ==
  ASSUME NEW n \in Names
  PROVE  UsedDisk(Used(n), n)
<1> DEFINE n1 == Inode("dir", FALSE, 5, 1)
           n2 == Inode("dir", TRUE, 2, 2)
           n4 == Inode("dir", FALSE, 1, 3)
           n5 == Inode("file", FALSE, 1, 4)
           e1 == Entry(ROOT, "dir", ".")
           e2 == Entry(ROOT, "dir", "..")
           e3 == Entry(2, "dir", "app")
           e4 == Entry(3, "file", "autorun")
           e5 == Entry(4, "dir", n)
           e6 == Entry(2, "dir", ".")
           e7 == Entry(5, "file", n)
           b4 == [ZeroBlock EXCEPT !.data = 5]
           ns == <<n1, n2, AutorunInode, n4, n5>>
           r == <<e1, e2, e3, e4, e5>>
           bs == <<DirBlock(r), DirBlock(<<e6, e2>>), DirBlock(<<e7>>), b4>>
           node == ns \o [i \in 1 .. (INODE_COUNT - 5) |-> ZeroInode]
           block == bs \o [b \in 1 .. (NBLOCKS - 4) |-> ZeroBlock]
<1>1. n1 \in NodeT /\ n2 \in NodeT /\ AutorunInode \in NodeT /\ n4 \in NodeT /\ n5 \in NodeT /\ ZeroInode \in NodeT
  BY DiskAssumption, NodesTyped DEF Inode, NodeT, Modes
<1>2. e1 \in EntryT /\ e2 \in EntryT /\ e3 \in EntryT /\ e4 \in EntryT /\ e5 \in EntryT /\ e6 \in EntryT /\ e7 \in EntryT
  BY DiskAssumption DEF Entry, EntryT, Modes, Dots, ROOT
<1>3. b4 \in BlockT /\ b4.data = 5
  BY ZeroBlockTyped, DiskAssumption DEF BlockT
<1>4. Used(n) = [super |-> TRUE, ibit |-> 1 .. 5, bbit |-> 1 .. 4, node |-> node, block |-> block]
  BY DEF Used
<1>5. 1 .. 5 \subseteq Inodes /\ 1 .. 4 \subseteq Blocks /\ 0 .. 4 \subseteq Slots
  BY DiskAssumption DEF Inodes, Blocks, Slots
<1> HIDE DEF n1, n2, n4, n5, e1, e2, e3, e4, e5, e6, e7, b4
<1>6. r \in Seq(EntryT) /\ Len(r) = 5 /\ r[1] = e1 /\ r[2] = e2 /\ r[3] = e3 /\ r[4] = e4 /\ r[5] = e5
  BY <1>2, FiveLong
<1>7. /\ <<e6, e2>> \in Seq(EntryT) /\ Len(<<e6, e2>>) = 2 /\ <<e6, e2>>[1] = e6 /\ <<e6, e2>>[2] = e2
      /\ <<e7>> \in Seq(EntryT) /\ Len(<<e7>>) = 1 /\ <<e7>>[1] = e7
  BY <1>2, TwoLong
<1>8. /\ DirBlock(r) \in BlockT /\ DirBlock(r).data = 0
      /\ DirBlock(r).slot[0] = e1 /\ DirBlock(r).slot[1] = e2 /\ DirBlock(r).slot[2] = e3
      /\ DirBlock(r).slot[3] = e4 /\ DirBlock(r).slot[4] = e5
  <2> HIDE DEF r
  <2>1. /\ DirBlock(r) \in BlockT /\ DirBlock(r).data = 0
        /\ \A k \in Slots : k < 5 => DirBlock(r).slot[k] = r[k + 1]
    BY <1>6, DirBlockTyped
  <2>2. 0 \in Slots /\ 1 \in Slots /\ 2 \in Slots /\ 3 \in Slots /\ 4 \in Slots
    BY <1>5
  <2> QED
    BY <1>6, <2>1, <2>2
<1>9. /\ DirBlock(<<e6, e2>>) \in BlockT /\ DirBlock(<<e6, e2>>).data = 0
      /\ DirBlock(<<e6, e2>>).slot[0] = e6 /\ DirBlock(<<e6, e2>>).slot[1] = e2
  <2>0. DirBlock(<<e6, e2>>) \in BlockT /\ DirBlock(<<e6, e2>>).data = 0
    BY <1>7, DirBlockTyped
  <2>1. \A k \in Slots : k < 2 => DirBlock(<<e6, e2>>).slot[k] = <<e6, e2>>[k + 1]
    BY <1>7, DirBlockTyped
  <2>2. 0 \in Slots /\ 1 \in Slots
    BY <1>5
  <2>3. DirBlock(<<e6, e2>>).slot[0] = <<e6, e2>>[0 + 1] /\ DirBlock(<<e6, e2>>).slot[1] = <<e6, e2>>[1 + 1]
    BY <2>1, <2>2
  <2> QED
    BY <1>7, <2>0, <2>3
<1>10. /\ DirBlock(<<e7>>) \in BlockT /\ DirBlock(<<e7>>).data = 0 /\ DirBlock(<<e7>>).slot[0] = e7
  <2>0. DirBlock(<<e7>>) \in BlockT /\ DirBlock(<<e7>>).data = 0
    BY <1>7, DirBlockTyped
  <2>1. \A k \in Slots : k < 1 => DirBlock(<<e7>>).slot[k] = <<e7>>[k + 1]
    BY <1>7, DirBlockTyped
  <2>2. DirBlock(<<e7>>).slot[0] = <<e7>>[0 + 1]
    BY <1>5, <2>1
  <2> QED
    BY <1>7, <2>0, <2>2
<1>11. ns \in Seq(NodeT) /\ Len(ns) = 5 /\ ns[1] = n1 /\ ns[2] = n2 /\ ns[3] = AutorunInode /\ ns[4] = n4 /\ ns[5] = n5
  BY <1>1, FiveLong
<1>12. /\ bs \in Seq(BlockT) /\ Len(bs) = 4 /\ bs[1] = DirBlock(r) /\ bs[2] = DirBlock(<<e6, e2>>)
       /\ bs[3] = DirBlock(<<e7>>) /\ bs[4] = b4
  BY <1>3, <1>8, <1>9, <1>10, FourLong
<1>13. node \in [Inodes -> NodeT] /\ \A i \in 1 .. 5 : node[i] = ns[i]
  <2> HIDE DEF ns
  <2>0. INODE_COUNT \in Nat /\ 5 <= INODE_COUNT /\ ZeroInode \in NodeT /\ ns \in Seq(NodeT) /\ 5 = Len(ns)
    BY <1>1, <1>11, DiskAssumption
  <2>1. node = FilledUp(ns, ZeroInode, INODE_COUNT, 5)
    BY DEF FilledUp
  <2> HIDE DEF node
  <2>2. node \in [1 .. INODE_COUNT -> NodeT] /\ Filled(node, ns, ZeroInode, INODE_COUNT)
    BY <2>0, <2>1, Fill
  <2> QED
    BY <1>11, <2>2 DEF Filled, Inodes
<1>14. block \in [Blocks -> BlockT] /\ \A b \in 1 .. 4 : block[b] = bs[b]
  <2> HIDE DEF bs
  <2>0. NBLOCKS \in Nat /\ 4 <= NBLOCKS /\ ZeroBlock \in BlockT /\ bs \in Seq(BlockT) /\ 4 = Len(bs)
    BY ZeroBlockTyped, <1>12, DiskAssumption
  <2>1. block = FilledUp(bs, ZeroBlock, NBLOCKS, 4)
    BY DEF FilledUp
  <2> HIDE DEF block
  <2>2. block \in [1 .. NBLOCKS -> BlockT] /\ Filled(block, bs, ZeroBlock, NBLOCKS)
    BY <2>0, <2>1, Fill
  <2> QED
    BY <1>12, <2>2 DEF Filled, Blocks
<1> HIDE DEF node, block, ns, bs, r
<1> DEFINE D == Used(n)
<1>15. D.super = TRUE /\ D.ibit = 1 .. 5 /\ D.bbit = 1 .. 4 /\ D.node = node /\ D.block = block
  BY <1>4
<1>16. D \in DiskT
  BY <1>4, <1>5, <1>13, <1>14 DEF DiskT
<1> HIDE DEF D
<1>17. 1 \in 1 .. 5 /\ 2 \in 1 .. 5 /\ 3 \in 1 .. 5 /\ 4 \in 1 .. 5 /\ 5 \in 1 .. 5
       /\ 1 \in 1 .. 4 /\ 2 \in 1 .. 4 /\ 3 \in 1 .. 4 /\ 4 \in 1 .. 4
  OBVIOUS
<1>18. /\ D.node[1] = n1 /\ D.node[2] = n2 /\ D.node[3] = AutorunInode /\ D.node[4] = n4 /\ D.node[5] = n5
  BY <1>11, <1>13, <1>15, <1>17
<1>19. /\ D.block[1] = DirBlock(r) /\ D.block[2] = DirBlock(<<e6, e2>>) /\ D.block[3] = DirBlock(<<e7>>)
       /\ D.block[4] = b4
  BY <1>12, <1>14, <1>15, <1>17
<1>20. UsedNodes(D)
  BY <1>18 DEF UsedNodes, n1, n2, n4, n5
<1>21. UsedRoot(D, n)
  BY <1>8, <1>19 DEF UsedRoot, e1, e2, e3, e4, e5
<1>22. UsedOthers(D, n)
  BY <1>3, <1>8, <1>9, <1>10, <1>19 DEF UsedOthers, e6, e2, e7
<1>23. UsedDisk(D, n)
  BY <1>15, <1>16, <1>20, <1>21, <1>22 DEF UsedDisk
<1> QED
  BY <1>23 DEF D

\* Its names: /app, /autorun, /n and /n/n.
UsedLive(D, n) ==
  /\ LiveIn(D, 1) = {2, 3, 4} /\ LiveIn(D, 2) = {} /\ LiveIn(D, 3) = {} /\ LiveIn(D, 4) = {0} /\ LiveIn(D, 5) = {}
  /\ SlotIn(D, 1, 2) = Entry(2, "dir", "app") /\ SlotIn(D, 1, 3) = Entry(3, "file", "autorun")
  /\ SlotIn(D, 1, 4) = Entry(4, "dir", n) /\ SlotIn(D, 4, 0) = Entry(5, "file", n)
LEMMA UsedNames ==
  ASSUME NEW n \in Names, NEW D, UsedDisk(D, n)
  PROVE  UsedLive(D, n)
<1>1. n \notin Dots /\ "app" \notin Dots /\ "autorun" \notin Dots /\ "." \in Dots /\ ".." \in Dots
  BY CallersAssumption DEF Dots, NoName
<1>2. /\ D.node[1].mode = "dir" /\ D.node[1].size = 5 /\ D.node[1].block = 1
      /\ D.node[2].mode = "dir" /\ D.node[2].size = 2 /\ D.node[2].block = 2
      /\ D.node[3].mode = "file" /\ D.node[5].mode = "file"
      /\ D.node[4].mode = "dir" /\ D.node[4].size = 1 /\ D.node[4].block = 3
  BY DEF UsedDisk, UsedNodes, Inode, AutorunInode
<1>3. /\ SlotIn(D, 1, 0) = Entry(ROOT, "dir", ".") /\ SlotIn(D, 1, 1) = Entry(ROOT, "dir", "..")
      /\ SlotIn(D, 1, 2) = Entry(2, "dir", "app") /\ SlotIn(D, 1, 3) = Entry(3, "file", "autorun")
      /\ SlotIn(D, 1, 4) = Entry(4, "dir", n)
  BY <1>2 DEF UsedDisk, UsedRoot, SlotIn
<1>4. /\ SlotIn(D, 2, 0) = Entry(2, "dir", ".") /\ SlotIn(D, 2, 1) = Entry(ROOT, "dir", "..")
      /\ SlotIn(D, 4, 0) = Entry(5, "file", n)
  BY <1>2 DEF UsedDisk, UsedOthers, SlotIn
<1>5. LiveIn(D, 3) = {} /\ LiveIn(D, 5) = {}
  BY <1>2 DEF LiveIn
<1> DEFINE counts(i, k) == SlotIn(D, i, k).inode # 0 /\ SlotIn(D, i, k).name \notin Dots
<1>6. ~counts(1, 0) /\ ~counts(1, 1) /\ counts(1, 2) /\ counts(1, 3) /\ counts(1, 4)
  BY <1>1, <1>3 DEF Entry
<1>7. ~counts(2, 0) /\ ~counts(2, 1) /\ counts(4, 0)
  BY <1>1, <1>4 DEF Entry
<1>8. /\ LiveIn(D, 1) = {k \in 0 .. 4 : counts(1, k)} /\ LiveIn(D, 2) = {k \in 0 .. 1 : counts(2, k)}
      /\ LiveIn(D, 4) = {k \in 0 .. 0 : counts(4, k)}
  BY <1>2 DEF LiveIn
<1> HIDE DEF counts
<1>9. 0 .. 4 = {0, 1, 2, 3, 4} /\ 0 .. 1 = {0, 1} /\ 0 .. 0 = {0}
  OBVIOUS
<1>10. LiveIn(D, 1) = {2, 3, 4}
  BY <1>6, <1>8, <1>9
<1>11. LiveIn(D, 2) = {} /\ LiveIn(D, 4) = {0}
  BY <1>7, <1>8, <1>9
<1> QED
  BY <1>3, <1>4, <1>5, <1>10, <1>11 DEF UsedLive

LEMMA UsedGood ==
  ASSUME NEW n \in Names, NEW D, UsedDisk(D, n)
  PROVE  Good(D, 1 .. 5)
<1> DEFINE G == 1 .. 5
<1>0. UsedLive(D, n)
  BY UsedNames
<1>1. G \subseteq Inodes /\ ROOT \in G
  BY DiskAssumption DEF Inodes, ROOT
<1>2. n # "app" /\ n # "autorun"
  BY CallersAssumption
<1>3. G = {1, 2, 3, 4, 5}
  OBVIOUS
<1>4. /\ D.node[2].mode = "dir" /\ D.node[3].mode = "file" /\ D.node[4].mode = "dir" /\ D.node[5].mode = "file"
      /\ D.node[2].prot /\ D.node[3].prot
      /\ D.node[1].block = 1 /\ D.node[2].block = 2 /\ D.node[3].block = 0 /\ D.node[4].block = 3 /\ D.node[5].block = 4
  BY DEF UsedDisk, UsedNodes, Inode, AutorunInode
<1>5. /\ D.ibit = G /\ D.bbit = 1 .. 4
      /\ D.block[1].data = 0 /\ D.block[2].data = 0 /\ D.block[3].data = 0 /\ D.block[4].data = 5
  BY DEF UsedDisk, UsedOthers
<1>6. /\ SlotIn(D, 1, 2).inode = 2 /\ SlotIn(D, 1, 3).inode = 3 /\ SlotIn(D, 1, 4).inode = 4 /\ SlotIn(D, 4, 0).inode = 5
      /\ SlotIn(D, 1, 2).type = "dir" /\ SlotIn(D, 1, 3).type = "file" /\ SlotIn(D, 1, 4).type = "dir"
      /\ SlotIn(D, 4, 0).type = "file"
      /\ SlotIn(D, 1, 2).name = "app" /\ SlotIn(D, 1, 3).name = "autorun" /\ SlotIn(D, 1, 4).name = n
  BY <1>0 DEF UsedLive, Entry
<1>7. /\ LiveIn(D, 1) = {2, 3, 4} /\ LiveIn(D, 2) = {} /\ LiveIn(D, 3) = {} /\ LiveIn(D, 4) = {0}
      /\ LiveIn(D, 5) = {}
  BY <1>0 DEF UsedLive
<1> HIDE DEF G
<1>8. ASSUME NEW i \in G, NEW k \in LiveIn(D, i)
      PROVE  (i = 1 /\ k = 2) \/ (i = 1 /\ k = 3) \/ (i = 1 /\ k = 4) \/ (i = 4 /\ k = 0)
  BY <1>3, <1>7, <1>8
<1>9. Linking(D, G)
  <2>2. Distinct(D, G)
    <3>1. ASSUME NEW i \in G, NEW k \in LiveIn(D, i), NEW l \in LiveIn(D, i), SlotIn(D, i, k).name = SlotIn(D, i, l).name
          PROVE  k = l
      <4>1. /\ (i = 1 /\ k = 2) \/ (i = 1 /\ k = 3) \/ (i = 1 /\ k = 4) \/ (i = 4 /\ k = 0)
            /\ (i = 1 /\ l = 2) \/ (i = 1 /\ l = 3) \/ (i = 1 /\ l = 4) \/ (i = 4 /\ l = 0)
        BY <1>8
      <4>2. /\ SlotIn(D, 1, 2).name # SlotIn(D, 1, 3).name /\ SlotIn(D, 1, 2).name # SlotIn(D, 1, 4).name
            /\ SlotIn(D, 1, 3).name # SlotIn(D, 1, 4).name
        BY <1>2, <1>6
      <4> QED
        BY <3>1, <4>1, <4>2
    <3> QED
      BY <3>1 DEF Distinct
  <2>1. ASSUME NEW i \in G, NEW k \in LiveIn(D, i)
        PROVE  /\ SlotIn(D, i, k).inode \in G /\ SlotIn(D, i, k).inode # ROOT
               /\ D.node[SlotIn(D, i, k).inode].mode = SlotIn(D, i, k).type
    <3>1. CASE i = 1 /\ k = 2
      BY <3>1, <1>3, <1>4, <1>6 DEF ROOT
    <3>2. CASE i = 1 /\ k = 3
      BY <3>2, <1>3, <1>4, <1>6 DEF ROOT
    <3>3. CASE i = 1 /\ k = 4
      BY <3>3, <1>3, <1>4, <1>6 DEF ROOT
    <3>4. CASE i = 4 /\ k = 0
      BY <3>4, <1>3, <1>4, <1>6 DEF ROOT
    <3> QED
      BY <1>8, <3>1, <3>2, <3>3, <3>4
  <2> QED
    BY <1>1, <2>1, <2>2 DEF Linking
<1>10. Apart(D, G)
  <2>1. \A i \in G : D.node[i].block # 0 => D.node[i].block \in D.bbit /\ D.block[D.node[i].block].data \in {0, i}
    BY <1>3, <1>4, <1>5
  <2>2. \A i, j \in G : D.node[i].block # 0 /\ D.node[i].block = D.node[j].block => i = j
    BY <1>3, <1>4
  <2> QED
    BY <1>5, <2>1, <2>2 DEF Apart
<1>11. Unique(D, G, {})
  <2>1. ASSUME NEW i \in G, NEW j \in G, NEW k \in LiveIn(D, i), NEW l \in LiveIn(D, j),
               SlotIn(D, i, k).inode = SlotIn(D, j, l).inode
        PROVE  i = j /\ k = l
    <3>1. (i = 1 /\ k = 2) \/ (i = 1 /\ k = 3) \/ (i = 1 /\ k = 4) \/ (i = 4 /\ k = 0)
      BY <1>8
    <3>2. (j = 1 /\ l = 2) \/ (j = 1 /\ l = 3) \/ (j = 1 /\ l = 4) \/ (j = 4 /\ l = 0)
      BY <1>8
    <3> QED
      BY <1>6, <2>1, <3>1, <3>2
  <2> QED
    BY <2>1 DEF Unique
<1>12. Special(D, "app") /\ Special(D, "autorun")
  <2>1. LiveIn(D, ROOT) = {2, 3, 4} /\ \A k : SlotIn(D, ROOT, k) = SlotIn(D, 1, k)
    BY <1>7 DEF ROOT
  <2> QED
    BY <1>2, <1>4, <1>6, <2>1 DEF Special
<1>13. Good(D, G)
  BY <1>9, <1>10, <1>11, <1>12 DEF Good, Sound, Protected
<1> QED
  BY <1>13 DEF G

LEMMA InitHolds == Init => IInv
<1> SUFFICES ASSUME Init PROVE IInv
  OBVIOUS
<1>1. disk \in DiskT /\ Booted(disk, Boot)
  <2>1. CASE disk \in {Blank, Foreign}
    BY <2>1, BlankTyped DEF Booted
  <2>2. ASSUME NEW n \in Names, disk = Used(n) PROVE disk \in DiskT /\ Booted(disk, Boot)
    <3>1. UsedDisk(disk, n)
      BY <2>2, UsedTyped
    <3>2. 1 .. 5 \in SUBSET Inodes
      BY DiskAssumption DEF Inodes
    <3> QED
      BY <3>1, <3>2, UsedGood DEF Booted, UsedDisk
  <2> QED
    BY <2>1, <2>2 DEF Init
<1>2. Boot \in Seq(StepT)
  BY CallsTyped, ErrsTyped, TwoSteps DEF Boot, OnDisk
<1>3. Typed
  <2>1. 0 \in 0 .. MAX_FAULTS
    BY FaultsAssumption
  <2>2. todo = Boot /\ fs_mounted = FALSE /\ scars = {} /\ faults = 0
    BY DEF Init
  <2>3. todo \in Seq(StepT) /\ fs_mounted \in BOOLEAN /\ scars \subseteq Scars
    BY <1>2, <2>2
  <2> QED
    BY <1>1, <2>1, <2>2, <2>3 DEF Typed
<1>4. call.op = "boot" /\ ~fs_mounted /\ todo = Boot
  BY DEF Init, Booting
<1> QED
  BY <1>1, <1>3, <1>4 DEF IInv, Shape

-----------------------------------------------------------------------------
(***************************************************************************)
(* Every step keeps the invariant.                                         *)
(***************************************************************************)
LEMMA NextCases ==
  Next <=> Steps \/ Calling \/ reset \/ write_fails \/ data_unread \/ read_fails
BY DEF Next, Calling

LEMMA StepTypes ==
  ASSUME Typed, Next
  PROVE  Typed'
<1>1. CASE Steps
  BY <1>1, MountTyped, FormatDotsTyped, FormatProtectedTyped, RunAddTyped, RunRemoveTyped, UpdateDotsTyped,
     RunFreeTyped, WriteTyped DEF Steps
<1>2. CASE Calling
  BY <1>2, CreateTyped, DeleteTyped, RenameTyped, StoreTyped DEF Calling
<1>3. CASE reset \/ write_fails \/ data_unread \/ read_fails
  BY <1>3, ResetTyped, WriteTyped, DataTyped, ReadFailsTyped
<1> QED
  BY <1>1, <1>2, <1>3, NextCases

\* A mark stays.
LEMMA ScarsStay ==
  ASSUME Next
  PROVE  scars \subseteq scars'
<1>1. CASE Steps
  BY <1>1 DEF Steps, ensure_fs_mounted, ipo_fs_mount, format_dots, format_protected, run_dir_add_entry,
     run_dir_remove_entry, update_dots, run_free_inode, block_write, Refuses, Took, TookNone
<1>2. CASE Calling
  BY <1>2 DEF Calling, ipo_fs_create, ipo_fs_delete, ipo_fs_rename, ipo_fs_write, Took, TookNone, Overlooks
<1>3. CASE reset \/ write_fails \/ data_unread \/ read_fails
  BY <1>3 DEF reset, write_fails, data_unread, read_fails
<1> QED
  BY <1>1, <1>2, <1>3, NextCases

LEMMA StepShapes ==
  ASSUME Typed, Next, scars' \subseteq {"wiped"}, Shape(disk, fs_mounted, call, todo, scars)
  PROVE  Shaped
<1>1. CASE Calling
  BY <1>1, CallingGoes
<1>2. ASSUME NEW G \in SUBSET Inodes, Works(disk, G, call, todo), Steps \/ reset \/ write_fails \/ read_fails
      PROVE  Shaped
  BY <1>2, WorksGoes, WorksCutOff
<1>3. ASSUME ~fs_mounted, call.op = "boot", Booted(disk, todo), Steps \/ reset \/ write_fails \/ read_fails
      PROVE  Shaped
  BY <1>3, BootedGoes, BootedCutOff
<1>4. ASSUME ~fs_mounted, call.op = "boot", Formats(disk, scars, todo), Steps \/ reset \/ write_fails \/ read_fails
      PROVE  Shaped
  BY <1>4, FormatsGoes, FormatsCutOff
<1>5. ~data_unread
  BY DEF data_unread
<1> QED
  BY <1>1, <1>2, <1>3, <1>4, <1>5, NextCases DEF Shape

LEMMA NextHolds ==
  ASSUME IInv, [Next]_vars
  PROVE  IInv'
<1>1. CASE Next
  <2>1. Typed'
    BY <1>1, StepTypes DEF IInv
  <2>2. ASSUME scars' \subseteq {"wiped"} PROVE Shaped
    BY <1>1, <2>2, ScarsStay, StepShapes DEF IInv
  <2> QED
    BY <2>1, <2>2 DEF IInv, Shaped
<1>2. CASE UNCHANGED vars
  <2>1. /\ disk' = disk /\ fs_mounted' = fs_mounted /\ todo' = todo /\ call' = call /\ calls' = calls
        /\ faults' = faults /\ scars' = scars
    BY <1>2 DEF vars
  <2>2. Typed'
    BY <2>1 DEF IInv, Typed
  <2>3. ASSUME scars' \subseteq {"wiped"} PROVE Shape(disk', fs_mounted', call', todo', scars')
    BY <2>1, <2>3 DEF IInv
  <2> QED
    BY <2>2, <2>3 DEF IInv
<1> QED
  BY <1>1, <1>2

-----------------------------------------------------------------------------
(***************************************************************************)
(* What follows.                                                           *)
(***************************************************************************)
\* A mounted disk with no mark: everything a path leads to is good.
LEMMA MountedWorks ==
  ASSUME IInv, fs_mounted, Unscarred
  PROVE  \E G \in SUBSET Inodes : /\ Works(disk, G, call, todo) /\ Sound(disk, G) /\ Protected(disk)
                                  /\ Reached \subseteq G /\ (todo = << >> => Unique(disk, G, {}))
<1>1. disk \in DiskT /\ ROOT \in Inodes
  BY NodesTyped DEF IInv, Typed
<1>2. PICK G \in SUBSET Inodes : Works(disk, G, call, todo)
  BY DEF IInv, Shape, Unscarred
<1>3. Sound(disk, G) /\ Protected(disk)
  BY <1>2 DEF Works
<1>4. BelowIn(disk, ROOT) \subseteq G
  BY <1>1, <1>3, LinkingClosed DEF Sound
<1>5. Reached \subseteq G
  BY <1>1, <1>4, BelowDisk DEF Reached
<1>6. todo = << >> => Unique(disk, G, {})
  BY <1>2, WorksGood DEF Good
<1> QED
  BY <1>2, <1>3, <1>5, <1>6

LEMMA NamedIn ==
  ASSUME NEW p \in Named
  PROVE  p[1] \in Reached /\ p[2] \in LiveIn(disk, p[1]) /\ Target(p) = SlotIn(disk, p[1], p[2]) /\ p = <<p[1], p[2]>>
<1>1. PICK i \in Reached : p \in {<<i, k>> : k \in Live(i)}
  BY DEF Named
<1>2. PICK k \in Live(i) : p = <<i, k>>
  BY <1>1
<1>3. p[1] = i /\ p[2] = k
  BY <1>2
<1> QED
  BY <1>2, <1>3, DiskNames DEF Target

\* The inductive invariant of the file system's sectors: typed, and as long as no fault left a mark, the disk is
\* booted, in the middle of ipo_fs_format(), or in use with the call in progress at one of its writes.
THEOREM Inductive == Spec => []IInv
BY InitHolds, NextHolds, PTL DEF Spec

\* Every write of the file system, in a call or in a format, whatever fails and whenever it is reset, keeps
\* the bitmaps, inodes and blocks in their types, and every directory within its MAX_ENTRIES.
THEOREM TypesHold == Spec => []TypeOK
<1>1. IInv => TypeOK
  <2> SUFFICES ASSUME IInv PROVE TypeOK
    OBVIOUS
  <2>1. disk.super \in BOOLEAN /\ disk.ibit \subseteq Inodes /\ disk.bbit \subseteq Blocks
        /\ disk.node \in [Inodes -> NodeT] /\ disk.block \in [Blocks -> BlockT]
    BY DiskFields DEF IInv, Typed
  <2>2. \A i \in Inodes : disk.node[i] \in NodeT
    BY <2>1
  <2>3. \A b \in Blocks : disk.block[b].data \in 0 .. INODE_COUNT
    BY <2>1 DEF BlockT
  <2> QED
    BY <2>1, <2>2, <2>3 DEF TypeOK, IInv, Typed, NodeT, Modes
<1> QED
  BY <1>1, Inductive, PTL

\* At every moment of ipo_fs_create(), ipo_fs_delete(), ipo_fs_rename() and ipo_fs_write() a name leads to an
\* allocated inode of its type, no entry hides another of its name, and between calls no two names lead to one
\* inode: a failed lookup of a name that is there is caught by the one in dir_add_entry().
THEOREM NamesHold == Spec => []NamesSound
<1>1. IInv => NamesSound
  <2> SUFFICES ASSUME IInv, fs_mounted, Unscarred
               PROVE  /\ \A p \in Named : Target(p).inode \in disk.ibit
                                          /\ disk.node[Target(p).inode].mode = Target(p).type
                      /\ \A p, q \in Named : p[1] = q[1] /\ Target(p).name = Target(q).name => p = q
                      /\ todo = << >> => \A p, q \in Named : Target(p).inode = Target(q).inode => p = q
    BY DEF NamesSound
  <2>1. PICK G \in SUBSET Inodes : /\ Sound(disk, G) /\ Reached \subseteq G
                                   /\ (todo = << >> => Unique(disk, G, {}))
    BY MountedWorks
  <2>2. ASSUME NEW p \in Named
        PROVE  Target(p).inode \in disk.ibit /\ disk.node[Target(p).inode].mode = Target(p).type
    <3>1. p[1] \in G /\ p[2] \in LiveIn(disk, p[1]) /\ Target(p) = SlotIn(disk, p[1], p[2])
      BY <2>1, NamedIn
    <3>2. Target(p).inode \in G /\ disk.node[Target(p).inode].mode = Target(p).type
      BY <2>1, <3>1 DEF Sound, Linking
    <3> QED
      BY <2>1, <3>2 DEF Sound, Apart
  <2>3. ASSUME todo = << >>, NEW p \in Named, NEW q \in Named, Target(p).inode = Target(q).inode
        PROVE  p = q
    <3>1. /\ p[1] \in G /\ p[2] \in LiveIn(disk, p[1]) /\ Target(p) = SlotIn(disk, p[1], p[2])
          /\ q[1] \in G /\ q[2] \in LiveIn(disk, q[1]) /\ Target(q) = SlotIn(disk, q[1], q[2])
      BY <2>1, NamedIn
    <3>2. p[1] = q[1] /\ p[2] = q[2]
      BY <2>1, <2>3, <3>1 DEF Unique
    <3>3. p = <<p[1], p[2]>> /\ q = <<q[1], q[2]>>
      BY NamedIn
    <3> QED
      BY <3>2, <3>3
  <2>4. ASSUME NEW p \in Named, NEW q \in Named, p[1] = q[1], Target(p).name = Target(q).name
        PROVE  p = q
    <3>1. /\ p[1] \in G /\ p[2] \in LiveIn(disk, p[1]) /\ Target(p) = SlotIn(disk, p[1], p[2])
          /\ q[1] \in G /\ q[2] \in LiveIn(disk, q[1]) /\ Target(q) = SlotIn(disk, q[1], q[2])
      BY <2>1, NamedIn
    <3>2. Distinct(disk, G)
      BY <2>1 DEF Sound, Linking
    <3>3. p[2] = q[2]
      BY <2>4, <3>1, <3>2 DEF Distinct
    <3>4. p = <<p[1], p[2]>> /\ q = <<q[1], q[2]>>
      BY NamedIn
    <3> QED
      BY <2>4, <3>3, <3>4
  <2> QED
    BY <2>2, <2>3, <2>4
<1> QED
  BY <1>1, Inductive, PTL

\* At every moment the block of a file or directory a path leads to is allocated, no other's, and shows no other
\* file's bytes: allocate_block() marks and clears it first, free_inode() gives it back after the name is gone.
\* The reads the code goes on after when they fail (of a bitmap byte, of an indirect block to be freed, of the block
\* a write changes a part of) and an inode that was not written are excepted, as they are in BlocksApart.
THEOREM BlocksHold == Spec => []BlocksApart
<1>1. IInv => BlocksApart
  <2> SUFFICES ASSUME IInv, fs_mounted, Unscarred, NEW i \in Reached, disk.node[i].block # 0
               PROVE  /\ disk.node[i].block \in disk.bbit
                      /\ \A j \in Reached : disk.node[j].block = disk.node[i].block => j = i
                      /\ disk.block[disk.node[i].block].data \in {0, i}
    BY DEF BlocksApart
  <2>1. PICK G \in SUBSET Inodes : Sound(disk, G) /\ Reached \subseteq G
    BY MountedWorks
  <2>2. i \in G /\ Apart(disk, G)
    BY <2>1 DEF Sound
  <2>3. disk.node[i].block \in disk.bbit /\ disk.block[disk.node[i].block].data \in {0, i}
    BY <2>2 DEF Apart
  <2>4. \A j \in Reached : disk.node[j].block = disk.node[i].block => j = i
    BY <2>1, <2>2 DEF Apart
  <2> QED
    BY <2>3, <2>4
<1> QED
  BY <1>1, Inductive, PTL

\* A mounted file system has /app and /autorun, protected, unless a format was cut off: create_dir_inode() and
\* create_file_inode() of ipo_fs_format() enter them, and neither a delete nor a rename touches what is protected.
THEOREM ProtectedHolds == Spec => []ProtectedPresent
<1>1. IInv => ProtectedPresent
  <2> SUFFICES ASSUME IInv, fs_mounted, Unscarred, NEW n \in {"app", "autorun"}
               PROVE  Find(ROOT, n) # {} /\ disk.node[dir_find_entry(ROOT, n).inode].prot
    BY DEF ProtectedPresent
  <2>1. disk \in DiskT /\ ROOT \in Inodes
    BY NodesTyped DEF IInv, Typed
  <2>2. Special(disk, n)
    BY MountedWorks DEF Protected
  <2>3. Find(ROOT, n) # {}
    BY <2>2, DiskNames DEF Special, Find
  <2>4. First(Find(ROOT, n)) \in LiveIn(disk, ROOT) /\ SlotIn(disk, ROOT, First(Find(ROOT, n))).name = n
    BY <2>1, <2>3, FindTyped
  <2>5. dir_find_entry(ROOT, n) = SlotIn(disk, ROOT, First(Find(ROOT, n)))
    BY DiskNames DEF dir_find_entry
  <2> QED
    BY <2>2, <2>3, <2>4, <2>5 DEF Special
<1> QED
  BY <1>1, Inductive, PTL

-----------------------------------------------------------------------------
(***************************************************************************)
(* Nothing is lost.                                                        *)
(***************************************************************************)
ReachedIs == Reached = BelowIn(disk, ROOT)
LEMMA ReachedBelow == IInv => ReachedIs
<1>1. ASSUME IInv PROVE ReachedIs
  BY <1>1, NodesTyped, BelowDisk DEF IInv, Typed, Reached, ReachedIs
<1> QED
  BY <1>1

\* What a delete removes is an inode.
Victim == call.op = "delete" => call.victim \in Inodes
LEMMA InitVictim == Init => Victim
BY DEF Init, Booting, Victim
LEMMA NextVictim ==
  ASSUME IInv, Victim, [Next]_vars
  PROVE  Victim'
<1>0. Idle.op = "none" /\ Booting.op = "boot"
  BY DEF Idle, Booting
<1>1. ASSUME call' \in {call, Idle, Booting} PROVE Victim'
  BY <1>0, <1>1 DEF Victim
<1>2. ASSUME NEW op, op # "delete", NEW v, NEW s, Begin(op, v, s) PROVE Victim'
  BY <1>2 DEF Begin, Victim
<1>3. ASSUME NEW steps, Goes(steps) PROVE Victim'
  BY <1>1, <1>3 DEF Goes
<1>4. CASE Steps
  BY <1>3, <1>4 DEF Steps, ensure_fs_mounted, ipo_fs_mount, format_dots, format_protected, run_dir_add_entry,
     run_dir_remove_entry, update_dots, run_free_inode, block_write, Refuses, Becomes, Returns, Fails
<1>5. CASE reset \/ write_fails \/ data_unread \/ read_fails
  BY <1>1, <1>3, <1>5 DEF reset, write_fails, data_unread, read_fails, Becomes, Returns, Fails
<1>6. ASSUME NEW d \in Paths, NEW n \in Names, NEW t \in Types, ipo_fs_create(d, n, t) PROVE Victim'
  BY <1>2, <1>6 DEF ipo_fs_create
<1>7. ASSUME NEW d \in Paths, NEW n \in Names, NEW to \in Paths, NEW m \in Names, ipo_fs_rename(d, n, to, m)
      PROVE  Victim'
  BY <1>2, <1>7 DEF ipo_fs_rename
<1>8. ASSUME NEW i \in Paths, ipo_fs_write(i) PROVE Victim'
  BY <1>2, <1>8 DEF ipo_fs_write
<1>9. ASSUME NEW d \in Paths, NEW n \in Names, ipo_fs_delete(d, n) PROVE Victim'
  <2> DEFINE e == dir_find_entry(d, n)
  <2>1. Begin("delete", e.inode, DeleteSteps(d, n, e)) /\ Find(d, n) # {}
    BY <1>9 DEF ipo_fs_delete
  <2>2. d \in Inodes /\ disk \in DiskT
    BY PathsTyped DEF IInv, Typed
  <2>3. e.inode \in Inodes
    <3>1. First(Find(d, n)) \in LiveIn(disk, d)
      BY <2>1, <2>2, FindTyped
    <3>2. e = SlotIn(disk, d, First(Find(d, n)))
      BY DiskNames DEF dir_find_entry
    <3> QED
      BY <2>2, <3>1, <3>2, SlotTyped
  <2> QED
    BY <2>1, <2>3 DEF Begin, Victim
<1>10. CASE Calling
  BY <1>6, <1>7, <1>8, <1>9, <1>10 DEF Calling
<1>11. CASE UNCHANGED vars
  BY <1>1, <1>11 DEF vars
<1> QED
  BY <1>4, <1>5, <1>10, <1>11, NextCases

\* Which steps change the disk.
LEMMA DiskChanges ==
  ASSUME [Next]_vars
  PROVE  disk' = disk \/ block_write \/ write_fails \/ "misread" \in scars'
<1>1. CASE Steps
  BY <1>1 DEF Steps, ensure_fs_mounted, ipo_fs_mount, format_dots, format_protected, run_dir_add_entry,
     run_dir_remove_entry, update_dots, run_free_inode, Refuses, Becomes
<1>2. CASE Calling
  BY <1>2 DEF Calling, ipo_fs_create, ipo_fs_delete, ipo_fs_rename, ipo_fs_write, Begin
<1>3. CASE reset \/ write_fails \/ data_unread \/ read_fails
  BY <1>3 DEF reset, data_unread, read_fails, Becomes
<1>4. CASE UNCHANGED vars
  BY <1>4 DEF vars
<1> QED
  BY <1>1, <1>2, <1>3, <1>4, NextCases

\* A write takes away what the call deletes, and nothing else.
LEMMA WriteLoses ==
  ASSUME IInv, scars = {}, todo # << >>, Head(todo).do \notin Functions
  PROVE  Loses(disk, PutOn(disk, Head(todo)), call)
<1> DEFINE E == PutOn(disk, Head(todo))
<1>1. disk \in DiskT /\ Shape(disk, fs_mounted, call, todo, scars)
  BY DEF IInv, Typed
<1>2. ASSUME NEW G \in SUBSET Inodes, Works(disk, G, call, todo) PROVE Loses(disk, E, call)
  BY <1>1, <1>2, WorksWrite
<1>3. ~Booted(disk, todo)
  BY BootList DEF Booted, Functions
<1>4. ASSUME Formats(disk, scars, todo) PROVE Loses(disk, E, call)
  <2>1. BelowIn(disk, ROOT) \subseteq BelowIn(E, ROOT)
    BY <1>1, <1>4, FormatsForms DEF Forms
  <2> HIDE DEF E
  <2>2. BelowIn(disk, ROOT) \ BelowIn(E, ROOT) = {}
    BY <2>1
  <2> QED
    BY <2>2 DEF Loses
<1> QED
  BY <1>1, <1>2, <1>3, <1>4 DEF Shape

LostAtMost == Reached \ Reached' \subseteq (IF call.op = "delete" THEN Below(call.victim) ELSE {})
LEMMA StepLoses ==
  ASSUME IInv, Victim, ReachedIs, ReachedIs', scars = {}, "misread" \notin scars', [Next]_vars
  PROVE  LostAtMost
<1>0. Reached = BelowIn(disk, ROOT) /\ Reached' = BelowIn(disk', ROOT)
  BY DEF ReachedIs
<1>1. CASE disk' = disk
  BY <1>0, <1>1 DEF LostAtMost
<1>2. CASE (block_write \/ write_fails) /\ disk' # disk
  <2> DEFINE E == PutOn(disk, Head(todo))
  <2>1. todo # << >> /\ Head(todo).do \notin Functions
    BY <1>2 DEF block_write, write_fails, Writing, Arg
  <2>2. disk' = E
    BY <1>2, PutDisk DEF block_write, write_fails, Arg
  <2>3. Loses(disk, E, call)
    BY <2>1, WriteLoses
  <2> HIDE DEF E
  <2>4. Loses(disk, disk', call)
    BY <2>2, <2>3
  <2>5. call.op = "delete" => Below(call.victim) = BelowIn(disk, call.victim)
    BY BelowDisk DEF Victim, IInv, Typed
  <2> QED
    BY <1>0, <2>4, <2>5 DEF Loses, LostAtMost
<1> QED
  BY <1>1, <1>2, DiskChanges

\* Only ipo_fs_delete() takes files out of the tree, its target and what is below it: no other write of
\* ipo_fs_create(), ipo_fs_rename(), ipo_fs_write() or of a format does, no reset, no failed lookup of a name that
\* dir_add_entry() then finds, and no failing write but that of an inode (NothingLost names the exceptions).
THEOREM NothingIsLost == Spec => NothingLost
<1>1. Spec => []Victim
  <2>1. Spec => []IInv
    BY Inductive
  <2>2. IInv /\ Victim /\ [Next]_vars => Victim'
    BY NextVictim
  <2> QED
    BY <2>1, <2>2, InitVictim, PTL DEF Spec
<1>2. IInv /\ Victim /\ ReachedIs /\ ReachedIs' /\ [Next]_vars =>
        [scars = {} /\ scars' \subseteq {"rename", "format"} => LostAtMost]_vars
  BY StepLoses
<1>3. [][scars = {} /\ scars' \subseteq {"rename", "format"} => LostAtMost]_vars => NothingLost
  BY DEF NothingLost, LostAtMost
<1> QED
  BY <1>1, <1>2, <1>3, Inductive, ReachedBelow, PTL DEF Spec

=============================================================================
