--------------------------- MODULE IpoNamesProofs ---------------------------
(***************************************************************************)
(* Proofs about IpoNames: for every number of inodes, every size of a      *)
(* directory, every set of names and of paths, and every directory that    *)
(* gets no block when it needs one.  The one hypothesis is that callers    *)
(* create files only, as the one caller, ipo_fs_write_text(), does; a      *)
(* directory ipo_fs_create() makes has no dots, and delete and rename then *)
(* take its first entries for them.                                        *)
(***************************************************************************)
EXTENDS IpoNames, FiniteSetTheorems, TLAPS

-----------------------------------------------------------------------------
(***************************************************************************)
(* Natural numbers and recursive functions.                                *)
(***************************************************************************)
\* A set of natural numbers has a least element.
LEMMA LeastElement ==
  ASSUME NEW S \in SUBSET Nat, S # {}
  PROVE  \E n \in S : \A m \in S : n <= m
<1>1. PICK n \in S : TRUE
  OBVIOUS
<1> DEFINE T == {0 .. m : m \in {k \in S : k <= n}}
<1>2. T \subseteq FiniteSubsetsOf(0 .. n) /\ T # {}
  <2>1. IsFiniteSet(0 .. n)
    BY <1>1, FS_Interval
  <2>2. \A m \in S : IsFiniteSet(0 .. m)
    BY FS_Interval
  <2> QED
    BY <2>2, <1>1 DEF FiniteSubsetsOf
<1>3. IsWellFoundedOn(StrictSubsetOrdering(0 .. n), FiniteSubsetsOf(0 .. n))
  BY FS_StrictSubsetOrderingWellFounded
<1>4. PICK x \in T : \A y \in T : ~(<<y, x>> \in StrictSubsetOrdering(0 .. n))
  <2> HIDE DEF T
  <2> QED
    BY <1>2, <1>3, WFMin
<1>5. PICK m \in S : m <= n /\ x = 0 .. m
  BY <1>4
<1>6. \A k \in S : k < m => FALSE
  <2> SUFFICES ASSUME NEW k \in S, k < m PROVE FALSE
    OBVIOUS
  <2>1. 0 .. k \in T
    BY <1>1, <1>5
  <2>2. 0 .. k \subseteq 0 .. m /\ 0 .. k # 0 .. m
    BY <1>5
  <2>3. <<0 .. k, x>> \in StrictSubsetOrdering(0 .. n)
    BY <2>2, <1>5, <1>1 DEF StrictSubsetOrdering
  <2> QED
    BY <1>4, <2>1, <2>3
<1> QED
  BY <1>5, <1>6

\* Induction, with a set for the predicate.
LEMMA SetInduction ==
  ASSUME NEW S \in SUBSET Nat, 0 \in S, \A n \in S : n + 1 \in S
  PROVE  S = Nat
<1> SUFFICES ASSUME S # Nat PROVE FALSE
  OBVIOUS
<1>1. PICK n \in Nat \ S : \A m \in Nat \ S : n <= m
  BY LeastElement
<1>2. n - 1 \in S
  BY <1>1
<1> QED
  BY <1>1, <1>2

\* The first of some slots or inodes is one of them.
LEMMA FirstIn ==
  ASSUME NEW S \in SUBSET Nat, S # {}
  PROVE  First(S) \in S
<1>1. \E n \in S : \A m \in S : n <= m
  BY LeastElement
<1> QED
  BY <1>1 DEF First

Recursive(f, r, N, G) == f = [k \in 0 .. N |-> IF k = 0 THEN r ELSE G[<<f[k - 1], k>>]]
StepsOn(R, N) == [R \X (1 .. N) -> R]

\* A function can be defined by recursion on the numbers up to N.
LEMMA Recursion ==
  ASSUME NEW R, NEW r \in R, NEW N \in Nat, NEW G \in StepsOn(R, N)
  PROVE  \E f \in [0 .. N -> R] : Recursive(f, r, N, G)
<1> USE DEF Recursive, StepsOn
<1> DEFINE P(n, f) == f[0] = r /\ \A k \in 1 .. n : f[k] = G[<<f[k - 1], k>>]
           S == {n \in Nat : n <= N => \E f \in [0 .. n -> R] : P(n, f)}
<1>1. 0 \in S
  <2>1. P(0, [k \in 0 .. 0 |-> r]) /\ [k \in 0 .. 0 |-> r] \in [0 .. 0 -> R]
    OBVIOUS
  <2> QED
    BY <2>1
<1>2. ASSUME NEW n \in S
      PROVE  n + 1 \in S
  <2> SUFFICES ASSUME n + 1 <= N PROVE \E f \in [0 .. (n + 1) -> R] : P(n + 1, f)
    OBVIOUS
  <2>1. PICK f \in [0 .. n -> R] : P(n, f)
    OBVIOUS
  <2> DEFINE g == [k \in 0 .. (n + 1) |-> IF k = n + 1 THEN G[<<f[n], n + 1>>] ELSE f[k]]
  <2>2. n + 1 \in 1 .. N /\ f[n] \in R
    BY <2>1
  <2>3. G[<<f[n], n + 1>>] \in R
    BY <2>2
  <2>4. g \in [0 .. (n + 1) -> R]
    BY <2>1, <2>3
  <2>5. \A k \in 1 .. (n + 1) : g[k] = G[<<g[k - 1], k>>]
    <3> SUFFICES ASSUME NEW k \in 1 .. (n + 1)
                 PROVE  g[k] = G[<<g[k - 1], k>>]
      OBVIOUS
    <3>1. CASE k = n + 1
      <4>1. g[k - 1] = f[n] /\ k - 1 = n
        BY <3>1
      <4>2. g[k] = G[<<f[n], n + 1>>]
        BY <3>1
      <4> QED
        BY <3>1, <4>1, <4>2, Zenon
    <3>2. CASE k \in 1 .. n
      <4>1. g[k] = f[k] /\ g[k - 1] = f[k - 1]
        BY <3>2
      <4> QED
        BY <3>2, <4>1, <2>1
    <3> QED
      BY <3>1, <3>2
  <2>6. g[0] = r
    BY <2>1
  <2> QED
    BY <2>4, <2>5, <2>6
<1>3. S = Nat
  <2> HIDE DEF S
  <2> QED
    <3>1. S \in SUBSET Nat
      BY DEF S
    <3> QED
      BY <1>1, <1>2, <3>1, SetInduction
<1>4. PICK f \in [0 .. N -> R] : P(N, f)
  <2>1. N \in S
    BY <1>3
  <2> QED
    BY <2>1
<1>5. f = [k \in 0 .. N |-> IF k = 0 THEN r ELSE G[<<f[k - 1], k>>]]
  <2>1. \A k \in 0 .. N : f[k] = IF k = 0 THEN r ELSE G[<<f[k - 1], k>>]
    BY <1>4
  <2> QED
    BY <2>1
<1> QED
  BY <1>5

-----------------------------------------------------------------------------
LEMMA Walk ==
  ASSUME NEW path \in Seq(Names \cup {BadName}), NEW R, ROOT \in R,
         \A c \in R, n \in Names \cup {BadName} :
            (IF c = 0 \/ Find(c, n) = {} THEN 0 ELSE dir_find_entry(c, n).inode) \in R
  PROVE  path_resolve(path) \in R
<1> DEFINE step(cur, n) == IF cur = 0 \/ Find(cur, n) = {} THEN 0 ELSE dir_find_entry(cur, n).inode
           at[k \in 0 .. Len(path)] == IF k = 0 THEN ROOT ELSE step(at[k - 1], path[k])
           G == [x \in R \X (1 .. Len(path)) |-> step(x[1], path[x[2]])]
<1>1. path_resolve(path) = at[Len(path)]
  BY DEF path_resolve
<1> HIDE DEF step
<1> DEFINE N == Len(path)
<1>2. N \in Nat /\ \A k \in 1 .. N : path[k] \in Names \cup {BadName}
  OBVIOUS
<1>3. \A c \in R, k \in 1 .. N : step(c, path[k]) \in R
  BY <1>2 DEF step
<1>4. G \in StepsOn(R, N)
  BY <1>3 DEF StepsOn
<1>5. PICK f \in [0 .. N -> R] : Recursive(f, ROOT, N, G)
  <2>1. ROOT \in R
    OBVIOUS
  <2> HIDE DEF G, N, at
  <2> QED
    BY <2>1, <1>2, <1>4, Recursion, Zenon
<1>6. f = [k \in 0 .. N |-> IF k = 0 THEN ROOT ELSE step(f[k - 1], path[k])]
  <2>1. \A k \in 0 .. N : k # 0 => G[<<f[k - 1], k>>] = step(f[k - 1], path[k])
    <3> SUFFICES ASSUME NEW k \in 0 .. N, k # 0
                 PROVE  G[<<f[k - 1], k>>] = step(f[k - 1], path[k])
      OBVIOUS
    <3> HIDE DEF at
    <3>1. f[k - 1] \in R /\ k \in 1 .. N
      <4> HIDE DEF N, G
      <4>1. k - 1 \in 0 .. N /\ k \in 1 .. N
        BY <1>2
      <4> QED
        BY <4>1
    <3> QED
      BY <3>1
  <2> HIDE DEF G, at
  <2> QED
    BY <1>5, <2>1 DEF Recursive
<1>7. at = [k \in 0 .. N |-> IF k = 0 THEN ROOT ELSE step(at[k - 1], path[k])]
  BY <1>6
<1> HIDE DEF at
<1>8. \A k \in 0 .. N : at[k] \in R
  <2> DEFINE S == {n \in Nat : n <= N => at[n] \in R}
  <2>1. 0 \in S
    BY <1>7
  <2>2. ASSUME NEW n \in S
        PROVE  n + 1 \in S
    <3> SUFFICES ASSUME n + 1 <= N PROVE at[n + 1] \in R
      OBVIOUS
    <3>1. at[n] \in R /\ n + 1 \in 1 .. N
      BY <1>2
    <3>2. at[n + 1] = step(at[n], path[n + 1])
      BY <1>7, <3>1
    <3> QED
      BY <3>1, <3>2, <1>3, Zenon
  <2>3. S = Nat
    <3>1. S \in SUBSET Nat
      OBVIOUS
    <3> HIDE DEF S
    <3> QED
      BY <2>1, <2>2, <3>1, SetInduction
  <2> QED
    BY <2>3
<1> QED
  BY <1>1, <1>2, <1>8

-----------------------------------------------------------------------------
(***************************************************************************)
(* The inductive invariant.  A link is an entry that counts, behind the    *)
(* dots.  Every directory has its dots in the first two slots and nothing  *)
(* behind its size; links lead to allocated inodes of their type, whose    *)
(* ".." leads back; no two of a directory share a name, no two at all an   *)
(* inode; and every allocated inode but the root has one.                  *)
(***************************************************************************)
Bitmaps == [Inodes -> BOOLEAN]
InodeTables == [Inodes -> Inode]
Directories == [Inodes -> [Slots -> Entry]]

IsDir(bits, in, d) == d \in Inodes /\ bits[d] /\ in[d].dir
Link(bits, in, sl, d, s) ==
  IsDir(bits, in, d) /\ s \in Slots /\ 2 <= s /\ s < in[d].entries /\ sl[d][s].inode # 0

Shaped(bits, in, sl) ==
  \A d \in Inodes : IsDir(bits, in, d) =>
    /\ in[d].blk /\ in[d].entries >= 2
    /\ sl[d][0].name = "." /\ sl[d][0].inode # 0
    /\ sl[d][1].name = ".." /\ sl[d][1].inode # 0
    /\ \A s \in Slots : s >= in[d].entries => sl[d][s].inode = 0

LeadsTo(bits, in, sl, d, i, t) ==
  /\ i \in Inodes \ {ROOT} /\ bits[i] /\ in[i].dir = (t = DIR)
  /\ t = DIR => sl[i][1].inode = d

LinksLead(bits, in, sl) ==
  \A d \in Inodes, s \in Slots : Link(bits, in, sl, d, s) =>
    sl[d][s].name \in Names /\ LeadsTo(bits, in, sl, d, sl[d][s].inode, sl[d][s].type)

NamesDiffer(bits, in, sl) ==
  \A d \in Inodes, s, t \in Slots :
    /\ Link(bits, in, sl, d, s) /\ Link(bits, in, sl, d, t)
    /\ sl[d][s].name = sl[d][t].name
    => s = t

LinksDiffer(bits, in, sl) ==
  \A c, d \in Inodes, s, t \in Slots :
    /\ Link(bits, in, sl, c, s) /\ Link(bits, in, sl, d, t)
    /\ sl[c][s].inode = sl[d][t].inode
    => c = d /\ s = t

AllLinked(bits, in, sl) ==
  \A i \in Inodes \ {ROOT} : bits[i] =>
    \E d \in Inodes, s \in Slots : Link(bits, in, sl, d, s) /\ sl[d][s].inode = i

Kept(bits, in) ==
  /\ bits[ROOT] /\ in[ROOT].dir
  /\ \A i \in {2, 3} : bits[i] /\ in[i].prot

Good(bits, in, sl) ==
  /\ Shaped(bits, in, sl) /\ LinksLead(bits, in, sl)
  /\ NamesDiffer(bits, in, sl) /\ LinksDiffer(bits, in, sl) /\ AllLinked(bits, in, sl)
  /\ Kept(bits, in)

IInv == TypeOK /\ Good(ibit, inode, slot)

-----------------------------------------------------------------------------
(***************************************************************************)
(* Lookup.                                                                 *)
(***************************************************************************)
\* A name is found at a link of the directory, and at one only.
LEMMA Found ==
  ASSUME IInv, NEW d \in Inodes, ibit[d], NEW n \in Names \cup {BadName}
  PROVE  \A s : s \in Find(d, n) <=> Link(ibit, inode, slot, d, s) /\ slot[d][s].name = n
<1>1. inode[d].entries \in 0 .. MAX_ENTRIES /\ MAX_ENTRIES \in Nat
  BY EntriesAssumption DEF IInv, TypeOK, Inode
<1>2. n \notin {".", ".."}
  BY NamesAssumption
<1>3. inode[d].dir => /\ inode[d].blk /\ inode[d].entries >= 2
                      /\ slot[d][0].name = "." /\ slot[d][1].name = ".."
  BY DEF IInv, Good, Shaped, IsDir
<1> QED
  BY <1>1, <1>2, <1>3 DEF Find, Live, Counted, Link, IsDir, Slots

\* What dir_find_entry() returns is that link.
LEMMA FoundFirst ==
  ASSUME IInv, NEW d \in Inodes, ibit[d], NEW n \in Names \cup {BadName}, Find(d, n) # {}
  PROVE  \E s \in Slots : /\ Link(ibit, inode, slot, d, s) /\ slot[d][s].name = n
                          /\ dir_find_entry(d, n) = slot[d][s]
<1>1. Find(d, n) \in SUBSET Nat
  BY Found DEF Link, Slots
<1>2. First(Find(d, n)) \in Find(d, n)
  BY <1>1, FirstIn
<1> QED
  BY <1>2, Found DEF dir_find_entry, Link

Allocated == {i \in Inodes : ibit[i]}

\* A path leads nowhere or to an allocated inode.
LEMMA PathLeads ==
  ASSUME IInv, NEW path \in Seq(Names \cup {BadName})
  PROVE  path_resolve(path) \in {0} \cup Allocated
<1>1. ROOT \in Allocated
  BY CountAssumption DEF IInv, Good, Kept, Allocated, ROOT, Inodes
<1>2. ASSUME NEW c \in {0} \cup Allocated, NEW n \in Names \cup {BadName}
      PROVE  (IF c = 0 \/ Find(c, n) = {} THEN 0 ELSE dir_find_entry(c, n).inode)
               \in {0} \cup Allocated
  <2> SUFFICES ASSUME c # 0, Find(c, n) # {}
               PROVE  dir_find_entry(c, n).inode \in Allocated
    OBVIOUS
  <2>1. c \in Inodes /\ ibit[c]
    BY DEF Allocated
  <2>2. PICK s \in Slots : /\ Link(ibit, inode, slot, c, s)
                           /\ dir_find_entry(c, n) = slot[c][s]
    BY <2>1, FoundFirst
  <2> QED
    BY <2>1, <2>2 DEF IInv, Good, LinksLead, LeadsTo, Allocated
<1> QED
  BY <1>1, <1>2, Walk

\* So does the path of the directory it names an entry of.
LEMMA ParentLeads ==
  ASSUME IInv, NEW path \in Paths, path_resolve_parent(path) # 0
  PROVE  /\ path_resolve_parent(path) \in Allocated
         /\ Last(path) \in Names \cup {BadName}
<1>1. path \in Seq(Names \cup {BadName}) /\ path # <<>>
  BY NamesAssumption DEF path_resolve_parent
<1>2. Len(path) \in Nat /\ Len(path) > 0
  BY <1>1
<1>3. Front(path) \in Seq(Names \cup {BadName}) /\ Last(path) \in Names \cup {BadName}
  BY <1>1, <1>2 DEF Front, Last
<1>4. path_resolve_parent(path) = path_resolve(Front(path))
  BY <1>1 DEF path_resolve_parent
<1> QED
  BY <1>3, <1>4, PathLeads

-----------------------------------------------------------------------------
(***************************************************************************)
(* Writing a directory.                                                    *)
(***************************************************************************)
\* An entry is written at a slot.
PutAt(sl, d, k, e) == [sl EXCEPT ![d][k] = e]
Differs(f, sl, d, k, e) ==
  /\ f \in Directories /\ f[d][k] = e
  /\ \A c \in Inodes, t \in Slots : c # d \/ t # k => f[c][t] = sl[c][t]
LEMMA PutDiffers ==
  ASSUME NEW sl \in Directories, NEW d \in Inodes, NEW k \in Slots, NEW e \in Entry
  PROVE  Differs(PutAt(sl, d, k, e), sl, d, k, e)
BY DEF PutAt, Directories, Differs

LEMMA PutFields ==
  ASSUME NEW sl \in Directories, NEW d \in Inodes, NEW k \in Slots, NEW e \in Entry
  PROVE  /\ PutAt(sl, d, k, e) \in Directories
         /\ PutAt(sl, d, k, e)[d][k] = e
         /\ \A c \in Inodes, t \in Slots :
              c # d \/ t # k => PutAt(sl, d, k, e)[c][t] = sl[c][t]
BY PutDiffers DEF Differs

\* A removed entry keeps its type byte.
Tombstone(e) == [e EXCEPT !.inode = 0, !.name = NoName]
LEMMA TombstoneFields ==
  ASSUME NEW e \in Entry
  PROVE  Tombstone(e) \in Entry /\ Tombstone(e).inode = 0
<1>1. 0 \in 0 .. INODE_COUNT /\ NoName \in Names \cup Dots \cup {NoName} /\ e.type \in {FILE, DIR}
  BY CountAssumption DEF Entry
<1> QED
  BY <1>1 DEF Tombstone, Entry

\* dir_remove_entry() on a directory where one entry has the name.
LEMMA RemovedAt ==
  ASSUME NEW sl \in Directories, NEW d \in Inodes, NEW n, NEW s \in Slots,
         sl[d][s].inode # 0, sl[d][s].name = n,
         \A t \in Slots : sl[d][t].inode # 0 /\ sl[d][t].name = n => t = s
  PROVE  dir_remove_entry(sl, d, n) \in {PutAt(sl, d, s, Tombstone(sl[d][s]))}
<1> DEFINE S == {t \in Slots : sl[d][t].inode # 0 /\ sl[d][t].name = n}
<1>1. S = {s}
  OBVIOUS
<1>2. S \in SUBSET Nat
  BY EntriesAssumption DEF Slots
<1>3. First(S) = s
  <2> HIDE DEF S
  <2> QED
    BY <1>1, <1>2, FirstIn
<1>4. dir_remove_entry(sl, d, n) = [sl EXCEPT ![d][s] = [@ EXCEPT !.inode = 0, !.name = NoName]]
  <2>1. dir_remove_entry(sl, d, n) =
          [sl EXCEPT ![d][First(S)] = [@ EXCEPT !.inode = 0, !.name = NoName]]
    BY DEF dir_remove_entry
  <2> HIDE DEF S
  <2> QED
    BY <2>1, <1>3
<1> QED
  BY <1>4 DEF PutAt, Tombstone, Directories

\* A directory's size after an entry is added.
LEMMA GrownFields ==
  ASSUME NEW in \in InodeTables, NEW d \in Inodes, in[d].entries < MAX_ENTRIES
  PROVE  /\ Grown(in, d) \in InodeTables
         /\ \A c \in Inodes : /\ Grown(in, d)[c].dir = in[c].dir
                              /\ Grown(in, d)[c].prot = in[c].prot
         /\ \A c \in Inodes \ {d} : Grown(in, d)[c] = in[c]
         /\ Grown(in, d)[d].entries = in[d].entries + 1
         /\ Grown(in, d)[d].blk
<1>1. in[d] \in Inode /\ in[d].entries + 1 \in 0 .. MAX_ENTRIES
  BY EntriesAssumption DEF InodeTables, Inode
<1>2. Grown(in, d) = [in EXCEPT ![d] = Grown(in, d)[d]]
  BY DEF Grown, InodeTables
<1>3. /\ Grown(in, d)[d].dir = in[d].dir /\ Grown(in, d)[d].prot = in[d].prot
      /\ Grown(in, d)[d].entries = in[d].entries + 1 /\ Grown(in, d)[d].blk
      /\ Grown(in, d)[d] \in Inode
  BY <1>1 DEF Grown, InodeTables, Inode
<1>4. \A c \in Inodes \ {d} : Grown(in, d)[c] = in[c]
  BY <1>2 DEF InodeTables
<1>5. Grown(in, d) \in InodeTables
  BY <1>2, <1>3 DEF InodeTables
<1> QED
  BY <1>3, <1>4, <1>5

-----------------------------------------------------------------------------
(***************************************************************************)
(* ipo_fs_create().  The new file is at the end of its directory.          *)
(***************************************************************************)
Blank(i) == [inode EXCEPT ![i] = NewInode(FILE)]
Empty(i) == [slot EXCEPT ![i] = NoSlots]
NewEntry(i, n) == [inode |-> i, type |-> FILE, name |-> n]

\* Clearing an inode touches no other.
LEMMA ClearFields ==
  ASSUME IInv, NEW i \in Inodes
  PROVE  /\ Blank(i) \in InodeTables /\ Empty(i) \in Directories
         /\ \A c \in Inodes \ {i} : Blank(i)[c] = inode[c] /\ Empty(i)[c] = slot[c]
         /\ Blank(i)[i].dir = FALSE
<1>1. NewInode(FILE) \in Inode /\ NewInode(FILE).dir = FALSE
  <2>1. (FILE = DIR) = FALSE
    BY DEF FILE, DIR
  <2>2. NewInode(FILE) = [dir |-> FALSE, prot |-> FALSE, entries |-> 0, blk |-> FALSE]
    BY <2>1 DEF NewInode
  <2>3. 0 \in 0 .. MAX_ENTRIES
    BY EntriesAssumption
  <2> QED
    BY <2>2, <2>3 DEF Inode
<1>2. NoEntry \in Entry
  BY CountAssumption DEF NoEntry, Entry
<1>3. NoSlots \in [Slots -> Entry]
  BY <1>2 DEF NoSlots
<1> QED
  BY <1>1, <1>3 DEF IInv, TypeOK, InodeTables, Directories, Blank, Empty

\* What a successful create writes: a file n, inode i, in directory p.
Creates(p, i, n) ==
  /\ p \in Inodes /\ ibit[p] /\ inode[p].dir /\ inode[p].entries < MAX_ENTRIES
  /\ i \in Inodes /\ ~ibit[i]
  /\ n \in Names /\ Find(p, n) = {}
  /\ ibit' = [ibit EXCEPT ![i] = TRUE]
  /\ inode' = Grown(Blank(i), p)
  /\ slot' = PutAt(Empty(i), p, inode[p].entries, NewEntry(i, n))

\* The same, entry by entry.
Created(p, i, n) ==
  /\ p # i /\ inode[p].entries \in Slots /\ inode[p].entries >= 2
  /\ ibit' \in Bitmaps /\ inode' \in InodeTables /\ slot' \in Directories
  /\ \A c \in Inodes : /\ ibit'[c] <=> (ibit[c] \/ c = i)
                       /\ c # i => inode'[c].dir = inode[c].dir /\ inode'[c].prot = inode[c].prot
                       /\ c \notin {i, p} => inode'[c] = inode[c]
  /\ inode'[i].dir = FALSE
  /\ inode'[p].entries = inode[p].entries + 1 /\ inode'[p].blk
  /\ slot'[p][inode[p].entries] = NewEntry(i, n)
  /\ \A c \in Inodes \ {i}, t \in Slots :
       c # p \/ t # inode[p].entries => slot'[c][t] = slot[c][t]

LEMMA CreateFields ==
  ASSUME IInv, NEW p, NEW i, NEW n, Creates(p, i, n)
  PROVE  Created(p, i, n)
<1> DEFINE k == inode[p].entries
<1>1. /\ p \in Inodes /\ i \in Inodes /\ p # i
      /\ ibit \in [Inodes -> BOOLEAN] /\ inode \in InodeTables /\ slot \in Directories
  BY DEF Creates, IInv, TypeOK, InodeTables, Directories
<1>2. k >= 2 /\ k \in Slots
  <2>1. k >= 2
    BY DEF IInv, Good, Shaped, IsDir, Creates
  <2>2. k \in 0 .. MAX_ENTRIES /\ MAX_ENTRIES \in Nat /\ k < MAX_ENTRIES
    BY <1>1, EntriesAssumption DEF InodeTables, Inode, Creates
  <2> QED
    BY <2>1, <2>2 DEF Slots
<1>3. ibit' \in Bitmaps /\ \A c \in Inodes : ibit'[c] <=> (ibit[c] \/ c = i)
  BY <1>1 DEF Creates, Bitmaps
<1>4. /\ Blank(i) \in InodeTables /\ Empty(i) \in Directories
      /\ \A c \in Inodes \ {i} : Blank(i)[c] = inode[c] /\ Empty(i)[c] = slot[c]
      /\ Blank(i)[i].dir = FALSE
  BY <1>1, ClearFields
<1>5. Blank(i)[p] = inode[p] /\ Blank(i)[p].entries < MAX_ENTRIES
  BY <1>1, <1>4 DEF Creates
<1>6. /\ inode' \in InodeTables
      /\ \A c \in Inodes : inode'[c].dir = Blank(i)[c].dir /\ inode'[c].prot = Blank(i)[c].prot
      /\ \A c \in Inodes \ {p} : inode'[c] = Blank(i)[c]
      /\ inode'[p].entries = k + 1 /\ inode'[p].blk
  <2>1. inode' = Grown(Blank(i), p)
    BY DEF Creates
  <2> QED
    BY <2>1, <1>1, <1>4, <1>5, GrownFields
<1>7. NewEntry(i, n) \in Entry
  <2>1. i \in 0 .. INODE_COUNT /\ n \in Names
    BY <1>1, CountAssumption DEF Inodes, Creates
  <2> QED
    BY <2>1 DEF NewEntry, Entry
<1>8. /\ slot' \in Directories /\ slot'[p][k] = NewEntry(i, n)
      /\ \A c \in Inodes, t \in Slots : c # p \/ t # k => slot'[c][t] = Empty(i)[c][t]
  <2>1. slot' = PutAt(Empty(i), p, k, NewEntry(i, n))
    BY DEF Creates
  <2> HIDE DEF k
  <2> QED
    BY <2>1, <1>1, <1>2, <1>4, <1>7, PutFields
<1> HIDE DEF k
<1>9. \A c \in Inodes \ {i}, t \in Slots : c # p \/ t # k => slot'[c][t] = slot[c][t]
  BY <1>4, <1>8
<1>10. \A c \in Inodes : /\ c # i => inode'[c].dir = inode[c].dir /\ inode'[c].prot = inode[c].prot
                         /\ c \notin {i, p} => inode'[c] = inode[c]
  BY <1>4, <1>6
<1>11. inode'[i].dir = FALSE
  BY <1>1, <1>4, <1>6
<1> QED
  BY <1>1, <1>2, <1>3, <1>6, <1>8, <1>9, <1>10, <1>11 DEF k, Created

\* The links are those there were and the new one.
LEMMA CreateLinks ==
  ASSUME IInv, NEW p, NEW i, NEW n, Creates(p, i, n)
  PROVE  /\ \A d \in Inodes : IsDir(ibit', inode', d) <=> IsDir(ibit, inode, d)
         /\ \A d \in Inodes, s \in Slots :
              Link(ibit', inode', slot', d, s) <=>
                (Link(ibit, inode, slot, d, s) \/ (d = p /\ s = inode[p].entries))
         /\ \A d \in Inodes, s \in Slots :
              Link(ibit, inode, slot, d, s) =>
                /\ slot'[d][s] = slot[d][s] /\ d # i
                /\ ~(d = p /\ s = inode[p].entries)
         /\ NewEntry(i, n).inode # 0
<1>0. Created(p, i, n)
  BY CreateFields
<1> DEFINE k == inode[p].entries
<1>1. /\ p \in Inodes /\ i \in Inodes /\ ibit[p] /\ inode[p].dir /\ ~ibit[i]
      /\ inode \in InodeTables /\ k \in Slots /\ k >= 2 /\ p # i
  BY <1>0 DEF Created, Creates, IInv, TypeOK, InodeTables
<1>2. \A d \in Inodes : IsDir(ibit', inode', d) <=> IsDir(ibit, inode, d)
  BY <1>1, <1>0 DEF Created, IsDir
<1>3. /\ \A d \in Inodes : inode[d].entries \in Nat
      /\ \A s \in Slots : s \in Nat
  BY <1>1, EntriesAssumption DEF InodeTables, Inode, Slots
<1>4. NewEntry(i, n).inode # 0
  BY <1>1 DEF NewEntry, Inodes
<1>5. ASSUME NEW d \in Inodes, NEW s \in Slots
      PROVE  /\ Link(ibit', inode', slot', d, s) <=>
                  (Link(ibit, inode, slot, d, s) \/ (d = p /\ s = k))
             /\ Link(ibit, inode, slot, d, s) =>
                  slot'[d][s] = slot[d][s] /\ d # i /\ ~(d = p /\ s = k)
  <2>1. CASE ~IsDir(ibit, inode, d)
    BY <2>1, <1>1, <1>2 DEF Link, IsDir
  <2>2. CASE IsDir(ibit, inode, d) /\ d # p
    <3>1. d # i /\ inode'[d] = inode[d] /\ slot'[d][s] = slot[d][s]
      BY <2>2, <1>1, <1>0 DEF Created, IsDir
    <3> QED
      BY <2>2, <3>1, <1>2 DEF Link
  <2>3. CASE d = p /\ s = k
    <3>1. slot'[d][s] = NewEntry(i, n) /\ inode'[d].entries = k + 1 /\ IsDir(ibit', inode', d)
      BY <2>3, <1>1, <1>2, <1>0 DEF Created, IsDir
    <3> QED
      BY <2>3, <3>1, <1>1, <1>3, <1>4 DEF Link
  <2>4. CASE d = p /\ s # k
    <3>1. /\ slot'[d][s] = slot[d][s] /\ inode'[d].entries = k + 1 /\ d # i
          /\ IsDir(ibit', inode', d) /\ IsDir(ibit, inode, d)
      BY <2>4, <1>1, <1>2, <1>0 DEF Created, IsDir
    <3> QED
      BY <2>4, <3>1, <1>1, <1>3 DEF Link
  <2> QED
    BY <2>1, <2>2, <2>3, <2>4
<1> QED
  BY <1>2, <1>4, <1>5

LEMMA CreateKeeps ==
  ASSUME IInv, NEW p, NEW i, NEW n, Creates(p, i, n)
  PROVE  Good(ibit', inode', slot')
<1>0. Created(p, i, n)
  BY CreateFields
<1> DEFINE k == inode[p].entries
           L(d, s) == Link(ibit, inode, slot, d, s)
           M(d, s) == Link(ibit', inode', slot', d, s)
<1>1. /\ p \in Inodes /\ i \in Inodes /\ ibit[p] /\ inode[p].dir /\ ~ibit[i] /\ n \in Names
      /\ k \in Slots /\ k >= 2 /\ p # i /\ i # ROOT /\ i \notin {2, 3}
  <2>1. ibit[ROOT] /\ \A j \in {2, 3} : ibit[j]
    BY DEF IInv, Good, Kept
  <2> QED
    BY <2>1, <1>0 DEF Created, Creates
<1>2. /\ \A d \in Inodes : IsDir(ibit', inode', d) <=> IsDir(ibit, inode, d)
      /\ \A d \in Inodes, s \in Slots : M(d, s) <=> (L(d, s) \/ (d = p /\ s = k))
      /\ \A d \in Inodes, s \in Slots : L(d, s) =>
           slot'[d][s] = slot[d][s] /\ d # i /\ ~(d = p /\ s = k)
  BY CreateLinks
<1>3. /\ slot'[p][k].inode = i /\ slot'[p][k].type = FILE /\ slot'[p][k].name = n
  <2>1. slot'[p][k] = NewEntry(i, n)
    BY <1>0 DEF Created
  <2> QED
    BY <2>1 DEF NewEntry
<1>4. ASSUME NEW d \in Inodes, NEW s \in Slots, L(d, s)
      PROVE  /\ slot[d][s].name \in Names
             /\ LeadsTo(ibit, inode, slot, d, slot[d][s].inode, slot[d][s].type)
             /\ slot[d][s].inode # i
  <2>1. slot[d][s].name \in Names /\ LeadsTo(ibit, inode, slot, d, slot[d][s].inode, slot[d][s].type)
    BY <1>4 DEF IInv, Good, LinksLead
  <2> QED
    BY <2>1, <1>1 DEF LeadsTo
<1>5. Shaped(ibit', inode', slot')
  <2> SUFFICES ASSUME NEW d \in Inodes, IsDir(ibit', inode', d)
               PROVE  /\ inode'[d].blk /\ inode'[d].entries >= 2
                      /\ slot'[d][0].name = "." /\ slot'[d][0].inode # 0
                      /\ slot'[d][1].name = ".." /\ slot'[d][1].inode # 0
                      /\ \A s \in Slots : s >= inode'[d].entries => slot'[d][s].inode = 0
    BY DEF Shaped
  <2>1. IsDir(ibit, inode, d) /\ d # i
    BY <1>1, <1>2 DEF IsDir
  <2>2. /\ inode[d].blk /\ inode[d].entries >= 2
        /\ slot[d][0].name = "." /\ slot[d][0].inode # 0
        /\ slot[d][1].name = ".." /\ slot[d][1].inode # 0
        /\ \A s \in Slots : s >= inode[d].entries => slot[d][s].inode = 0
    BY <2>1 DEF IInv, Good, Shaped
  <2>3. 0 \in Slots /\ 1 \in Slots /\ inode[d].entries \in Nat /\ \A s \in Slots : s \in Nat
    BY EntriesAssumption DEF IInv, TypeOK, Inode, Slots
  <2>4. slot'[d][0] = slot[d][0] /\ slot'[d][1] = slot[d][1]
    BY <2>1, <2>3, <1>1, <1>0 DEF Created
  <2>5. CASE d # p
    <3>1. inode'[d] = inode[d] /\ \A s \in Slots : slot'[d][s] = slot[d][s]
      BY <2>5, <2>1, <1>0 DEF Created
    <3> QED
      BY <3>1, <2>2, <2>4
  <2>6. CASE d = p
    <3>1. inode'[d].entries = k + 1 /\ inode'[d].blk
      BY <2>6, <1>0 DEF Created
    <3>2. \A s \in Slots : s # k => slot'[d][s] = slot[d][s]
      BY <2>1, <2>6, <1>0 DEF Created
    <3> QED
      BY <3>1, <3>2, <2>2, <2>3, <2>4, <2>6
  <2> QED
    BY <2>5, <2>6
<1> HIDE DEF k, L, M
<1>6. LinksLead(ibit', inode', slot')
  <2> SUFFICES ASSUME NEW d \in Inodes, NEW s \in Slots, M(d, s)
               PROVE  /\ slot'[d][s].name \in Names
                      /\ LeadsTo(ibit', inode', slot', d, slot'[d][s].inode, slot'[d][s].type)
    BY DEF LinksLead, M
  <2>1. CASE L(d, s)
    <3> DEFINE j == slot[d][s].inode
               t == slot[d][s].type
    <3>1. slot'[d][s] = slot[d][s] /\ slot[d][s].name \in Names
      BY <2>1, <1>2, <1>4
    <3>2. j \in Inodes \ {ROOT} /\ ibit[j] /\ inode[j].dir = (t = DIR) /\ j # i
          /\ (t = DIR => slot[j][1].inode = d)
      BY <2>1, <1>4 DEF LeadsTo
    <3>3. 1 \in Slots
      BY EntriesAssumption DEF Slots
    <3>4. ibit'[j] /\ inode'[j].dir = inode[j].dir /\ slot'[j][1] = slot[j][1]
      BY <3>2, <3>3, <1>1, <1>0 DEF Created, k
    <3>5. LeadsTo(ibit', inode', slot', d, j, t)
      <4> HIDE DEF j, t
      <4> QED
        BY <3>2, <3>4 DEF LeadsTo
    <3> QED
      BY <3>1, <3>5
  <2>2. CASE d = p /\ s = k
    <3>1. ibit'[i] /\ inode'[i].dir = FALSE /\ (FILE = DIR) = FALSE
      BY <1>1, <1>0 DEF Created, FILE, DIR
    <3>2. LeadsTo(ibit', inode', slot', d, i, FILE)
      BY <3>1, <1>1 DEF LeadsTo
    <3> QED
      BY <2>2, <3>2, <1>1, <1>3
  <2> QED
    BY <2>1, <2>2, <1>2
<1>7. NamesDiffer(ibit', inode', slot')
  <2> SUFFICES ASSUME NEW d \in Inodes, NEW s \in Slots, NEW t \in Slots, M(d, s), M(d, t),
                      slot'[d][s].name = slot'[d][t].name
               PROVE  s = t
    BY DEF NamesDiffer, M
  <2>1. ASSUME NEW r \in Slots, L(p, r)
        PROVE  slot[p][r].name # n
    BY <2>1, <1>1, Found DEF L, Creates
  <2>2. L(d, s) /\ L(d, t) /\ slot[d][s].name = slot[d][t].name => s = t
    BY DEF IInv, Good, NamesDiffer, L
  <2> QED
    BY <2>1, <2>2, <1>2, <1>3
<1>8. LinksDiffer(ibit', inode', slot')
  <2> SUFFICES ASSUME NEW c \in Inodes, NEW d \in Inodes, NEW s \in Slots, NEW t \in Slots,
                      M(c, s), M(d, t), slot'[c][s].inode = slot'[d][t].inode
               PROVE  c = d /\ s = t
    BY DEF LinksDiffer, M
  <2>2. L(c, s) /\ L(d, t) /\ slot[c][s].inode = slot[d][t].inode => c = d /\ s = t
    BY DEF IInv, Good, LinksDiffer, L
  <2> QED
    BY <2>2, <1>2, <1>3, <1>4
<1>9. AllLinked(ibit', inode', slot')
  <2> SUFFICES ASSUME NEW j \in Inodes \ {ROOT}, ibit'[j]
               PROVE  \E d \in Inodes, s \in Slots : M(d, s) /\ slot'[d][s].inode = j
    BY DEF AllLinked, M
  <2>1. CASE j = i
    BY <2>1, <1>1, <1>2, <1>3
  <2>2. CASE j # i
    <3>1. ibit[j]
      BY <2>2, <1>0 DEF Created
    <3>2. PICK d \in Inodes, s \in Slots : L(d, s) /\ slot[d][s].inode = j
      BY <3>1 DEF IInv, Good, AllLinked, L
    <3> QED
      BY <3>2, <1>2
  <2> QED
    BY <2>1, <2>2
<1>10. Kept(ibit', inode')
  <2>1. ROOT \in Inodes /\ 2 \in Inodes /\ 3 \in Inodes
    BY CountAssumption DEF ROOT, Inodes
  <2>2. ibit[ROOT] /\ inode[ROOT].dir /\ ibit[2] /\ inode[2].prot /\ ibit[3] /\ inode[3].prot
    BY DEF IInv, Good, Kept
  <2> QED
    BY <2>1, <2>2, <1>1, <1>0 DEF Created, Kept
<1> QED
  BY <1>5, <1>6, <1>7, <1>8, <1>9, <1>10 DEF Good

\* A create that finds no room for the entry has cleared a free inode.
LEMMA ClearKeeps ==
  ASSUME IInv, NEW i \in Inodes, ~ibit[i],
         ibit' = ibit, inode' = Blank(i), slot' = Empty(i)
  PROVE  /\ Good(ibit', inode', slot') /\ inode' \in InodeTables /\ slot' \in Directories
         /\ \A d \in Inodes, s \in Slots :
              /\ Link(ibit', inode', slot', d, s) <=> Link(ibit, inode, slot, d, s)
              /\ Link(ibit, inode, slot, d, s) => slot'[d][s] = slot[d][s]
<1> DEFINE L(d, s) == Link(ibit, inode, slot, d, s)
           M(d, s) == Link(ibit', inode', slot', d, s)
<1>1. /\ inode' \in InodeTables /\ slot' \in Directories
      /\ \A c \in Inodes \ {i} : inode'[c] = inode[c] /\ slot'[c] = slot[c]
  BY ClearFields
<1>2. \A d \in Inodes : IsDir(ibit', inode', d) <=> IsDir(ibit, inode, d)
  BY <1>1 DEF IsDir
<1>3. \A d \in Inodes : IsDir(ibit, inode, d) => inode'[d] = inode[d] /\ slot'[d] = slot[d]
  BY <1>1 DEF IsDir
<1>4. \A d \in Inodes, s \in Slots : M(d, s) <=> L(d, s)
  BY <1>2, <1>3 DEF Link
<1>5. \A d \in Inodes, s \in Slots : L(d, s) => slot'[d] = slot[d]
  BY <1>3 DEF Link
<1>6. Shaped(ibit', inode', slot')
  BY <1>2, <1>3 DEF IInv, Good, Shaped
<1> HIDE DEF L, M
<1>7. LinksLead(ibit', inode', slot')
  <2> SUFFICES ASSUME NEW d \in Inodes, NEW s \in Slots, M(d, s)
               PROVE  /\ slot'[d][s].name \in Names
                      /\ LeadsTo(ibit', inode', slot', d, slot'[d][s].inode, slot'[d][s].type)
    BY DEF LinksLead, M
  <2> DEFINE j == slot[d][s].inode
             t == slot[d][s].type
  <2>1. L(d, s) /\ slot'[d][s] = slot[d][s]
    BY <1>4, <1>5
  <2>2. slot[d][s].name \in Names /\ LeadsTo(ibit, inode, slot, d, j, t)
    BY <2>1 DEF IInv, Good, LinksLead, L
  <2> HIDE DEF j, t
  <2>3. j \in Inodes \ {i} /\ LeadsTo(ibit', inode', slot', d, j, t)
    BY <2>2, <1>1 DEF LeadsTo
  <2> QED
    BY <2>1, <2>2, <2>3 DEF j, t
<1>8. NamesDiffer(ibit', inode', slot')
  BY <1>4, <1>5 DEF IInv, Good, NamesDiffer, L, M
<1>9. LinksDiffer(ibit', inode', slot')
  BY <1>4, <1>5 DEF IInv, Good, LinksDiffer, L, M
<1>10. AllLinked(ibit', inode', slot')
  <2> SUFFICES ASSUME NEW j \in Inodes \ {ROOT}, ibit'[j]
               PROVE  \E d \in Inodes, s \in Slots : M(d, s) /\ slot'[d][s].inode = j
    BY DEF AllLinked, M
  <2>1. PICK d \in Inodes, s \in Slots : L(d, s) /\ slot[d][s].inode = j
    BY DEF IInv, Good, AllLinked, L
  <2> QED
    BY <2>1, <1>4, <1>5
<1>11. Kept(ibit', inode')
  <2>1. ROOT \in Inodes /\ 2 \in Inodes /\ 3 \in Inodes
    BY CountAssumption DEF ROOT, Inodes
  <2>2. ibit[ROOT] /\ inode[ROOT].dir /\ ibit[2] /\ inode[2].prot /\ ibit[3] /\ inode[3].prot
    BY DEF IInv, Good, Kept
  <2> QED
    BY <2>1, <2>2, <1>1 DEF Kept
<1> QED
  BY <1>1, <1>4, <1>5, <1>6, <1>7, <1>8, <1>9, <1>10, <1>11 DEF Good, L, M

-----------------------------------------------------------------------------
(***************************************************************************)
(* ipo_fs_delete().  A directory that may go has no links, so it is not    *)
(* the one it is listed in.                                                *)
(***************************************************************************)
\* What a successful delete writes: slot s of directory p, and inode i.
Deletes(p, s, i) ==
  /\ p \in Inodes /\ s \in Slots /\ Link(ibit, inode, slot, p, s) /\ slot[p][s].inode = i
  /\ i \in Inodes /\ ~inode[i].prot /\ (slot[p][s].type = DIR => inode[i].entries <= 2)
  /\ ibit' = [ibit EXCEPT ![i] = FALSE]
  /\ inode' = [inode EXCEPT ![i].blk = @ /\ inode[i].entries = 0]
  /\ slot' = [PutAt(slot, p, s, Tombstone(slot[p][s])) EXCEPT ![i] = NoSlots]

\* The same, entry by entry.
Deleted(p, s, i) ==
  /\ p # i /\ i # ROOT /\ i \notin {2, 3} /\ \A t \in Slots : ~Link(ibit, inode, slot, i, t)
  /\ ibit' \in Bitmaps /\ inode' \in InodeTables /\ slot' \in Directories
  /\ \A c \in Inodes : /\ ibit'[c] <=> (ibit[c] /\ c # i)
                       /\ c # i => inode'[c] = inode[c]
  /\ slot'[p][s].inode = 0
  /\ \A c \in Inodes \ {i}, t \in Slots : c # p \/ t # s => slot'[c][t] = slot[c][t]

LEMMA DeleteFields ==
  ASSUME IInv, NEW p, NEW s, NEW i, Deletes(p, s, i)
  PROVE  Deleted(p, s, i)
<1>1. /\ p \in Inodes /\ s \in Slots /\ i \in Inodes /\ slot[p][s] \in Entry
      /\ ibit \in [Inodes -> BOOLEAN] /\ inode \in InodeTables /\ slot \in Directories
  BY DEF Deletes, IInv, TypeOK, InodeTables, Directories
<1>2. LeadsTo(ibit, inode, slot, p, i, slot[p][s].type)
  BY DEF Deletes, IInv, Good, LinksLead
<1>3. i # ROOT /\ i \notin {2, 3}
  <2>1. i # ROOT
    BY <1>2 DEF LeadsTo
  <2>2. inode[2].prot /\ inode[3].prot
    BY DEF IInv, Good, Kept
  <2> QED
    BY <2>1, <2>2 DEF Deletes
<1>4. \A t \in Slots : ~Link(ibit, inode, slot, i, t)
  <2> SUFFICES ASSUME NEW t \in Slots, Link(ibit, inode, slot, i, t) PROVE FALSE
    OBVIOUS
  <2>1. inode[i].dir /\ 2 <= t /\ t < inode[i].entries /\ t \in Nat
    BY EntriesAssumption DEF Link, IsDir, Slots
  <2>2. inode[i].entries <= 2
    BY <2>1, <1>2 DEF LeadsTo, Deletes
  <2>3. inode[i].entries \in Nat
    BY <1>1, EntriesAssumption DEF InodeTables, Inode
  <2> QED
    BY <2>1, <2>2, <2>3
<1>5. p # i
  BY <1>4 DEF Deletes
<1>6. ibit' \in Bitmaps /\ \A c \in Inodes : ibit'[c] <=> (ibit[c] /\ c # i)
  BY <1>1 DEF Deletes, Bitmaps
<1>7. inode' \in InodeTables /\ \A c \in Inodes \ {i} : inode'[c] = inode[c]
  <2>1. PICK v \in BOOLEAN : v = (inode[i].blk /\ inode[i].entries = 0)
    OBVIOUS
  <2>2. inode' = [inode EXCEPT ![i].blk = v]
    BY <2>1, <1>1 DEF Deletes, InodeTables, Inode
  <2>3. [inode[i] EXCEPT !.blk = v] \in Inode
    BY <1>1 DEF InodeTables, Inode
  <2> QED
    BY <2>2, <2>3, <1>1 DEF InodeTables
<1> DEFINE Q == PutAt(slot, p, s, Tombstone(slot[p][s]))
<1>8. /\ Q \in Directories /\ Q[p][s].inode = 0
      /\ \A c \in Inodes, t \in Slots : c # p \/ t # s => Q[c][t] = slot[c][t]
  BY <1>1, PutFields, TombstoneFields
<1>9. NoSlots \in [Slots -> Entry]
  <2>1. NoEntry \in Entry
    BY CountAssumption DEF NoEntry, Entry
  <2> QED
    BY <2>1 DEF NoSlots
<1>10. slot' = [Q EXCEPT ![i] = NoSlots]
  BY DEF Deletes
<1> HIDE DEF Q
<1>11. slot' \in Directories /\ \A c \in Inodes \ {i} : slot'[c] = Q[c]
  BY <1>8, <1>9, <1>10 DEF Directories
<1> QED
  BY <1>1, <1>3, <1>4, <1>5, <1>6, <1>7, <1>8, <1>11 DEF Deleted

\* The links are those there were, without the removed one.
LEMMA DeleteLinks ==
  ASSUME IInv, NEW p, NEW s, NEW i, Deletes(p, s, i)
  PROVE  /\ \A d \in Inodes : IsDir(ibit', inode', d) <=> IsDir(ibit, inode, d) /\ d # i
         /\ \A d \in Inodes, t \in Slots :
              Link(ibit', inode', slot', d, t) <=>
                (Link(ibit, inode, slot, d, t) /\ ~(d = p /\ t = s))
         /\ \A d \in Inodes, t \in Slots :
              Link(ibit', inode', slot', d, t) => slot'[d][t] = slot[d][t] /\ slot[d][t].inode # i
<1>0. Deleted(p, s, i)
  BY DeleteFields
<1>1. \A d \in Inodes : IsDir(ibit', inode', d) <=> IsDir(ibit, inode, d) /\ d # i
  BY <1>0 DEF Deleted, IsDir
<1>2. ASSUME NEW d \in Inodes, NEW t \in Slots
      PROVE  /\ Link(ibit', inode', slot', d, t) <=>
                  (Link(ibit, inode, slot, d, t) /\ ~(d = p /\ t = s))
             /\ Link(ibit', inode', slot', d, t) =>
                  slot'[d][t] = slot[d][t] /\ slot[d][t].inode # i
  <2>1. CASE d = i
    BY <2>1, <1>0, <1>1 DEF Link, Deleted
  <2>2. CASE d = p /\ t = s
    BY <2>2, <1>0 DEF Link, Deleted
  <2>3. CASE d # i /\ (d # p \/ t # s)
    <3>1. slot'[d][t] = slot[d][t] /\ inode'[d] = inode[d]
      BY <2>3, <1>0 DEF Deleted
    <3>2. Link(ibit', inode', slot', d, t) <=> Link(ibit, inode, slot, d, t)
      BY <3>1, <2>3, <1>1 DEF Link
    <3>3. Link(ibit, inode, slot, d, t) => slot[d][t].inode # i
      BY <2>3 DEF Deletes, IInv, Good, LinksDiffer
    <3> QED
      BY <2>3, <3>1, <3>2, <3>3
  <2> QED
    BY <2>1, <2>2, <2>3
<1> QED
  BY <1>1, <1>2

LEMMA DeleteKeeps ==
  ASSUME IInv, NEW p, NEW s, NEW i, Deletes(p, s, i)
  PROVE  Good(ibit', inode', slot')
<1>0. Deleted(p, s, i) /\ p \in Inodes /\ s \in Slots /\ i \in Inodes /\ 2 <= s
  BY DeleteFields DEF Deletes, Link
<1> DEFINE L(d, t) == Link(ibit, inode, slot, d, t)
           M(d, t) == Link(ibit', inode', slot', d, t)
<1>1. /\ \A d \in Inodes : IsDir(ibit', inode', d) <=> IsDir(ibit, inode, d) /\ d # i
      /\ \A d \in Inodes, t \in Slots : M(d, t) <=> (L(d, t) /\ ~(d = p /\ t = s))
      /\ \A d \in Inodes, t \in Slots :
           M(d, t) => slot'[d][t] = slot[d][t] /\ slot[d][t].inode # i
  BY DeleteLinks
<1>2. 0 \in Slots /\ 1 \in Slots /\ 0 # s /\ 1 # s
  BY <1>0, EntriesAssumption DEF Slots
<1>3. Shaped(ibit', inode', slot')
  <2> SUFFICES ASSUME NEW d \in Inodes, IsDir(ibit', inode', d)
               PROVE  /\ inode'[d].blk /\ inode'[d].entries >= 2
                      /\ slot'[d][0].name = "." /\ slot'[d][0].inode # 0
                      /\ slot'[d][1].name = ".." /\ slot'[d][1].inode # 0
                      /\ \A t \in Slots : t >= inode'[d].entries => slot'[d][t].inode = 0
    BY DEF Shaped
  <2>1. IsDir(ibit, inode, d) /\ d # i
    BY <1>1
  <2>2. /\ inode[d].blk /\ inode[d].entries >= 2
        /\ slot[d][0].name = "." /\ slot[d][0].inode # 0
        /\ slot[d][1].name = ".." /\ slot[d][1].inode # 0
        /\ \A t \in Slots : t >= inode[d].entries => slot[d][t].inode = 0
    BY <2>1 DEF IInv, Good, Shaped
  <2>3. inode'[d] = inode[d] /\ slot'[d][0] = slot[d][0] /\ slot'[d][1] = slot[d][1]
    BY <2>1, <1>0, <1>2 DEF Deleted
  <2>4. \A t \in Slots : slot'[d][t] = slot[d][t] \/ slot'[d][t].inode = 0
    BY <2>1, <1>0 DEF Deleted
  <2> QED
    BY <2>2, <2>3, <2>4
<1> HIDE DEF L, M
<1>4. LinksLead(ibit', inode', slot')
  <2> SUFFICES ASSUME NEW d \in Inodes, NEW r \in Slots, M(d, r)
               PROVE  /\ slot'[d][r].name \in Names
                      /\ LeadsTo(ibit', inode', slot', d, slot'[d][r].inode, slot'[d][r].type)
    BY DEF LinksLead, M
  <2> DEFINE j == slot[d][r].inode
             t == slot[d][r].type
  <2>1. L(d, r) /\ slot'[d][r] = slot[d][r] /\ j # i
    BY <1>1
  <2>2. slot[d][r].name \in Names /\ LeadsTo(ibit, inode, slot, d, j, t)
    BY <2>1 DEF IInv, Good, LinksLead, L
  <2> HIDE DEF j, t
  <2>3. j \in Inodes /\ ibit'[j] /\ inode'[j] = inode[j] /\ slot'[j][1] = slot[j][1]
    BY <2>1, <2>2, <1>0, <1>2 DEF Deleted, LeadsTo
  <2>4. LeadsTo(ibit', inode', slot', d, j, t)
    BY <2>2, <2>3 DEF LeadsTo
  <2> QED
    BY <2>1, <2>2, <2>4 DEF j, t
<1>5. NamesDiffer(ibit', inode', slot')
  BY <1>1 DEF IInv, Good, NamesDiffer, L, M
<1>6. LinksDiffer(ibit', inode', slot')
  BY <1>1 DEF IInv, Good, LinksDiffer, L, M
<1>7. AllLinked(ibit', inode', slot')
  <2> SUFFICES ASSUME NEW j \in Inodes \ {ROOT}, ibit'[j]
               PROVE  \E d \in Inodes, t \in Slots : M(d, t) /\ slot'[d][t].inode = j
    BY DEF AllLinked, M
  <2>1. ibit[j] /\ j # i
    BY <1>0 DEF Deleted
  <2>2. PICK d \in Inodes, t \in Slots : L(d, t) /\ slot[d][t].inode = j
    BY <2>1 DEF IInv, Good, AllLinked, L
  <2>3. ~(d = p /\ t = s)
    BY <2>1, <2>2 DEF Deletes
  <2> QED
    BY <2>2, <2>3, <1>1
<1>8. Kept(ibit', inode')
  <2>1. ROOT \in Inodes /\ 2 \in Inodes /\ 3 \in Inodes
    BY CountAssumption DEF ROOT, Inodes
  <2>2. ibit[ROOT] /\ inode[ROOT].dir /\ ibit[2] /\ inode[2].prot /\ ibit[3] /\ inode[3].prot
    BY DEF IInv, Good, Kept
  <2> QED
    BY <2>1, <2>2, <1>0 DEF Kept, Deleted
<1> QED
  BY <1>3, <1>4, <1>5, <1>6, <1>7, <1>8 DEF Good

-----------------------------------------------------------------------------
(***************************************************************************)
(* ipo_fs_rename().  The new directory may be the old one, or the renamed  *)
(* directory itself: the links stay in order even so.                      *)
(***************************************************************************)
Retitled(e, m) == [e EXCEPT !.name = m]
LEMMA RetitledFields ==
  ASSUME NEW e \in Entry, NEW m \in Names
  PROVE  /\ Retitled(e, m) \in Entry
         /\ Retitled(e, m).inode = e.inode /\ Retitled(e, m).type = e.type
         /\ Retitled(e, m).name = m
BY DEF Retitled, Entry

Pointed(e, q) == [e EXCEPT !.inode = q]
LEMMA PointedFields ==
  ASSUME NEW e \in Entry, NEW q \in Inodes
  PROVE  /\ Pointed(e, q) \in Entry /\ Pointed(e, q).inode = q
         /\ Pointed(e, q).name = e.name /\ Pointed(e, q).type = e.type
<1>1. q \in 0 .. INODE_COUNT
  BY CountAssumption DEF Inodes
<1> QED
  BY <1>1 DEF Pointed, Entry

\* What a successful rename writes: entry s of directory p becomes m in q.
Renames(p, s, q, m) ==
  /\ p \in Inodes /\ s \in Slots /\ Link(ibit, inode, slot, p, s)
  /\ ~inode[slot[p][s].inode].prot
  /\ q \in Inodes /\ ibit[q] /\ inode[q].dir /\ inode[q].entries < MAX_ENTRIES
  /\ m \in Names /\ Find(q, m) = {}
  /\ ibit' = ibit
  /\ inode' = Grown(inode, q)
  /\ slot' = dir_remove_entry(
               Reparented(PutAt(slot, q, inode[q].entries, Retitled(slot[p][s], m)),
                          slot[p][s].inode, slot[p][s].type, q),
               p, slot[p][s].name)

\* The same, entry by entry.
Renamed(p, s, q, m) ==
  /\ inode[q].entries \in Slots /\ inode[q].entries >= 2
  /\ ~(p = q /\ s = inode[q].entries)
  /\ inode' \in InodeTables /\ slot' \in Directories
  /\ \A c \in Inodes : /\ inode'[c].dir = inode[c].dir /\ inode'[c].prot = inode[c].prot
                       /\ c # q => inode'[c] = inode[c]
  /\ inode'[q].entries = inode[q].entries + 1 /\ inode'[q].blk
  /\ slot'[p][s].inode = 0
  /\ slot'[q][inode[q].entries].inode = slot[p][s].inode
  /\ slot'[q][inode[q].entries].type = slot[p][s].type
  /\ slot'[q][inode[q].entries].name = m
  /\ slot[p][s].type = DIR =>
       /\ slot'[slot[p][s].inode][1].inode = q
       /\ slot'[slot[p][s].inode][1].name = slot[slot[p][s].inode][1].name
  /\ \A c \in Inodes, t \in Slots :
       /\ c # p \/ t # s
       /\ c # q \/ t # inode[q].entries
       /\ slot[p][s].type # DIR \/ c # slot[p][s].inode \/ t # 1
       => slot'[c][t] = slot[c][t]

LEMMA RenameFields ==
  ASSUME IInv, NEW p, NEW s, NEW q, NEW m, Renames(p, s, q, m)
  PROVE  Renamed(p, s, q, m)
<1> DEFINE i == slot[p][s].inode
           y == slot[p][s].type
           n == slot[p][s].name
           k == inode[q].entries
           A == PutAt(slot, q, k, Retitled(slot[p][s], m))
           B == Reparented(A, i, y, q)
<1>1. /\ p \in Inodes /\ s \in Slots /\ q \in Inodes /\ m \in Names
      /\ Link(ibit, inode, slot, p, s) /\ IsDir(ibit, inode, q)
      /\ ibit \in [Inodes -> BOOLEAN] /\ inode \in InodeTables /\ slot \in Directories
      /\ slot[p][s] \in Entry
  BY DEF Renames, IsDir, IInv, TypeOK, InodeTables, Directories
<1>2. n \in Names /\ LeadsTo(ibit, inode, slot, p, i, y)
  BY <1>1 DEF IInv, Good, LinksLead
<1>3. k >= 2 /\ k \in Slots /\ k < MAX_ENTRIES
  <2>1. k >= 2
    BY <1>1 DEF IInv, Good, Shaped
  <2>2. k \in 0 .. MAX_ENTRIES /\ MAX_ENTRIES \in Nat /\ k < MAX_ENTRIES
    BY <1>1, EntriesAssumption DEF InodeTables, Inode, Renames
  <2> QED
    BY <2>1, <2>2 DEF Slots
<1>4. 0 \in Slots /\ 1 \in Slots /\ \A t \in Slots : t \in Nat
  BY EntriesAssumption DEF Slots
<1>5. s >= 2 /\ ~(p = q /\ s = k) /\ i \in Inodes
  <2>1. 2 <= s /\ s < inode[p].entries /\ i \in Inodes
    BY <1>1, <1>2 DEF Link, LeadsTo
  <2>2. inode[p].entries \in Nat /\ s \in Nat
    BY <1>1, <1>4, EntriesAssumption DEF InodeTables, Inode
  <2> QED
    BY <2>1, <2>2
<1>6. /\ inode' \in InodeTables
      /\ \A c \in Inodes : /\ inode'[c].dir = inode[c].dir /\ inode'[c].prot = inode[c].prot
                           /\ c # q => inode'[c] = inode[c]
      /\ inode'[q].entries = k + 1 /\ inode'[q].blk
  <2>1. inode' = Grown(inode, q)
    BY DEF Renames
  <2> QED
    BY <2>1, <1>1, <1>3, GrownFields
<1>7. /\ A \in Directories /\ A[q][k].inode = i /\ A[q][k].type = y /\ A[q][k].name = m
      /\ \A c \in Inodes, t \in Slots : c # q \/ t # k => A[c][t] = slot[c][t]
  <2>1. /\ Retitled(slot[p][s], m) \in Entry
        /\ Retitled(slot[p][s], m).inode = i /\ Retitled(slot[p][s], m).type = y
        /\ Retitled(slot[p][s], m).name = m
    BY <1>1, RetitledFields
  <2>2. A \in Directories /\ A[q][k] = Retitled(slot[p][s], m)
    BY <1>1, <1>3, <2>1, PutFields
  <2>3. \A c \in Inodes, t \in Slots : c # q \/ t # k => A[c][t] = slot[c][t]
    <3> DEFINE e == Retitled(slot[p][s], m)
    <3>1. e \in Entry /\ slot \in Directories /\ q \in Inodes /\ k \in Slots
      BY <1>1, <1>3, <2>1
    <3> HIDE DEF e, k
    <3>2. Differs(PutAt(slot, q, k, e), slot, q, k, e)
      BY <3>1, PutDiffers
    <3> QED
      BY <3>2 DEF e, Differs
  <2> HIDE DEF A, i, y
  <2> QED
    BY <2>1, <2>2, <2>3
<1> HIDE DEF A
<1>8. /\ B \in Directories
      /\ y = DIR => B[i][1].inode = q /\ B[i][1].name = A[i][1].name
      /\ \A c \in Inodes, t \in Slots : y # DIR \/ c # i \/ t # 1 => B[c][t] = A[c][t]
  <2>1. CASE y # DIR
    <3>1. B = A
      BY <2>1 DEF Reparented
    <3> HIDE DEF B, i, y
    <3> QED
      BY <3>1, <2>1, <1>7
  <2>2. CASE y = DIR
    <3>1. inode[i].blk
      BY <2>2, <1>2 DEF LeadsTo, IInv, Good, Shaped, IsDir
    <3>2. B = [A EXCEPT ![i][1].inode = q]
      BY <2>2, <3>1 DEF Reparented
    <3>3. B = PutAt(A, i, 1, Pointed(A[i][1], q))
      <4> HIDE DEF B, i, y
      <4> QED
        BY <3>2, <1>4, <1>5, <1>7 DEF PutAt, Pointed, Directories
    <3>4. A[i][1] \in Entry
      BY <1>4, <1>5, <1>7 DEF Directories
    <3>5. /\ Pointed(A[i][1], q) \in Entry /\ Pointed(A[i][1], q).inode = q
          /\ Pointed(A[i][1], q).name = A[i][1].name
      <4> HIDE DEF i
      <4> QED
        BY <3>4, <1>1, PointedFields
    <3>6. B \in Directories /\ B[i][1] = Pointed(A[i][1], q)
      <4> HIDE DEF B, i, y
      <4> QED
        BY <3>3, <3>5, <1>4, <1>5, <1>7, PutFields
    <3>7. \A c \in Inodes, t \in Slots : c # i \/ t # 1 => B[c][t] = A[c][t]
      <4> HIDE DEF B, i, y
      <4> QED
        BY <3>3, <3>5, <1>4, <1>5, <1>7, PutFields
    <3> HIDE DEF B, i, y
    <3> QED
      BY <2>2, <3>5, <3>6, <3>7
  <2> QED
    BY <2>1, <2>2
<1>9. slot' = dir_remove_entry(B, p, n)
  BY DEF Renames, A
<1> HIDE DEF B
<1>10. B[p][s] = slot[p][s]
  <2> HIDE DEF i, y, n, k
  <2> QED
    BY <1>1, <1>3, <1>4, <1>5, <1>7, <1>8
<1>11. B[p][s].inode # 0 /\ B[p][s].name = n
  BY <1>1, <1>10 DEF Link
<1>12. \A t \in Slots : B[p][t].inode # 0 /\ B[p][t].name = n => t = s
  <2> SUFFICES ASSUME NEW t \in Slots, B[p][t].inode # 0, B[p][t].name = n
               PROVE  t = s
    OBVIOUS
  <2>1. n \notin {".", ".."}
    BY <1>2, NamesAssumption
  <2>2. /\ slot[p][0].name = "." /\ slot[p][1].name = ".."
        /\ \A r \in Slots : r >= inode[p].entries => slot[p][r].inode = 0
    BY <1>1 DEF Link, IInv, Good, Shaped
  <2>3. CASE p = q /\ t = k
    <3>1. n # m
      <4>1. \A r : r \in Find(q, m) <=> Link(ibit, inode, slot, q, r) /\ slot[q][r].name = m
        BY <1>1, Found DEF IsDir
      <4> QED
        BY <4>1, <2>3, <1>1 DEF Renames
    <3>2. B[p][t] = A[q][k]
      <4> HIDE DEF i, y, n, k
      <4> QED
        BY <2>3, <1>1, <1>3, <1>8
    <3> HIDE DEF n
    <3> QED
      BY <3>1, <3>2, <1>7
  <2>4. CASE y = DIR /\ p = i /\ t = 1
    <3>1. B[p][t].name = A[p][1].name /\ A[p][1] = slot[p][1]
      <4> HIDE DEF i, y, n, k
      <4> QED
        BY <2>4, <1>1, <1>3, <1>4, <1>7, <1>8
    <3> QED
      BY <3>1, <2>1, <2>2
  <2>5. CASE ~(p = q /\ t = k) /\ ~(y = DIR /\ p = i /\ t = 1)
    <3>1. B[p][t] = slot[p][t]
      <4> HIDE DEF i, y, n, k
      <4> QED
        BY <2>5, <1>1, <1>7, <1>8
    <3>2. t \notin {0, 1} /\ t < inode[p].entries /\ t \in Nat
      <4>1. inode[p].entries \in Nat /\ t \in Nat
        BY <1>1, <1>4, EntriesAssumption DEF InodeTables, Inode
      <4> QED
        BY <4>1, <3>1, <2>1, <2>2
    <3>3. Link(ibit, inode, slot, p, t)
      BY <3>1, <3>2, <1>1 DEF Link
    <3> QED
      BY <3>1, <3>3, <1>1 DEF IInv, Good, NamesDiffer
  <2> QED
    BY <2>3, <2>4, <2>5
<1> DEFINE T == Tombstone(B[p][s])
<1>13. slot' = PutAt(B, p, s, T)
  <2> HIDE DEF n
  <2> QED
    BY <1>1, <1>8, <1>9, <1>11, <1>12, RemovedAt
<1>14. T \in Entry /\ T.inode = 0
  BY <1>1, <1>10, TombstoneFields
<1> HIDE DEF T
<1>15. /\ slot' \in Directories /\ slot'[p][s].inode = 0
       /\ \A c \in Inodes, t \in Slots : c # p \/ t # s => slot'[c][t] = B[c][t]
  <2>1. Differs(PutAt(B, p, s, T), B, p, s, T)
    BY <1>1, <1>8, <1>14, PutDiffers
  <2>2. Differs(slot', B, p, s, T)
    BY <2>1, <1>13, Zenon
  <2> QED
    BY <2>2, <1>14 DEF Differs
<1>16. slot'[q][k].inode = i /\ slot'[q][k].type = y /\ slot'[q][k].name = m
  <2> HIDE DEF i, y, n, k
  <2>1. slot'[q][k] = A[q][k]
    BY <1>1, <1>3, <1>4, <1>5, <1>8, <1>15
  <2> QED
    BY <2>1, <1>7
<1>17. y = DIR => slot'[i][1].inode = q /\ slot'[i][1].name = slot[i][1].name
  <2> HIDE DEF i, y, n, k
  <2> QED
    BY <1>1, <1>3, <1>4, <1>5, <1>7, <1>8, <1>15
<1>18. \A c \in Inodes, t \in Slots :
         (c # p \/ t # s) /\ (c # q \/ t # k) /\ (y # DIR \/ c # i \/ t # 1) =>
            slot'[c][t] = slot[c][t]
  <2> HIDE DEF i, y, n, k
  <2> QED
    BY <1>7, <1>8, <1>15
<1> QED
  BY <1>3, <1>5, <1>6, <1>15, <1>16, <1>17, <1>18 DEF Renamed

\* The links are those there were, with the new one for the old.
LEMMA RenameLinks ==
  ASSUME IInv, NEW p, NEW s, NEW q, NEW m, Renames(p, s, q, m)
  PROVE  /\ \A d \in Inodes : IsDir(ibit', inode', d) <=> IsDir(ibit, inode, d)
         /\ \A d \in Inodes, t \in Slots :
              Link(ibit', inode', slot', d, t) <=>
                \/ Link(ibit, inode, slot, d, t) /\ ~(d = p /\ t = s)
                \/ d = q /\ t = inode[q].entries
         /\ \A d \in Inodes, t \in Slots :
              Link(ibit, inode, slot, d, t) /\ ~(d = p /\ t = s) =>
                slot'[d][t] = slot[d][t] /\ ~(d = q /\ t = inode[q].entries)
<1> DEFINE i == slot[p][s].inode
           k == inode[q].entries
<1>0. Renamed(p, s, q, m)
  BY RenameFields
<1>1. /\ p \in Inodes /\ s \in Slots /\ q \in Inodes /\ k \in Slots /\ k >= 2 /\ ibit' = ibit
      /\ Link(ibit, inode, slot, p, s) /\ IsDir(ibit, inode, q) /\ ~(p = q /\ s = k)
  BY <1>0 DEF Renames, Renamed, IsDir
<1>2. \A d \in Inodes : IsDir(ibit', inode', d) <=> IsDir(ibit, inode, d)
  BY <1>0, <1>1 DEF Renamed, IsDir
<1>3. /\ \A d \in Inodes : inode[d].entries \in Nat
      /\ \A t \in Slots : t \in Nat
  BY EntriesAssumption DEF IInv, TypeOK, Inode, Slots
<1>4. ASSUME NEW d \in Inodes, NEW t \in Slots
      PROVE  /\ Link(ibit', inode', slot', d, t) <=>
                  \/ Link(ibit, inode, slot, d, t) /\ ~(d = p /\ t = s)
                  \/ d = q /\ t = k
             /\ Link(ibit, inode, slot, d, t) /\ ~(d = p /\ t = s) =>
                  slot'[d][t] = slot[d][t] /\ ~(d = q /\ t = k)
  <2>1. CASE d = p /\ t = s
    BY <2>1, <1>0, <1>1 DEF Link, Renamed
  <2>2. CASE d = q /\ t = k
    <3>1. slot'[d][t].inode = i /\ i # 0 /\ inode'[d].entries = k + 1 /\ IsDir(ibit', inode', d)
      BY <2>2, <1>0, <1>1, <1>2 DEF Link, Renamed
    <3> QED
      BY <2>2, <3>1, <1>1, <1>3 DEF Link
  <2>3. CASE ~(d = p /\ t = s) /\ ~(d = q /\ t = k) /\ t < 2
    BY <2>3, <1>3 DEF Link
  <2>4. CASE ~(d = p /\ t = s) /\ ~(d = q /\ t = k) /\ t >= 2
    <3>1. slot'[d][t] = slot[d][t]
      BY <2>4, <1>0 DEF Renamed
    <3>2. CASE d = q
      <4>1. inode'[d].entries = k + 1
        BY <3>2, <1>0 DEF Renamed
      <4> QED
        BY <2>4, <3>1, <3>2, <4>1, <1>2, <1>3 DEF Link
    <3>3. CASE d # q
      <4>1. inode'[d] = inode[d]
        BY <3>3, <1>0 DEF Renamed
      <4> QED
        BY <2>4, <3>1, <3>3, <4>1, <1>2 DEF Link
    <3> QED
      BY <3>2, <3>3
  <2> QED
    BY <2>1, <2>2, <2>3, <2>4, <1>3
<1> QED
  BY <1>2, <1>4

LEMMA RenameKeeps ==
  ASSUME IInv, NEW p, NEW s, NEW q, NEW m, Renames(p, s, q, m)
  PROVE  Good(ibit', inode', slot')
<1> DEFINE i == slot[p][s].inode
           y == slot[p][s].type
           k == inode[q].entries
           L(d, t) == Link(ibit, inode, slot, d, t)
           M(d, t) == Link(ibit', inode', slot', d, t)
<1>0. Renamed(p, s, q, m)
  BY RenameFields
<1>1. /\ p \in Inodes /\ s \in Slots /\ q \in Inodes /\ k \in Slots /\ ibit' = ibit /\ m \in Names
      /\ L(p, s) /\ IsDir(ibit, inode, q) /\ ~(p = q /\ s = k)
      /\ slot'[q][k].inode = i /\ slot'[q][k].type = y /\ slot'[q][k].name = m
      /\ inode'[q].entries = k + 1 /\ inode'[q].blk /\ k >= 2
  BY <1>0 DEF Renames, Renamed, IsDir
<1>2. /\ \A d \in Inodes : IsDir(ibit', inode', d) <=> IsDir(ibit, inode, d)
      /\ \A d \in Inodes, t \in Slots :
           M(d, t) <=> (L(d, t) /\ ~(d = p /\ t = s)) \/ (d = q /\ t = k)
      /\ \A d \in Inodes, t \in Slots : L(d, t) /\ ~(d = p /\ t = s) =>
           slot'[d][t] = slot[d][t] /\ ~(d = q /\ t = k)
  BY RenameLinks
<1>3. LeadsTo(ibit, inode, slot, p, i, y)
  BY <1>1 DEF IInv, Good, LinksLead
<1>4. ASSUME NEW d \in Inodes, NEW t \in Slots, L(d, t), ~(d = p /\ t = s)
      PROVE  slot[d][t].inode # i
  BY <1>1, <1>4 DEF IInv, Good, LinksDiffer
<1>5. /\ 0 \in Slots /\ 1 \in Slots /\ s >= 2 /\ \A t \in Slots : t \in Nat
      /\ \A d \in Inodes : inode[d].entries \in Nat
  BY <1>1, EntriesAssumption DEF Slots, Link, IInv, TypeOK, Inode
<1>6. /\ y = DIR => slot'[i][1].inode = q /\ slot'[i][1].name = slot[i][1].name
      /\ \A c \in Inodes, t \in Slots :
           (c # p \/ t # s) /\ (c # q \/ t # k) /\ (y # DIR \/ c # i \/ t # 1) =>
             slot'[c][t] = slot[c][t]
      /\ slot'[p][s].inode = 0
  BY <1>0 DEF Renamed
<1>7. Shaped(ibit', inode', slot')
  <2> SUFFICES ASSUME NEW d \in Inodes, IsDir(ibit', inode', d)
               PROVE  /\ inode'[d].blk /\ inode'[d].entries >= 2
                      /\ slot'[d][0].name = "." /\ slot'[d][0].inode # 0
                      /\ slot'[d][1].name = ".." /\ slot'[d][1].inode # 0
                      /\ \A t \in Slots : t >= inode'[d].entries => slot'[d][t].inode = 0
    BY DEF Shaped
  <2>1. IsDir(ibit, inode, d)
    BY <1>2
  <2>2. /\ inode[d].blk /\ inode[d].entries >= 2
        /\ slot[d][0].name = "." /\ slot[d][0].inode # 0
        /\ slot[d][1].name = ".." /\ slot[d][1].inode # 0
        /\ \A t \in Slots : t >= inode[d].entries => slot[d][t].inode = 0
    BY <2>1 DEF IInv, Good, Shaped
  <2>3. slot'[d][0] = slot[d][0]
    BY <1>1, <1>5, <1>6
  <2>4. slot'[d][1].name = ".." /\ slot'[d][1].inode # 0
    <3>1. CASE y = DIR /\ d = i
      <4>1. q # 0
        BY <1>1 DEF Inodes
      <4> QED
        BY <3>1, <4>1, <2>2, <1>6
    <3>2. CASE ~(y = DIR /\ d = i)
      <4>1. slot'[d][1] = slot[d][1]
        <5> HIDE DEF i, y, k
        <5> QED
          BY <3>2, <1>1, <1>5, <1>6
      <4> QED
        BY <4>1, <2>2
    <3> QED
      BY <3>1, <3>2
  <2> HIDE DEF i, y, k
  <2>5. /\ inode'[d].blk /\ inode'[d].entries >= inode[d].entries /\ inode'[d].entries \in Nat
        /\ d = q => inode'[d].entries = k + 1 /\ inode[d].entries = k
    <3>1. CASE d = q
      BY <3>1, <1>1, <1>5 DEF k
    <3>2. CASE d # q
      <4>1. inode'[d] = inode[d]
        BY <3>2, <1>0 DEF Renamed
      <4> QED
        BY <4>1, <3>2, <2>2, <1>5
    <3> QED
      BY <3>1, <3>2
  <2>6. ASSUME NEW t \in Slots, t >= inode'[d].entries
        PROVE  slot'[d][t].inode = 0
    <3>1. t \in Nat /\ inode[d].entries \in Nat /\ t >= inode[d].entries /\ t >= 2
      BY <1>5, <2>2, <2>5, <2>6
    <3>2. ~(d = q /\ t = k)
      BY <1>1, <1>5, <2>5, <2>6, <3>1
    <3>3. slot[d][t].inode = 0
      BY <2>2, <3>1
    <3>4. CASE d = p /\ t = s
      BY <3>4, <1>6
    <3>5. CASE ~(d = p /\ t = s)
      <4>1. slot'[d][t] = slot[d][t]
        BY <3>1, <3>2, <3>5, <1>6
      <4> QED
        BY <4>1, <3>3
    <3> QED
      BY <3>4, <3>5
  <2> QED
    BY <2>2, <2>3, <2>4, <2>5, <2>6, <1>5
<1> HIDE DEF L, M
<1>8. LinksLead(ibit', inode', slot')
  <2> SUFFICES ASSUME NEW d \in Inodes, NEW r \in Slots, M(d, r)
               PROVE  /\ slot'[d][r].name \in Names
                      /\ LeadsTo(ibit', inode', slot', d, slot'[d][r].inode, slot'[d][r].type)
    BY DEF LinksLead, M
  <2>1. CASE L(d, r) /\ ~(d = p /\ r = s)
    <3> DEFINE j == slot[d][r].inode
               t == slot[d][r].type
    <3>1. slot'[d][r] = slot[d][r] /\ j # i
      BY <2>1, <1>2, <1>4
    <3>2. slot[d][r].name \in Names /\ LeadsTo(ibit, inode, slot, d, j, t)
      BY <2>1 DEF IInv, Good, LinksLead, L
    <3> HIDE DEF i, y, k, j, t
    <3>3. j \in Inodes /\ inode'[j].dir = inode[j].dir /\ slot'[j][1] = slot[j][1]
      <4>1. j \in Inodes
        BY <3>2 DEF LeadsTo
      <4>2. slot'[j][1] = slot[j][1]
        BY <4>1, <3>1, <1>1, <1>5, <1>6
      <4> QED
        BY <4>1, <4>2, <1>0 DEF Renamed
    <3>4. LeadsTo(ibit', inode', slot', d, j, t)
      BY <3>2, <3>3, <1>1 DEF LeadsTo
    <3> QED
      BY <3>1, <3>2, <3>4 DEF j, t
  <2>2. CASE d = q /\ r = k
    <3>1. inode'[i].dir = inode[i].dir
      BY <1>0, <1>3 DEF Renamed, LeadsTo
    <3>2. LeadsTo(ibit', inode', slot', q, i, y)
      <4> HIDE DEF i, y, k
      <4> QED
        BY <3>1, <1>1, <1>3, <1>6 DEF LeadsTo
    <3> HIDE DEF i, y, k
    <3> QED
      BY <2>2, <3>2, <1>1
  <2> QED
    BY <2>1, <2>2, <1>2
<1>9. NamesDiffer(ibit', inode', slot')
  <2> SUFFICES ASSUME NEW d \in Inodes, NEW r \in Slots, NEW t \in Slots, M(d, r), M(d, t),
                      slot'[d][r].name = slot'[d][t].name
               PROVE  r = t
    BY DEF NamesDiffer, M
  <2>1. ASSUME NEW u \in Slots, L(q, u)
        PROVE  slot[q][u].name # m
    BY <2>1, <1>1, Found DEF L, Renames
  <2>2. L(d, r) /\ L(d, t) /\ slot[d][r].name = slot[d][t].name => r = t
    BY DEF IInv, Good, NamesDiffer, L
  <2> HIDE DEF i, y, k
  <2> QED
    BY <2>1, <2>2, <1>1, <1>2
<1>10. LinksDiffer(ibit', inode', slot')
  <2> SUFFICES ASSUME NEW c \in Inodes, NEW d \in Inodes, NEW r \in Slots, NEW t \in Slots,
                      M(c, r), M(d, t), slot'[c][r].inode = slot'[d][t].inode
               PROVE  c = d /\ r = t
    BY DEF LinksDiffer, M
  <2>1. L(c, r) /\ L(d, t) /\ slot[c][r].inode = slot[d][t].inode => c = d /\ r = t
    BY DEF IInv, Good, LinksDiffer, L
  <2> HIDE DEF i, y, k
  <2> QED
    BY <2>1, <1>1, <1>2, <1>4
<1>11. AllLinked(ibit', inode', slot')
  <2> SUFFICES ASSUME NEW j \in Inodes \ {ROOT}, ibit'[j]
               PROVE  \E d \in Inodes, t \in Slots : M(d, t) /\ slot'[d][t].inode = j
    BY DEF AllLinked, M
  <2>1. CASE j = i
    <3> HIDE DEF i, y, k
    <3> QED
      BY <2>1, <1>1, <1>2
  <2>2. CASE j # i
    <3>1. PICK d \in Inodes, t \in Slots : L(d, t) /\ slot[d][t].inode = j
      BY <1>1 DEF IInv, Good, AllLinked, L
    <3>2. ~(d = p /\ t = s)
      BY <2>2, <3>1
    <3> HIDE DEF i, y, k
    <3> QED
      BY <3>1, <3>2, <1>2
  <2> QED
    BY <2>1, <2>2
<1>12. Kept(ibit', inode')
  <2>1. ROOT \in Inodes /\ 2 \in Inodes /\ 3 \in Inodes
    BY CountAssumption DEF ROOT, Inodes
  <2>2. ibit[ROOT] /\ inode[ROOT].dir /\ ibit[2] /\ inode[2].prot /\ ibit[3] /\ inode[3].prot
    BY DEF IInv, Good, Kept
  <2> QED
    BY <2>1, <2>2, <1>0, <1>1 DEF Kept, Renamed
<1> QED
  BY <1>7, <1>8, <1>9, <1>10, <1>11, <1>12 DEF Good

-----------------------------------------------------------------------------
(***************************************************************************)
(* What a call comes to, if callers only create files.                     *)
(***************************************************************************)
FilesOnly == DIR \notin CreateTypes

Clears(i) ==
  i \in Inodes /\ ~ibit[i] /\ ibit' = ibit /\ inode' = Blank(i) /\ slot' = Empty(i)

Outcome ==
  \/ UNCHANGED <<ibit, inode, slot>>
  \/ ret' = FALSE /\ \E i : Clears(i)
  \/ ret' = TRUE /\ \E p, i, n : Creates(p, i, n)
  \/ ret' = TRUE /\ \E p, s, i : Deletes(p, s, i)
  \/ ret' = TRUE /\ \E p, s, q, m : Renames(p, s, q, m)

\* dir_add_entry() succeeds only in a directory with room and without the name.
LEMMA AddEntry ==
  ASSUME IInv, NEW d \in Allocated, NEW n \in Names \cup {BadName}, TRUE \in dir_add_entry(d, n)
  PROVE  /\ d \in Inodes /\ ibit[d] /\ inode[d].dir /\ inode[d].entries < MAX_ENTRIES
         /\ n \in Names /\ Find(d, n) = {}
<1>1. inode[d].dir /\ n # BadName /\ Find(d, n) = {} /\ inode[d].entries # MAX_ENTRIES
  BY DEF dir_add_entry
<1>2. d \in Inodes /\ ibit[d]
  BY DEF Allocated
<1>3. inode[d].entries \in 0 .. MAX_ENTRIES /\ MAX_ENTRIES \in Nat
  BY <1>2, EntriesAssumption DEF IInv, TypeOK, Inode
<1> QED
  BY <1>1, <1>2, <1>3

LEMMA CreateOutcome ==
  ASSUME IInv, FilesOnly, NEW path \in Paths, NEW type \in CreateTypes, ipo_fs_create(path, type)
  PROVE  Outcome
<1> DEFINE p == path_resolve_parent(path)
           i == First(Free)
           n == Last(path)
<1>1. type = FILE
  BY TypesAssumption DEF FilesOnly
<1>2. CASE Return(FALSE)
  BY <1>2 DEF Return, Outcome
<1>3. ASSUME Creatable(path)
      PROVE  /\ p \in Allocated /\ n \in Names \cup {BadName}
             /\ i \in Inodes /\ ~ibit[i]
  <2>1. p # 0 /\ Free # {}
    BY <1>3 DEF Creatable
  <2>2. Free \in SUBSET Nat
    BY CountAssumption DEF Free, Inodes
  <2>3. i \in Free
    BY <2>1, <2>2, FirstIn
  <2> QED
    BY <2>1, <2>3, ParentLeads DEF Free
<1>4. CASE /\ Creatable(path) /\ TRUE \in dir_add_entry(p, n)
           /\ ibit' = allocate_inode(ibit, i)
           /\ inode' = Grown([inode EXCEPT ![i] = NewInode(type)], p)
           /\ slot' = Added([slot EXCEPT ![i] = NoSlots], p, [inode |-> i, type |-> type, name |-> n])
           /\ ret' = TRUE
  <2>1. /\ p \in Inodes /\ ibit[p] /\ inode[p].dir /\ inode[p].entries < MAX_ENTRIES
        /\ n \in Names /\ Find(p, n) = {}
    <3> HIDE DEF p, n
    <3> QED
      BY <1>3, <1>4, AddEntry
  <2>2. ibit' = [ibit EXCEPT ![i] = TRUE]
    BY <1>4 DEF allocate_inode
  <2>3. inode' = Grown(Blank(i), p)
    BY <1>1, <1>4 DEF Blank
  <2>4. slot' = PutAt(Empty(i), p, inode[p].entries, NewEntry(i, n))
    BY <1>1, <1>4 DEF Added, PutAt, Empty, NewEntry
  <2> HIDE DEF p, i, n
  <2>5. Creates(p, i, n)
    BY <1>3, <1>4, <2>1, <2>2, <2>3, <2>4 DEF Creates
  <2> QED
    BY <1>4, <2>5 DEF Outcome
<1>5. CASE /\ Creatable(path)
           /\ ibit' = free_inode(allocate_inode(ibit, i), i)
           /\ inode' = [inode EXCEPT ![i] = NewInode(type)]
           /\ slot' = [slot EXCEPT ![i] = NoSlots]
           /\ ret' = FALSE
  <2>1. i \in Inodes /\ ~ibit[i]
    BY <1>3, <1>5
  <2>2. ibit' = ibit
    <3>1. ibit \in [Inodes -> BOOLEAN]
      BY DEF IInv, TypeOK
    <3> HIDE DEF i
    <3> QED
      BY <1>5, <2>1, <3>1 DEF free_inode, allocate_inode
  <2>3. Clears(i)
    BY <1>1, <1>5, <2>1, <2>2 DEF Clears, Blank, Empty
  <2> QED
    BY <1>5, <2>3 DEF Outcome
<1> QED
  BY <1>2, <1>4, <1>5 DEF ipo_fs_create

\* The entry an existing path names.
LEMMA Named ==
  ASSUME IInv, NEW path \in Paths, Exists(path)
  PROVE  \E p \in Inodes, s \in Slots :
           /\ p = path_resolve_parent(path) /\ Link(ibit, inode, slot, p, s)
           /\ slot[p][s].name = Last(path)
           /\ dir_find_entry(path_resolve_parent(path), Last(path)) = slot[p][s]
<1> DEFINE p == path_resolve_parent(path)
           n == Last(path)
<1>1. p \in Allocated /\ n \in Names \cup {BadName} /\ Find(p, n) # {}
  BY ParentLeads DEF Exists
<1>2. p \in Inodes /\ ibit[p]
  BY <1>1 DEF Allocated
<1> HIDE DEF p, n
<1>3. \E s \in Slots : /\ Link(ibit, inode, slot, p, s) /\ slot[p][s].name = n
                       /\ dir_find_entry(p, n) = slot[p][s]
  BY <1>1, <1>2, FoundFirst
<1> QED
  BY <1>2, <1>3 DEF p, n

LEMMA DeleteOutcome ==
  ASSUME IInv, NEW path \in Paths, ipo_fs_delete(path)
  PROVE  Outcome
<1> DEFINE P == path_resolve_parent(path)
           n == Last(path)
           de == dir_find_entry(P, n)
<1>1. CASE Return(FALSE)
  BY <1>1 DEF Return, Outcome
<1>2. CASE /\ Deletable(path)
           /\ slot' = [dir_remove_entry(slot, P, n) EXCEPT ![de.inode] = NoSlots]
           /\ inode' = [inode EXCEPT ![de.inode].blk = @ /\ inode[de.inode].entries = 0]
           /\ ibit' = free_inode(ibit, de.inode)
           /\ ret' = TRUE
  <2>1. Exists(path) /\ ~inode[de.inode].prot /\ (de.type = DIR => inode[de.inode].entries <= 2)
    BY <1>2 DEF Deletable, protected, Removable
  <2>2. PICK p \in Inodes, s \in Slots : /\ p = P /\ Link(ibit, inode, slot, p, s)
                                         /\ slot[p][s].name = n /\ de = slot[p][s]
    BY <2>1, Named
  <2> DEFINE i == slot[p][s].inode
  <2>3. slot \in Directories
    BY DEF IInv, TypeOK, Directories
  <2>4. i \in Inodes /\ i # 0
    BY <2>2 DEF IInv, Good, LinksLead, LeadsTo, Link
  <2>5. \A t \in Slots : slot[p][t].inode # 0 /\ slot[p][t].name = n => t = s
    <3> SUFFICES ASSUME NEW t \in Slots, slot[p][t].inode # 0, slot[p][t].name = n
                 PROVE  t = s
      OBVIOUS
    <3>1. n \in Names
      BY <2>2 DEF IInv, Good, LinksLead
    <3>2. n \notin {".", ".."}
      BY <3>1, NamesAssumption
    <3>3. /\ slot[p][0].name = "." /\ slot[p][1].name = ".."
          /\ \A r \in Slots : r >= inode[p].entries => slot[p][r].inode = 0
      BY <2>2 DEF Link, IInv, Good, Shaped
    <3>4. inode[p].entries \in Nat /\ t \in Nat
      BY EntriesAssumption DEF IInv, TypeOK, Inode, Slots
    <3>5. t >= 2 /\ t < inode[p].entries
      <4> HIDE DEF n
      <4> QED
        BY <3>2, <3>3, <3>4
    <3>6. Link(ibit, inode, slot, p, t)
      BY <2>2, <3>5 DEF Link
    <3> QED
      BY <2>2, <3>6 DEF IInv, Good, NamesDiffer
  <2>6. dir_remove_entry(slot, p, n) = PutAt(slot, p, s, Tombstone(slot[p][s]))
    <3> HIDE DEF n
    <3> QED
      BY <2>2, <2>3, <2>4, <2>5, RemovedAt DEF Link
  <2>7. slot' = [PutAt(slot, p, s, Tombstone(slot[p][s])) EXCEPT ![i] = NoSlots]
    BY <1>2, <2>2, <2>6
  <2>8. ibit' = [ibit EXCEPT ![i] = FALSE]
    BY <1>2, <2>2 DEF free_inode
  <2>9. inode' = [inode EXCEPT ![i].blk = @ /\ inode[i].entries = 0]
    BY <1>2, <2>2
  <2>10. ~inode[i].prot /\ (slot[p][s].type = DIR => inode[i].entries <= 2)
    BY <2>1, <2>2
  <2>11. Deletes(p, s, i)
    BY <2>2, <2>4, <2>7, <2>8, <2>9, <2>10 DEF Deletes
  <2> QED
    BY <1>2, <2>11 DEF Outcome
<1> QED
  BY <1>1, <1>2 DEF ipo_fs_delete

LEMMA RenameOutcome ==
  ASSUME IInv, NEW old \in Paths, NEW new \in Paths, ipo_fs_rename(old, new)
  PROVE  Outcome
<1> DEFINE P == path_resolve_parent(old)
           n == Last(old)
           de == dir_find_entry(P, n)
           q == NewParent(new)
           m == NewName(old, new)
<1>1. CASE \E r : Return(r)
  BY <1>1 DEF Return, Outcome
<1>2. CASE /\ Renamable(old, new) /\ Find(q, m) = {} /\ TRUE \in dir_add_entry(q, m)
           /\ slot' = dir_remove_entry(
                        Reparented(Added(slot, q, [de EXCEPT !.name = m]), de.inode, de.type, q),
                        P, n)
           /\ inode' = Grown(inode, q)
           /\ ret' = TRUE
           /\ UNCHANGED ibit
  <2>1. /\ Exists(old) /\ ~inode[de.inode].prot /\ q # 0 /\ m # BadName
    BY <1>2 DEF Renamable, protected
  <2>2. PICK p \in Inodes, s \in Slots : /\ p = P /\ Link(ibit, inode, slot, p, s)
                                         /\ slot[p][s].name = n /\ de = slot[p][s]
    BY <2>1, Named
  <2>3. n \in Names
    BY <2>2 DEF IInv, Good, LinksLead
  <2>4. q \in Allocated /\ m \in Names \cup {BadName}
    <3>1. CASE Into(new)
      <4>1. new \in Seq(Names \cup {BadName})
        BY NamesAssumption
      <4>2. q = path_resolve(new) /\ m = n
        BY <3>1 DEF NewParent, NewName
      <4> QED
        BY <4>1, <4>2, <2>1, <2>3, PathLeads
    <3>2. CASE ~Into(new)
      <4>1. q = path_resolve_parent(new) /\ m = Last(new)
        BY <3>2 DEF NewParent, NewName
      <4> QED
        BY <4>1, <2>1, ParentLeads
    <3> QED
      BY <3>1, <3>2
  <2>5. /\ q \in Inodes /\ ibit[q] /\ inode[q].dir /\ inode[q].entries < MAX_ENTRIES
        /\ m \in Names /\ Find(q, m) = {}
    <3> HIDE DEF q, m
    <3> QED
      BY <1>2, <2>4, AddEntry
  <2>6. slot' = dir_remove_entry(
                  Reparented(PutAt(slot, q, inode[q].entries, Retitled(slot[p][s], m)),
                             slot[p][s].inode, slot[p][s].type, q),
                  p, slot[p][s].name)
    BY <1>2, <2>2 DEF Added, PutAt, Retitled
  <2> HIDE DEF q, m
  <2>7. Renames(p, s, q, m)
    BY <1>2, <2>1, <2>2, <2>5, <2>6 DEF Renames
  <2> QED
    BY <1>2, <2>7 DEF Outcome
<1> QED
  BY <1>1, <1>2 DEF ipo_fs_rename

-----------------------------------------------------------------------------
(***************************************************************************)
(* The formatted disk.                                                     *)
(***************************************************************************)
Item(i, t, n) == [inode |-> i, type |-> t, name |-> n]

LEMMA DotsOnly ==
  ASSUME NEW i \in Inodes, NEW j \in Inodes
  PROVE  /\ DirSlots(i, j, <<>>) \in [Slots -> Entry]
         /\ DirSlots(i, j, <<>>)[0] = Item(i, DIR, ".")
         /\ DirSlots(i, j, <<>>)[1] = Item(j, DIR, "..")
         /\ \A s \in Slots : s >= 2 => DirSlots(i, j, <<>>)[s] = NoEntry
<1> DEFINE a == Item(i, DIR, ".")
           b == Item(j, DIR, "..")
           all == <<a, b>> \o <<>>
<1>1. 0 \in Slots /\ 1 \in Slots /\ \A s \in Slots : s \in Nat
  BY EntriesAssumption DEF Slots
<1>2. DirSlots(i, j, <<>>) = [s \in Slots |-> IF s < Len(all) THEN all[s + 1] ELSE NoEntry]
  BY DEF DirSlots, Item
<1>3. a \in Entry /\ b \in Entry /\ NoEntry \in Entry
  <2>1. i \in 0 .. INODE_COUNT /\ j \in 0 .. INODE_COUNT /\ 0 \in 0 .. INODE_COUNT
    BY CountAssumption DEF Inodes
  <2> QED
    BY <2>1 DEF Item, Entry, Dots, NoEntry
<1> HIDE DEF a, b
<1>4. Len(all) = 2 /\ all[1] = a /\ all[2] = b
  OBVIOUS
<1> HIDE DEF all
<1>5. \A s \in Slots : DirSlots(i, j, <<>>)[s] = IF s = 0 THEN a ELSE IF s = 1 THEN b ELSE NoEntry
  BY <1>1, <1>2, <1>4
<1>6. DirSlots(i, j, <<>>) = [s \in Slots |-> DirSlots(i, j, <<>>)[s]]
  BY <1>2
<1>7. DirSlots(i, j, <<>>) \in [Slots -> Entry]
  BY <1>3, <1>5, <1>6
<1> QED
  BY <1>1, <1>5, <1>7 DEF a, b

RootEntries == <<Item(2, DIR, "app"), Item(3, FILE, "autorun"), Item(4, DIR, "d")>>
LEMMA RootSlots ==
  LET r == DirSlots(1, 1, RootEntries)
  IN  /\ r \in [Slots -> Entry]
      /\ r[0] = Item(1, DIR, ".") /\ r[1] = Item(1, DIR, "..")
      /\ r[2] = Item(2, DIR, "app") /\ r[3] = Item(3, FILE, "autorun")
      /\ r[4] = Item(4, DIR, "d")
      /\ \A s \in Slots : s >= 5 => r[s] = NoEntry
<1> DEFINE a == Item(1, DIR, ".")
           b == Item(1, DIR, "..")
           c == Item(2, DIR, "app")
           d == Item(3, FILE, "autorun")
           e == Item(4, DIR, "d")
           all == <<a, b>> \o <<c, d, e>>
           r == DirSlots(1, 1, RootEntries)
<1>1. {0, 1, 2, 3, 4} \subseteq Slots /\ \A s \in Slots : s \in Nat
  BY EntriesAssumption DEF Slots
<1>2. r = [s \in Slots |-> IF s < Len(all) THEN all[s + 1] ELSE NoEntry]
  BY DEF DirSlots, Item, RootEntries
<1>3. {a, b, c, d, e, NoEntry} \subseteq Entry
  <2>1. {0, 1, 2, 3, 4} \subseteq 0 .. INODE_COUNT
    BY CountAssumption
  <2>2. {"app", "autorun", "d"} \subseteq Names
    BY NamesAssumption
  <2> QED
    BY <2>1, <2>2 DEF Item, Entry, Dots, NoEntry
<1> HIDE DEF a, b, c, d, e
<1>4. /\ Len(all) = 5
      /\ all[1] = a /\ all[2] = b /\ all[3] = c /\ all[4] = d /\ all[5] = e
  OBVIOUS
<1> HIDE DEF all, r
<1>5. \A s \in Slots :
        r[s] = IF s = 0 THEN a ELSE IF s = 1 THEN b ELSE IF s = 2 THEN c
               ELSE IF s = 3 THEN d ELSE IF s = 4 THEN e ELSE NoEntry
  BY <1>1, <1>2, <1>4
<1>6. r = [s \in Slots |-> r[s]]
  BY <1>2
<1>7. r \in [Slots -> Entry]
  BY <1>3, <1>5, <1>6
<1>8. /\ r[0] = a /\ r[1] = b /\ r[2] = c /\ r[3] = d /\ r[4] = e
      /\ \A s \in Slots : s >= 5 => r[s] = NoEntry
  BY <1>1, <1>5
<1> QED
  BY <1>7, <1>8 DEF a, b, c, d, e, r

\* Inodes, sizes and entries of the formatted disk, one by one.
LEMMA InitFields ==
  ASSUME Init
  PROVE  /\ ibit \in Bitmaps /\ inode \in InodeTables /\ slot \in Directories
         /\ {1, 2, 3, 4} \subseteq Inodes /\ {0, 1, 2, 3, 4} \subseteq Slots
         /\ \A i \in Inodes : ibit[i] <=> i \in {1, 2, 3, 4}
         /\ inode[1].dir /\ inode[1].entries = 5 /\ inode[1].blk
         /\ inode[2].dir /\ inode[2].entries = 2 /\ inode[2].blk /\ inode[2].prot
         /\ inode[3].dir = FALSE /\ inode[3].prot
         /\ inode[4].dir /\ inode[4].entries = 2 /\ inode[4].blk
         /\ slot[1] = DirSlots(1, 1, RootEntries)
         /\ slot[2] = DirSlots(2, 1, <<>>) /\ slot[4] = DirSlots(4, 1, <<>>)
<1>1. {1, 2, 3, 4} \subseteq Inodes /\ {0, 1, 2, 3, 4} \subseteq Slots /\ \A i \in Inodes : i \in Nat
  BY CountAssumption, EntriesAssumption DEF Inodes, Slots
<1>2. ibit \in Bitmaps /\ \A i \in Inodes : ibit[i] <=> i \in {1, 2, 3, 4}
  <2>1. ibit = [i \in Inodes |-> i <= 4]
    BY DEF Init
  <2>2. \A i \in Inodes : (i <= 4) \in BOOLEAN /\ (i <= 4 <=> i \in {1, 2, 3, 4})
    BY CountAssumption DEF Inodes
  <2> QED
    BY <2>1, <2>2 DEF Bitmaps
<1> DEFINE D(v, k) == [dir |-> TRUE, prot |-> v, entries |-> k, blk |-> TRUE]
           F(v) == [dir |-> FALSE, prot |-> v, entries |-> 0, blk |-> FALSE]
<1>3. NewInode(FILE) = F(FALSE)
  <2>1. (FILE = DIR) = FALSE
    BY DEF FILE, DIR
  <2> QED
    BY <2>1 DEF NewInode
<1> DEFINE w1 == D(FALSE, 5)
           w2 == D(TRUE, 2)
           w3 == [F(FALSE) EXCEPT !.prot = TRUE]
           w4 == D(FALSE, 2)
           w5 == F(FALSE)
<1>4. {w1, w2, w3, w4, w5} \subseteq Inode
  <2>1. {0, 2, 5} \subseteq 0 .. MAX_ENTRIES
    BY EntriesAssumption
  <2>2. w1 \in Inode /\ w2 \in Inode /\ w4 \in Inode /\ w5 \in Inode
    BY <2>1 DEF Inode
  <2>3. w3 \in Inode
    BY <2>1 DEF Inode
  <2> HIDE DEF w1, w2, w3, w4, w5
  <2> QED
    BY <2>2, <2>3
<1>5. /\ w1.dir /\ w1.entries = 5 /\ w1.blk
      /\ w2.dir /\ w2.entries = 2 /\ w2.blk /\ w2.prot
      /\ w3.dir = FALSE /\ w3.prot
      /\ w4.dir /\ w4.entries = 2 /\ w4.blk
  OBVIOUS
<1>6. inode = [i \in Inodes |-> CASE i = 1 -> w1 [] i = 2 -> w2 [] i = 3 -> w3 [] i = 4 -> w4
                                  [] OTHER -> w5]
  BY <1>3 DEF Init
<1> HIDE DEF D, F, w1, w2, w3, w4, w5
<1>7. /\ inode[1] = w1 /\ inode[2] = w2 /\ inode[3] = w3 /\ inode[4] = w4
      /\ \A i \in Inodes : i \notin {1, 2, 3, 4} => inode[i] = w5
  BY <1>1, <1>6
<1>8. \A i \in Inodes : inode[i] \in Inode
  BY <1>4, <1>7
<1>9. inode \in InodeTables
  BY <1>6, <1>8 DEF InodeTables
<1> DEFINE r == DirSlots(1, 1, RootEntries)
           a == DirSlots(2, 1, <<>>)
           d == DirSlots(4, 1, <<>>)
<1>10. slot = [i \in Inodes |-> CASE i = 1 -> r [] i = 2 -> a [] i = 4 -> d [] OTHER -> NoSlots]
  BY DEF Init, RootEntries, Item
<1>11. {r, a, d, NoSlots} \subseteq [Slots -> Entry]
  <2>1. NoEntry \in Entry
    BY CountAssumption DEF NoEntry, Entry
  <2>2. NoSlots \in [Slots -> Entry]
    BY <2>1 DEF NoSlots
  <2>3. a \in [Slots -> Entry] /\ d \in [Slots -> Entry]
    BY <1>1, DotsOnly
  <2>4. r \in [Slots -> Entry]
    BY RootSlots
  <2> HIDE DEF r, a, d
  <2> QED
    BY <2>2, <2>3, <2>4
<1> HIDE DEF r, a, d
<1>12. slot[1] = r /\ slot[2] = a /\ slot[4] = d /\ \A i \in Inodes : slot[i] \in [Slots -> Entry]
  BY <1>1, <1>10, <1>11
<1>13. slot \in Directories
  BY <1>10, <1>12 DEF Directories
<1> QED
  BY <1>1, <1>2, <1>5, <1>7, <1>9, <1>12, <1>13 DEF r, a, d

LEMMA InitIInv == Init => IInv
<1> SUFFICES ASSUME Init PROVE IInv
  OBVIOUS
<1>1. /\ ibit \in Bitmaps /\ inode \in InodeTables /\ slot \in Directories
      /\ {1, 2, 3, 4} \subseteq Inodes /\ {0, 1, 2, 3, 4} \subseteq Slots
      /\ \A i \in Inodes : ibit[i] <=> i \in {1, 2, 3, 4}
      /\ inode[1].dir /\ inode[1].entries = 5 /\ inode[1].blk
      /\ inode[2].dir /\ inode[2].entries = 2 /\ inode[2].blk /\ inode[2].prot
      /\ inode[3].dir = FALSE /\ inode[3].prot
      /\ inode[4].dir /\ inode[4].entries = 2 /\ inode[4].blk
      /\ slot[1] = DirSlots(1, 1, RootEntries)
      /\ slot[2] = DirSlots(2, 1, <<>>) /\ slot[4] = DirSlots(4, 1, <<>>)
  BY InitFields
<1>2. TypeOK
  BY <1>1 DEF Init, TypeOK, Bitmaps, InodeTables, Directories
<1>3. /\ slot[1][0] = Item(1, DIR, ".") /\ slot[1][1] = Item(1, DIR, "..")
      /\ slot[1][2] = Item(2, DIR, "app") /\ slot[1][3] = Item(3, FILE, "autorun")
      /\ slot[1][4] = Item(4, DIR, "d")
      /\ \A s \in Slots : s >= 5 => slot[1][s] = NoEntry
  BY <1>1, RootSlots
<1>4. /\ slot[2][0] = Item(2, DIR, ".") /\ slot[2][1] = Item(1, DIR, "..")
      /\ \A s \in Slots : s >= 2 => slot[2][s] = NoEntry
  BY <1>1, DotsOnly
<1>5. /\ slot[4][0] = Item(4, DIR, ".") /\ slot[4][1] = Item(1, DIR, "..")
      /\ \A s \in Slots : s >= 2 => slot[4][s] = NoEntry
  BY <1>1, DotsOnly
<1>6. /\ \A s \in Slots : s \in Nat
      /\ \A i, t, n : Item(i, t, n).inode = i /\ Item(i, t, n).type = t /\ Item(i, t, n).name = n
      /\ NoEntry.inode = 0
  BY EntriesAssumption DEF Slots, Item, NoEntry
<1>7. \A d \in Inodes : IsDir(ibit, inode, d) <=> d \in {1, 2, 4}
  BY <1>1 DEF IsDir
<1>8. Shaped(ibit, inode, slot)
  <2> SUFFICES ASSUME NEW d \in Inodes, d \in {1, 2, 4}
               PROVE  /\ inode[d].blk /\ inode[d].entries >= 2
                      /\ slot[d][0].name = "." /\ slot[d][0].inode # 0
                      /\ slot[d][1].name = ".." /\ slot[d][1].inode # 0
                      /\ \A s \in Slots : s >= inode[d].entries => slot[d][s].inode = 0
    BY <1>7 DEF Shaped
  <2>1. CASE d = 1
    BY <2>1, <1>1, <1>3, <1>6
  <2>2. CASE d = 2
    BY <2>2, <1>1, <1>4, <1>6
  <2>3. CASE d = 4
    BY <2>3, <1>1, <1>5, <1>6
  <2> QED
    BY <2>1, <2>2, <2>3
<1>9. \A d \in Inodes, s \in Slots :
        Link(ibit, inode, slot, d, s) <=> d = 1 /\ s \in {2, 3, 4}
  <2> SUFFICES ASSUME NEW d \in Inodes, NEW s \in Slots
               PROVE  Link(ibit, inode, slot, d, s) <=> d = 1 /\ s \in {2, 3, 4}
    OBVIOUS
  <2>1. CASE d = 1
    <3>1. slot[1][2].inode # 0 /\ slot[1][3].inode # 0 /\ slot[1][4].inode # 0
      BY <1>3, <1>6
    <3>2. Link(ibit, inode, slot, d, s) <=> 2 <= s /\ s < 5 /\ slot[1][s].inode # 0
      BY <2>1, <1>1, <1>7 DEF Link
    <3>3. 2 <= s /\ s < 5 <=> s \in {2, 3, 4}
      BY <1>6
    <3> QED
      BY <2>1, <3>1, <3>2, <3>3
  <2>2. CASE d \in {2, 4}
    BY <2>2, <1>1, <1>6 DEF Link
  <2>3. CASE d \notin {1, 2, 4}
    BY <2>3, <1>7 DEF Link
  <2> QED
    BY <2>1, <2>2, <2>3
<1>10. LinksLead(ibit, inode, slot)
  <2> SUFFICES ASSUME NEW s \in {2, 3, 4}
               PROVE  /\ slot[1][s].name \in Names
                      /\ LeadsTo(ibit, inode, slot, 1, slot[1][s].inode, slot[1][s].type)
    BY <1>9 DEF LinksLead
  <2>1. {"app", "autorun", "d"} \subseteq Names
    BY NamesAssumption
  <2>2. /\ ROOT = 1 /\ (DIR = DIR) = TRUE /\ (FILE = DIR) = FALSE
        /\ inode[2].dir = TRUE /\ inode[4].dir = TRUE
    BY <1>1 DEF ROOT, FILE, DIR, InodeTables, Inode
  <2>3. CASE s = 2
    <3>1. slot[1][s].inode = 2 /\ slot[1][s].type = DIR /\ slot[1][s].name = "app"
      BY <2>3, <1>3, <1>6
    <3>2. LeadsTo(ibit, inode, slot, 1, 2, DIR)
      <4>1. slot[2][1].inode = 1
        BY <1>4, <1>6
      <4>2. 2 \in Inodes \ {ROOT} /\ ibit[2]
        BY <2>2, <1>1
      <4>3. inode[2].dir = (DIR = DIR)
        BY <2>2
      <4> QED
        BY <4>1, <4>2, <4>3, Zenon DEF LeadsTo
    <3> QED
      BY <3>1, <3>2, <2>1
  <2>4. CASE s = 3
    <3>1. slot[1][s].inode = 3 /\ slot[1][s].type = FILE /\ slot[1][s].name = "autorun"
      BY <2>4, <1>3, <1>6
    <3>2. LeadsTo(ibit, inode, slot, 1, 3, FILE)
      BY <2>2, <1>1 DEF LeadsTo
    <3> QED
      BY <3>1, <3>2, <2>1
  <2>5. CASE s = 4
    <3>1. slot[1][s].inode = 4 /\ slot[1][s].type = DIR /\ slot[1][s].name = "d"
      BY <2>5, <1>3, <1>6
    <3>2. LeadsTo(ibit, inode, slot, 1, 4, DIR)
      <4>1. slot[4][1].inode = 1
        BY <1>5, <1>6
      <4>2. 4 \in Inodes \ {ROOT} /\ ibit[4]
        BY <2>2, <1>1
      <4>3. inode[4].dir = (DIR = DIR)
        BY <2>2
      <4> QED
        BY <4>1, <4>2, <4>3, Zenon DEF LeadsTo
    <3> QED
      BY <3>1, <3>2, <2>1
  <2> QED
    BY <2>3, <2>4, <2>5
<1>11. /\ slot[1][2].name = "app" /\ slot[1][3].name = "autorun" /\ slot[1][4].name = "d"
       /\ slot[1][2].inode = 2 /\ slot[1][3].inode = 3 /\ slot[1][4].inode = 4
  BY <1>3, <1>6
<1>12. NamesDiffer(ibit, inode, slot)
  BY <1>9, <1>11 DEF NamesDiffer
<1>13. LinksDiffer(ibit, inode, slot)
  BY <1>9, <1>11 DEF LinksDiffer
<1>14. AllLinked(ibit, inode, slot)
  <2> SUFFICES ASSUME NEW i \in {2, 3, 4}
               PROVE  \E d \in Inodes, s \in Slots :
                         Link(ibit, inode, slot, d, s) /\ slot[d][s].inode = i
    BY <1>1 DEF AllLinked, ROOT
  <2>1. Link(ibit, inode, slot, 1, i) /\ slot[1][i].inode = i /\ 1 \in Inodes /\ i \in Slots
    BY <1>1, <1>9, <1>11
  <2> QED
    BY <2>1
<1>15. Kept(ibit, inode)
  BY <1>1 DEF Kept, ROOT
<1> QED
  BY <1>2, <1>8, <1>10, <1>12, <1>13, <1>14, <1>15 DEF IInv, Good

\* Every call keeps the invariant.
LEMMA OutcomeKeeps ==
  ASSUME IInv, Outcome
  PROVE  Good(ibit', inode', slot') /\ ibit' \in Bitmaps /\ inode' \in InodeTables
         /\ slot' \in Directories
<1>1. ibit \in Bitmaps /\ inode \in InodeTables /\ slot \in Directories /\ Good(ibit, inode, slot)
  BY DEF IInv, TypeOK, Bitmaps, InodeTables, Directories
<1>2. CASE UNCHANGED <<ibit, inode, slot>>
  BY <1>1, <1>2
<1>3. ASSUME NEW i, Clears(i)
      PROVE  Good(ibit', inode', slot') /\ ibit' \in Bitmaps /\ inode' \in InodeTables
             /\ slot' \in Directories
  BY <1>1, <1>3, ClearKeeps DEF Clears
<1>4. ASSUME NEW p, NEW i, NEW n, Creates(p, i, n)
      PROVE  Good(ibit', inode', slot') /\ ibit' \in Bitmaps /\ inode' \in InodeTables
             /\ slot' \in Directories
  <2>1. Created(p, i, n)
    BY <1>4, CreateFields
  <2> QED
    BY <1>4, <2>1, CreateKeeps DEF Created
<1>5. ASSUME NEW p, NEW s, NEW i, Deletes(p, s, i)
      PROVE  Good(ibit', inode', slot') /\ ibit' \in Bitmaps /\ inode' \in InodeTables
             /\ slot' \in Directories
  <2>1. Deleted(p, s, i)
    BY <1>5, DeleteFields
  <2> QED
    BY <1>5, <2>1, DeleteKeeps DEF Deleted
<1>6. ASSUME NEW p, NEW s, NEW q, NEW m, Renames(p, s, q, m)
      PROVE  Good(ibit', inode', slot') /\ ibit' \in Bitmaps /\ inode' \in InodeTables
             /\ slot' \in Directories
  <2>1. Renamed(p, s, q, m) /\ ibit' = ibit
    BY <1>6, RenameFields DEF Renames
  <2> QED
    BY <1>1, <1>6, <2>1, RenameKeeps DEF Renamed
<1> QED
  BY <1>2, <1>3, <1>4, <1>5, <1>6 DEF Outcome

LEMMA NextOutcome ==
  ASSUME IInv, FilesOnly, [Next]_vars
  PROVE  Outcome
<1>1. CASE UNCHANGED vars
  BY <1>1 DEF vars, Outcome
<1>2. CASE ipo_fs_mount
  BY <1>2 DEF ipo_fs_mount, Outcome
<1>3. ASSUME NEW path \in Paths, NEW type \in CreateTypes, ipo_fs_create(path, type)
      PROVE  Outcome
  BY <1>3, CreateOutcome
<1>4. ASSUME NEW path \in Paths, ipo_fs_delete(path)
      PROVE  Outcome
  BY <1>4, DeleteOutcome
<1>5. ASSUME NEW old \in Paths, NEW new \in Paths, ipo_fs_rename(old, new)
      PROVE  Outcome
  BY <1>5, RenameOutcome
<1> QED
  BY <1>1, <1>2, <1>3, <1>4, <1>5 DEF Next

\* Every call returns true or false and mounts or leaves the mount alone.
LEMMA NextReturns ==
  ASSUME IInv, [Next]_vars
  PROVE  ret' \in BOOLEAN /\ fs_mounted' \in BOOLEAN
<1>1. ret \in BOOLEAN /\ fs_mounted \in BOOLEAN
  BY DEF IInv, TypeOK
<1>2. CASE UNCHANGED vars
  BY <1>1, <1>2 DEF vars
<1>3. CASE ipo_fs_mount
  BY <1>3 DEF ipo_fs_mount
<1>4. ASSUME NEW path \in Paths, NEW type \in CreateTypes, ipo_fs_create(path, type)
      PROVE  ret' \in BOOLEAN /\ fs_mounted' \in BOOLEAN
  BY <1>1, <1>4 DEF ipo_fs_create, Return
<1>5. ASSUME NEW path \in Paths, ipo_fs_delete(path)
      PROVE  ret' \in BOOLEAN /\ fs_mounted' \in BOOLEAN
  BY <1>1, <1>5 DEF ipo_fs_delete, Return
<1>6. ASSUME NEW old \in Paths, NEW new \in Paths, ipo_fs_rename(old, new)
      PROVE  ret' \in BOOLEAN /\ fs_mounted' \in BOOLEAN
  BY <1>1, <1>6 DEF ipo_fs_rename, Return
<1> QED
  BY <1>2, <1>3, <1>4, <1>5, <1>6 DEF Next

LEMMA NextIInv ==
  ASSUME IInv, FilesOnly, [Next]_vars
  PROVE  IInv'
<1>1. /\ Good(ibit', inode', slot') /\ ibit' \in Bitmaps /\ inode' \in InodeTables
      /\ slot' \in Directories
  BY NextOutcome, OutcomeKeeps
<1>2. ret' \in BOOLEAN /\ fs_mounted' \in BOOLEAN
  BY NextReturns
<1> QED
  BY <1>1, <1>2 DEF IInv, TypeOK, Bitmaps, InodeTables, Directories

\* The invariant holds after every sequence of calls.
THEOREM Inductive == FilesOnly => (Spec => []IInv)
<1> SUFFICES ASSUME FilesOnly PROVE Spec => []IInv
  OBVIOUS
<1>1. IInv /\ [Next]_vars => IInv'
  BY NextIInv
<1> QED
  BY InitIInv, <1>1, PTL DEF Spec

\* Slots hold entries or zeroes and no directory outgrows its blocks: Grown()
\* is only reached after the room test of dir_add_entry().
THEOREM TypesHold == FilesOnly => (Spec => []TypeOK)
<1> SUFFICES ASSUME FilesOnly PROVE Spec => []TypeOK
  OBVIOUS
<1>1. IInv => TypeOK
  BY DEF IInv
<1> QED
  BY Inductive, <1>1, PTL

-----------------------------------------------------------------------------
(***************************************************************************)
(* The tree: its edges are the links.                                      *)
(***************************************************************************)
EdgeAt(sl, d, s) == [dir |-> d, name |-> sl[d][s].name, node |-> sl[d][s].inode,
                     type |-> sl[d][s].type]
LEMMA EdgeFields ==
  \A sl, d, s : /\ EdgeAt(sl, d, s).dir = d /\ EdgeAt(sl, d, s).name = sl[d][s].name
                /\ EdgeAt(sl, d, s).node = sl[d][s].inode
                /\ EdgeAt(sl, d, s).type = sl[d][s].type
BY DEF EdgeAt

EdgesAreLinks ==
  \A x : x \in Edges <=>
    \E d \in Inodes, s \in Slots : Link(ibit, inode, slot, d, s) /\ x = EdgeAt(slot, d, s)

\* The slots of a directory that count: its dots and its links.
LEMMA LiveSlots ==
  ASSUME IInv, NEW d \in Inodes, IsDir(ibit, inode, d)
  PROVE  /\ \A s : s \in Live(d) <=> s \in {0, 1} \/ Link(ibit, inode, slot, d, s)
         /\ slot[d][0].name = "." /\ slot[d][1].name = ".."
         /\ \A s : Link(ibit, inode, slot, d, s) => s \in Slots /\ slot[d][s].name \in Names
<1>1. inode[d].entries \in 0 .. MAX_ENTRIES /\ MAX_ENTRIES \in Nat
  BY EntriesAssumption DEF IInv, TypeOK, Inode
<1>2. /\ inode[d].blk /\ inode[d].entries >= 2
      /\ slot[d][0].name = "." /\ slot[d][0].inode # 0
      /\ slot[d][1].name = ".." /\ slot[d][1].inode # 0
  BY DEF IInv, Good, Shaped
<1>3. \A s : s \in Live(d) <=> s \in 0 .. (inode[d].entries - 1) /\ slot[d][s].inode # 0
  BY <1>2 DEF Live, Counted
<1>4. \A s : s \in Live(d) <=> s \in {0, 1} \/ Link(ibit, inode, slot, d, s)
  BY <1>1, <1>2, <1>3 DEF Link, Slots
<1>5. \A s : Link(ibit, inode, slot, d, s) => s \in Slots /\ slot[d][s].name \in Names
  BY DEF IInv, Good, LinksLead, Link
<1> QED
  BY <1>2, <1>4, <1>5

LEMMA EdgesLinks == IInv => EdgesAreLinks
<1> SUFFICES ASSUME IInv, NEW x
             PROVE  x \in Edges <=>
                      \E d \in Inodes, s \in Slots :
                         Link(ibit, inode, slot, d, s) /\ x = EdgeAt(slot, d, s)
  BY DEF EdgesAreLinks
<1>1. x \in Edges <=> \E d \in Dirs : \E s \in Live(d) :
                         slot[d][s].name \notin Dots /\ x = EdgeAt(slot, d, s)
  BY DEF Edges, EdgeAt
<1>2. \A d : d \in Dirs <=> d \in Inodes /\ IsDir(ibit, inode, d)
  BY DEF Dirs, IsDir
<1>3. \A d \in Dirs : \A s : s \in Live(d) /\ slot[d][s].name \notin Dots <=>
                             s \in Slots /\ Link(ibit, inode, slot, d, s)
  <2> SUFFICES ASSUME NEW d \in Dirs, NEW s
               PROVE  s \in Live(d) /\ slot[d][s].name \notin Dots <=>
                      s \in Slots /\ Link(ibit, inode, slot, d, s)
    OBVIOUS
  <2>1. /\ s \in Live(d) <=> s \in {0, 1} \/ Link(ibit, inode, slot, d, s)
        /\ slot[d][0].name = "." /\ slot[d][1].name = ".."
        /\ Link(ibit, inode, slot, d, s) => s \in Slots /\ slot[d][s].name \in Names
    BY <1>2, LiveSlots
  <2>2. \A n \in Names : n \notin Dots
    BY NamesAssumption DEF Dots
  <2> QED
    BY <2>1, <2>2 DEF Dots
<1>4. \A d, s : Link(ibit, inode, slot, d, s) => d \in Dirs
  BY DEF Link, IsDir, Dirs
<1> QED
  BY <1>1, <1>2, <1>3, <1>4

\* The same after a step.
LEMMA EdgesLinksAfter == IInv' => EdgesAreLinks'
BY EdgesLinks, PTL

(***************************************************************************)
(* Bitmap and directories agree, and lookup is not first-match-wins by     *)
(* luck, whatever files are created, deleted and renamed.                  *)
(***************************************************************************)
LEMMA Consistent == IInv => TreeConsistent
<1> SUFFICES ASSUME IInv PROVE TreeConsistent
  OBVIOUS
<1>0. EdgesAreLinks
  BY EdgesLinks
<1>1. ASSUME NEW d \in Dirs, NEW s \in Live(d), NEW t \in Live(d), slot[d][s].name = slot[d][t].name
      PROVE  s = t
  <2>1. d \in Inodes /\ IsDir(ibit, inode, d)
    BY DEF Dirs, IsDir
  <2>2. /\ s \in {0, 1} \/ Link(ibit, inode, slot, d, s)
        /\ t \in {0, 1} \/ Link(ibit, inode, slot, d, t)
        /\ slot[d][0].name = "." /\ slot[d][1].name = ".."
        /\ \A r : Link(ibit, inode, slot, d, r) => r \in Slots /\ slot[d][r].name \in Names
    BY <2>1, LiveSlots
  <2>3. "." \notin Names /\ ".." \notin Names
    BY NamesAssumption
  <2>4. CASE Link(ibit, inode, slot, d, s) /\ Link(ibit, inode, slot, d, t)
    BY <2>1, <2>2, <2>4, <1>1 DEF IInv, Good, NamesDiffer
  <2>5. CASE ~Link(ibit, inode, slot, d, s) \/ ~Link(ibit, inode, slot, d, t)
    BY <2>2, <2>3, <2>5, <1>1
  <2> QED
    BY <2>4, <2>5
<1>2. ASSUME NEW i \in Inodes \ {ROOT}
      PROVE  Cardinality({e \in Edges : e.node = i}) = IF ibit[i] THEN 1 ELSE 0
  <2> DEFINE E == {e \in Edges : e.node = i}
  <2>1. CASE ibit[i]
    <3>1. PICK d \in Inodes, s \in Slots : Link(ibit, inode, slot, d, s) /\ slot[d][s].inode = i
      BY <2>1 DEF IInv, Good, AllLinked
    <3>2. \A x : x \in E <=> x = EdgeAt(slot, d, s)
      <4>1. EdgeAt(slot, d, s) \in E
        BY <3>1, <1>0, EdgeFields DEF EdgesAreLinks
      <4>2. ASSUME NEW x \in E
            PROVE  x = EdgeAt(slot, d, s)
        <5>1. PICK c \in Inodes, t \in Slots : Link(ibit, inode, slot, c, t) /\ x = EdgeAt(slot, c, t)
          BY <1>0 DEF EdgesAreLinks
        <5>2. slot[c][t].inode = i
          BY <5>1, EdgeFields
        <5>3. c = d /\ t = s
          BY <3>1, <5>1, <5>2 DEF IInv, Good, LinksDiffer
        <5> QED
          BY <5>1, <5>3
      <4> HIDE DEF E
      <4> QED
        BY <4>1, <4>2
    <3>3. E = {EdgeAt(slot, d, s)}
      <4> HIDE DEF E
      <4> QED
        BY <3>2
    <3>4. Cardinality(E) = 1
      BY <3>3, FS_Singleton, Zenon
    <3> QED
      BY <2>1, <3>4
  <2>2. CASE ~ibit[i]
    <3>1. ASSUME NEW x \in E
          PROVE  FALSE
      <4>1. PICK c \in Inodes, t \in Slots : Link(ibit, inode, slot, c, t) /\ x = EdgeAt(slot, c, t)
        BY <1>0 DEF EdgesAreLinks
      <4>2. slot[c][t].inode = i
        BY <4>1, EdgeFields
      <4> QED
        BY <4>1, <4>2, <2>2 DEF IInv, Good, LinksLead, LeadsTo
    <3>2. E = {}
      <4> HIDE DEF E
      <4> QED
        BY <3>1
    <3>3. Cardinality(E) = 0
      BY <3>2, FS_EmptySet, Zenon
    <3> QED
      BY <2>2, <3>3
  <2> QED
    BY <2>1, <2>2
<1>3. ASSUME NEW e \in Edges
      PROVE  inode[e.node].dir = (e.type = DIR)
  <2>1. PICK c \in Inodes, t \in Slots : Link(ibit, inode, slot, c, t) /\ e = EdgeAt(slot, c, t)
    BY <1>0 DEF EdgesAreLinks
  <2>2. e.node = slot[c][t].inode /\ e.type = slot[c][t].type
    BY <2>1, EdgeFields
  <2>3. LeadsTo(ibit, inode, slot, c, slot[c][t].inode, slot[c][t].type)
    BY <2>1 DEF IInv, Good, LinksLead
  <2> QED
    BY <2>2, <2>3, Zenon DEF LeadsTo
<1> QED
  BY <1>1, <1>2, <1>3 DEF TreeConsistent

LEMMA PointUp == IInv => DotsPointUp
<1> SUFFICES ASSUME IInv, NEW e \in Edges, e.type = DIR
             PROVE  slot[e.node][1].name = ".." /\ slot[e.node][1].inode = e.dir
  BY DEF DotsPointUp
<1>1. EdgesAreLinks
  BY EdgesLinks
<1>2. PICK c \in Inodes, t \in Slots : Link(ibit, inode, slot, c, t) /\ e = EdgeAt(slot, c, t)
  BY <1>1 DEF EdgesAreLinks
<1>3. e.node = slot[c][t].inode /\ e.type = slot[c][t].type /\ e.dir = c
  BY <1>2, EdgeFields
<1>4. LeadsTo(ibit, inode, slot, c, e.node, e.type)
  BY <1>2, <1>3 DEF IInv, Good, LinksLead
<1>5. e.node \in Inodes /\ IsDir(ibit, inode, e.node) /\ slot[e.node][1].inode = c
  BY <1>4 DEF LeadsTo, IsDir
<1> QED
  BY <1>3, <1>5 DEF IInv, Good, Shaped

-----------------------------------------------------------------------------
(***************************************************************************)
(* What a call does to the edges.                                          *)
(***************************************************************************)
SameEdges == Edges' = Edges /\ ibit' = ibit

LEMMA UnchangedEdges ==
  ASSUME IInv, IInv', UNCHANGED <<ibit, inode, slot>>
  PROVE  SameEdges
<1>1. EdgesAreLinks /\ EdgesAreLinks'
  BY EdgesLinks, EdgesLinksAfter
<1>2. \A x : x \in Edges' <=> x \in Edges
  BY <1>1 DEF EdgesAreLinks
<1> QED
  BY <1>2 DEF SameEdges

LEMMA ClearEdges ==
  ASSUME IInv, IInv', NEW i, Clears(i)
  PROVE  SameEdges
<1>1. EdgesAreLinks /\ EdgesAreLinks'
  BY EdgesLinks, EdgesLinksAfter
<1>2. \A d \in Inodes, s \in Slots :
        /\ Link(ibit', inode', slot', d, s) <=> Link(ibit, inode, slot, d, s)
        /\ Link(ibit, inode, slot, d, s) => slot'[d][s] = slot[d][s]
  BY ClearKeeps DEF Clears
<1>3. \A d \in Inodes, s \in Slots :
        Link(ibit, inode, slot, d, s) => EdgeAt(slot', d, s) = EdgeAt(slot, d, s)
  BY <1>2 DEF EdgeAt
<1>4. \A x : x \in Edges' <=> x \in Edges
  BY <1>1, <1>2, <1>3 DEF EdgesAreLinks
<1> QED
  BY <1>4 DEF SameEdges, Clears

\* An edge that was not there, to an inode that was free.
NewEdge(e) ==
  /\ e \in Tree!Edge /\ e \notin Edges /\ ibit[e.dir] /\ ~ibit[e.node]
  /\ \A x \in Edges : ~(x.dir = e.dir /\ x.name = e.name)
  /\ ibit' = [ibit EXCEPT ![e.node] = TRUE]
  /\ \A x : x \in Edges' <=> x \in Edges \/ x = e

LEMMA CreateEdges ==
  ASSUME IInv, IInv', NEW p, NEW i, NEW n, Creates(p, i, n)
  PROVE  \E e : NewEdge(e)
<1> DEFINE k == inode[p].entries
           e == EdgeAt(slot', p, k)
<1>0. Created(p, i, n)
  BY CreateFields
<1>1. EdgesAreLinks /\ EdgesAreLinks'
  BY EdgesLinks, EdgesLinksAfter
<1>2. /\ \A d \in Inodes, s \in Slots :
           Link(ibit', inode', slot', d, s) <=>
             (Link(ibit, inode, slot, d, s) \/ (d = p /\ s = k))
      /\ \A d \in Inodes, s \in Slots :
           Link(ibit, inode, slot, d, s) => slot'[d][s] = slot[d][s]
  BY CreateLinks
<1>3. \A d \in Inodes, s \in Slots :
        Link(ibit, inode, slot, d, s) => EdgeAt(slot', d, s) = EdgeAt(slot, d, s)
  BY <1>2 DEF EdgeAt
<1>4. p \in Inodes /\ i \in Inodes /\ k \in Slots /\ n \in Names /\ ibit[p] /\ ~ibit[i]
  BY <1>0 DEF Creates, Created
<1>5. \A x : x \in Edges' <=> x \in Edges \/ x = e
  <2> HIDE DEF k, e
  <2>1. \A x : x \in Edges' <=> \E d \in Inodes, s \in Slots :
                 Link(ibit', inode', slot', d, s) /\ x = EdgeAt(slot', d, s)
    BY <1>1 DEF EdgesAreLinks
  <2>2. \A x : x \in Edges <=> \E d \in Inodes, s \in Slots :
                 Link(ibit, inode, slot, d, s) /\ x = EdgeAt(slot, d, s)
    BY <1>1 DEF EdgesAreLinks
  <2>3. e = EdgeAt(slot', p, k)
    BY DEF e, k
  <2> QED
    BY <2>1, <2>2, <2>3, <1>2, <1>3, <1>4
<1>6. slot'[p][k] = NewEntry(i, n)
  BY <1>0 DEF Created
<1>7. e = [dir |-> p, name |-> n, node |-> i, type |-> FILE]
  BY <1>6 DEF EdgeAt, NewEntry
<1>8. e.dir = p /\ e.name = n /\ e.node = i /\ e \in Tree!Edge
  <2> HIDE DEF e
  <2> QED
    BY <1>4, <1>7 DEF Tree!Edge
<1>9. \A x \in Edges : ~(x.dir = p /\ x.name = n)
  <2> SUFFICES ASSUME NEW x \in Edges, x.dir = p, x.name = n PROVE FALSE
    OBVIOUS
  <2>1. PICK d \in Inodes, s \in Slots : Link(ibit, inode, slot, d, s) /\ x = EdgeAt(slot, d, s)
    BY <1>1 DEF EdgesAreLinks
  <2>2. d = p /\ slot[d][s].name = n
    BY <2>1, EdgeFields
  <2>3. s \in Find(p, n)
    BY <2>1, <2>2, <1>4, Found
  <2> QED
    BY <2>3 DEF Creates
<1>10. ibit' = [ibit EXCEPT ![i] = TRUE]
  BY DEF Creates
<1> HIDE DEF e
<1>11. NewEdge(e)
  BY <1>4, <1>5, <1>8, <1>9, <1>10 DEF NewEdge
<1> QED
  BY <1>11

\* An edge goes with its inode, neither protected nor with edges of its own.
GoneEdge(e) ==
  /\ e \in Edges /\ e.node \notin {2, 3} /\ e.node \in Inodes
  /\ \A x \in Edges : x.dir # e.node
  /\ ibit' = [ibit EXCEPT ![e.node] = FALSE]
  /\ \A x : x \in Edges' <=> x \in Edges /\ x # e

LEMMA DeleteEdges ==
  ASSUME IInv, IInv', NEW p, NEW s, NEW i, Deletes(p, s, i)
  PROVE  \E e : GoneEdge(e)
<1> DEFINE e == EdgeAt(slot, p, s)
<1>0. Deleted(p, s, i)
  BY DeleteFields
<1>1. EdgesAreLinks /\ EdgesAreLinks'
  BY EdgesLinks, EdgesLinksAfter
<1>2. /\ \A d \in Inodes, t \in Slots :
           Link(ibit', inode', slot', d, t) <=>
             (Link(ibit, inode, slot, d, t) /\ ~(d = p /\ t = s))
      /\ \A d \in Inodes, t \in Slots :
           Link(ibit', inode', slot', d, t) => slot'[d][t] = slot[d][t] /\ slot[d][t].inode # i
  BY DeleteLinks
<1>3. p \in Inodes /\ s \in Slots /\ i \in Inodes /\ Link(ibit, inode, slot, p, s)
      /\ i \notin {2, 3} /\ ibit' = [ibit EXCEPT ![i] = FALSE]
  BY <1>0 DEF Deletes, Deleted
<1>4. e.node = i /\ e.dir = p
  BY EdgeFields DEF Deletes
<1>5. e \in Edges
  BY <1>1, <1>3 DEF EdgesAreLinks
<1>6. \A d \in Inodes, t \in Slots :
        Link(ibit', inode', slot', d, t) =>
          EdgeAt(slot', d, t) = EdgeAt(slot, d, t) /\ EdgeAt(slot, d, t).node # i
  BY <1>2 DEF EdgeAt
<1> HIDE DEF e
<1>7. \A x : x \in Edges' <=> x \in Edges /\ x # e
  <2>1. \A x : x \in Edges' <=> \E d \in Inodes, t \in Slots :
                 Link(ibit', inode', slot', d, t) /\ x = EdgeAt(slot', d, t)
    BY <1>1 DEF EdgesAreLinks
  <2>2. \A x : x \in Edges <=> \E d \in Inodes, t \in Slots :
                 Link(ibit, inode, slot, d, t) /\ x = EdgeAt(slot, d, t)
    BY <1>1 DEF EdgesAreLinks
  <2>3. e = EdgeAt(slot, p, s)
    BY DEF e
  <2>4. ASSUME NEW x \in Edges'
        PROVE  x \in Edges /\ x # e
    <3>1. PICK d \in Inodes, t \in Slots :
             Link(ibit', inode', slot', d, t) /\ x = EdgeAt(slot', d, t)
      BY <2>1
    <3>2. Link(ibit, inode, slot, d, t) /\ x = EdgeAt(slot, d, t) /\ x.node # i
      BY <3>1, <1>2, <1>6
    <3> QED
      BY <3>2, <2>2, <1>4
  <2>5. ASSUME NEW x \in Edges, x # e
        PROVE  x \in Edges'
    <3>1. PICK d \in Inodes, t \in Slots :
             Link(ibit, inode, slot, d, t) /\ x = EdgeAt(slot, d, t)
      BY <2>2
    <3>2. Link(ibit', inode', slot', d, t) /\ x = EdgeAt(slot', d, t)
      BY <3>1, <2>3, <2>5, <1>2, <1>6
    <3> QED
      BY <3>2, <2>1
  <2> QED
    BY <2>4, <2>5
<1>8. \A x \in Edges : x.dir # i
  <2> SUFFICES ASSUME NEW x \in Edges, x.dir = i PROVE FALSE
    OBVIOUS
  <2>1. PICK d \in Inodes, t \in Slots : Link(ibit, inode, slot, d, t) /\ x = EdgeAt(slot, d, t)
    BY <1>1 DEF EdgesAreLinks
  <2>2. d = i
    BY <2>1, EdgeFields
  <2> QED
    BY <2>1, <2>2, <1>0 DEF Deleted
<1>9. GoneEdge(e)
  BY <1>3, <1>4, <1>5, <1>7, <1>8 DEF GoneEdge
<1> QED
  BY <1>9

\* An edge is replaced by another to the same inode.
MovedEdge(e, f) ==
  /\ e \in Edges /\ f \in Tree!Edge /\ f \notin Edges /\ e.node \notin {2, 3}
  /\ f.node = e.node /\ f.type = e.type /\ f.dir \in Inodes /\ ibit[f.dir]
  /\ \A x \in Edges : ~(x.dir = f.dir /\ x.name = f.name)
  /\ ibit' = ibit
  /\ \A x : x \in Edges' <=> (x \in Edges /\ x # e) \/ x = f

LEMMA RenameEdges ==
  ASSUME IInv, IInv', NEW p, NEW s, NEW q, NEW m, Renames(p, s, q, m)
  PROVE  \E e, f : MovedEdge(e, f)
<1> DEFINE i == slot[p][s].inode
           y == slot[p][s].type
           k == inode[q].entries
           e == EdgeAt(slot, p, s)
           f == EdgeAt(slot', q, k)
<1>0. Renamed(p, s, q, m)
  BY RenameFields
<1>1. EdgesAreLinks /\ EdgesAreLinks'
  BY EdgesLinks, EdgesLinksAfter
<1>2. /\ \A d \in Inodes, t \in Slots :
           Link(ibit', inode', slot', d, t) <=>
             \/ Link(ibit, inode, slot, d, t) /\ ~(d = p /\ t = s)
             \/ d = q /\ t = k
      /\ \A d \in Inodes, t \in Slots :
           Link(ibit, inode, slot, d, t) /\ ~(d = p /\ t = s) =>
             slot'[d][t] = slot[d][t] /\ ~(d = q /\ t = k)
  BY RenameLinks
<1>3. /\ p \in Inodes /\ s \in Slots /\ q \in Inodes /\ k \in Slots /\ m \in Names /\ ibit[q]
      /\ Link(ibit, inode, slot, p, s) /\ ibit' = ibit
      /\ slot'[q][k].inode = i /\ slot'[q][k].type = y /\ slot'[q][k].name = m
  BY <1>0 DEF Renames, Renamed
<1>4. e.node = i /\ e.dir = p /\ e.type = y /\ e.name = slot[p][s].name
  BY EdgeFields
<1>5. f.node = i /\ f.dir = q /\ f.type = y /\ f.name = m
  BY EdgeFields, <1>3
<1>6. i \in Inodes /\ y \in {FILE, DIR} /\ i \notin {2, 3}
  <2>1. i \in Inodes
    BY <1>3 DEF IInv, Good, LinksLead, LeadsTo
  <2>2. slot[p][s] \in Entry
    BY <1>3 DEF IInv, TypeOK
  <2>3. y \in {FILE, DIR}
    BY <2>2 DEF Entry
  <2>4. inode[2].prot /\ inode[3].prot /\ ~inode[i].prot
    BY DEF IInv, Good, Kept, Renames
  <2> QED
    BY <2>1, <2>3, <2>4
<1>7. f \in Tree!Edge
  <2>1. f = [dir |-> q, name |-> m, node |-> i, type |-> y]
    BY <1>3 DEF EdgeAt
  <2> HIDE DEF f, i, y, k
  <2> QED
    BY <2>1, <1>3, <1>6 DEF Tree!Edge
<1>8. e \in Edges
  BY <1>1, <1>3 DEF EdgesAreLinks
<1>9. \A d \in Inodes, t \in Slots :
        Link(ibit, inode, slot, d, t) /\ ~(d = p /\ t = s) =>
          EdgeAt(slot', d, t) = EdgeAt(slot, d, t) /\ EdgeAt(slot, d, t).node # i
  <2> SUFFICES ASSUME NEW d \in Inodes, NEW t \in Slots,
                      Link(ibit, inode, slot, d, t), ~(d = p /\ t = s)
               PROVE  EdgeAt(slot', d, t) = EdgeAt(slot, d, t) /\ EdgeAt(slot, d, t).node # i
    OBVIOUS
  <2>1. slot'[d][t] = slot[d][t]
    BY <1>2
  <2>2. slot[d][t].inode # i
    BY <1>3 DEF IInv, Good, LinksDiffer
  <2> QED
    BY <2>1, <2>2 DEF EdgeAt
<1>10. \A x \in Edges : ~(x.dir = q /\ x.name = m)
  <2> SUFFICES ASSUME NEW x \in Edges, x.dir = q, x.name = m PROVE FALSE
    OBVIOUS
  <2>1. PICK d \in Inodes, t \in Slots : Link(ibit, inode, slot, d, t) /\ x = EdgeAt(slot, d, t)
    BY <1>1 DEF EdgesAreLinks
  <2>2. d = q /\ slot[d][t].name = m
    BY <2>1, EdgeFields
  <2>3. t \in Find(q, m)
    BY <2>1, <2>2, <1>3, Found
  <2> QED
    BY <2>3 DEF Renames
<1>11. \A x : x \in Edges' <=> (x \in Edges /\ x # e) \/ x = f
  <2>1. \A x : x \in Edges' <=> \E d \in Inodes, t \in Slots :
                 Link(ibit', inode', slot', d, t) /\ x = EdgeAt(slot', d, t)
    BY <1>1 DEF EdgesAreLinks
  <2>2. \A x : x \in Edges <=> \E d \in Inodes, t \in Slots :
                 Link(ibit, inode, slot, d, t) /\ x = EdgeAt(slot, d, t)
    BY <1>1 DEF EdgesAreLinks
  <2>3. e = EdgeAt(slot, p, s) /\ f = EdgeAt(slot', q, k)
    OBVIOUS
  <2> HIDE DEF e, f, i, y, k
  <2> QED
    BY <2>1, <2>2, <2>3, <1>2, <1>3, <1>4, <1>9
<1> HIDE DEF e, f, i, y, k
<1>12. MovedEdge(e, f)
  BY <1>3, <1>4, <1>5, <1>6, <1>7, <1>8, <1>10, <1>11 DEF MovedEdge
<1> QED
  BY <1>12

-----------------------------------------------------------------------------
(***************************************************************************)
(* The theorems.                                                           *)
(***************************************************************************)
LEMMA StepEdges ==
  ASSUME IInv, IInv', Outcome
  PROVE  \/ SameEdges
         \/ ret' = TRUE /\ \E e : NewEdge(e)
         \/ ret' = TRUE /\ \E e : GoneEdge(e)
         \/ ret' = TRUE /\ \E e, f : MovedEdge(e, f)
<1>1. CASE UNCHANGED <<ibit, inode, slot>>
  BY <1>1, UnchangedEdges
<1>2. CASE \E i : Clears(i)
  BY <1>2, ClearEdges
<1>3. CASE ret' = TRUE /\ \E p, i, n : Creates(p, i, n)
  BY <1>3, CreateEdges
<1>4. CASE ret' = TRUE /\ \E p, s, i : Deletes(p, s, i)
  BY <1>4, DeleteEdges
<1>5. CASE ret' = TRUE /\ \E p, s, q, m : Renames(p, s, q, m)
  BY <1>5, RenameEdges
<1> QED
  BY <1>1, <1>2, <1>3, <1>4, <1>5 DEF Outcome

\* Bitmap and directories agree, whatever is created, deleted and renamed:
\* dir_add_entry() never enters a name twice and rename moves one link.
THEOREM TreeHolds == FilesOnly => (Spec => []TreeConsistent)
<1> SUFFICES ASSUME FilesOnly PROVE Spec => []TreeConsistent
  OBVIOUS
<1> QED
  BY Inductive, Consistent, PTL

\* The ".." that is_descendant() climbs by is the directory's parent.
THEOREM DotsHold == FilesOnly => (Spec => []DotsPointUp)
<1> SUFFICES ASSUME FilesOnly PROVE Spec => []DotsPointUp
  OBVIOUS
<1> QED
  BY Inductive, PointUp, PTL

\* A call that fails, dir_add_entry() in the middle of a create included,
\* leaves the names and the bitmap as they were.
THEOREM FailuresClean == FilesOnly => (Spec => FailureIsClean)
<1> SUFFICES ASSUME FilesOnly PROVE Spec => FailureIsClean
  OBVIOUS
<1> DEFINE A == ret' = FALSE => Edges' = Edges /\ ibit' = ibit
<1>1. ASSUME IInv, IInv', [Next]_vars
      PROVE  [A]_vars
  <2>1. Outcome
    BY <1>1, NextOutcome
  <2> QED
    BY <1>1, <2>1, StepEdges DEF SameEdges
<1>2. IInv /\ IInv' /\ [Next]_vars => [A]_vars
  BY <1>1
<1> QED
  BY Inductive, <1>2, PTL DEF Spec, FailureIsClean

\* Without directories made by ipo_fs_create(), delete only takes a
\* directory in which nothing is listed.
THEOREM EmptyOnly == FilesOnly => (Spec => OnlyEmptyDeleted)
<1> SUFFICES ASSUME FilesOnly PROVE Spec => OnlyEmptyDeleted
  OBVIOUS
<1> DEFINE A == \A d \in Dirs : ~ibit'[d] => \A e \in Edges : e.dir # d
<1>1. ASSUME IInv, IInv', [Next]_vars
      PROVE  A
  <2> SUFFICES ASSUME NEW d \in Dirs, ~ibit'[d], NEW x \in Edges PROVE x.dir # d
    OBVIOUS
  <2>1. Outcome
    BY <1>1, NextOutcome
  <2>2. d \in Inodes /\ ibit[d] /\ ibit \in [Inodes -> BOOLEAN]
    BY <1>1 DEF Dirs, IInv, TypeOK
  <2>3. CASE SameEdges
    BY <2>2, <2>3 DEF SameEdges
  <2>4. ASSUME NEW e, NewEdge(e) PROVE FALSE
    BY <2>2, <2>4 DEF NewEdge
  <2>5. ASSUME NEW e, GoneEdge(e) PROVE x.dir # d
    <3>1. d = e.node
      BY <2>2, <2>5 DEF GoneEdge
    <3> QED
      BY <2>5, <3>1 DEF GoneEdge
  <2>6. ASSUME NEW e, NEW f, MovedEdge(e, f) PROVE FALSE
    BY <2>2, <2>6 DEF MovedEdge
  <2> QED
    BY <1>1, <2>1, <2>3, <2>4, <2>5, <2>6, StepEdges
<1>2. IInv /\ IInv' /\ [Next]_vars => [A]_vars
  BY <1>1
<1> QED
  BY Inductive, <1>2, PTL DEF Spec, OnlyEmptyDeleted

\* Each call does to the set of names what FileTree allows, in one piece: a
\* create adds an edge to a free inode, a delete takes one that may go, a
\* rename replaces one, and anything else stutters.
THEOREM Refines == FilesOnly => (Spec => RefinesTree)
<1> SUFFICES ASSUME FilesOnly PROVE Spec => RefinesTree
  OBVIOUS
<1> DEFINE used == {i \in Inodes : ibit[i]}
<1>1. IInv => Tree!Init
  <2> SUFFICES ASSUME IInv, NEW x \in Edges PROVE x \in Tree!Edge
    BY DEF Tree!Init
  <2>1. EdgesAreLinks
    BY EdgesLinks
  <2>2. PICK d \in Inodes, s \in Slots : Link(ibit, inode, slot, d, s) /\ x = EdgeAt(slot, d, s)
    BY <2>1 DEF EdgesAreLinks
  <2>3. slot[d][s] \in Entry
    BY <2>2 DEF IInv, TypeOK
  <2>4. slot[d][s].name \in Names /\ slot[d][s].inode \in Inodes /\ slot[d][s].type \in {FILE, DIR}
    BY <2>2, <2>3 DEF IInv, Good, LinksLead, LeadsTo, Entry
  <2> QED
    BY <2>2, <2>4 DEF EdgeAt, Tree!Edge
<1>2. ASSUME IInv, IInv', [Next]_vars
      PROVE  [Tree!Next]_<<Edges, used>>
  <2>1. Outcome
    BY <1>2, NextOutcome
  <2>2. ibit \in [Inodes -> BOOLEAN]
    BY <1>2 DEF IInv, TypeOK
  <2>3. CASE SameEdges
    BY <2>3 DEF SameEdges
  <2>4. ASSUME NEW e, NewEdge(e)
        PROVE  Tree!Next
    <3>1. e.dir \in Inodes /\ e.node \in Inodes
      BY <2>4 DEF NewEdge, Tree!Edge
    <3>2. used' = used \cup {e.node}
      BY <2>2, <2>4, <3>1 DEF NewEdge
    <3>3. Edges' = Edges \cup {e} /\ e \in Edges' \ Edges
      BY <2>4 DEF NewEdge
    <3>4. ~Tree!Named(e.dir, e.name) /\ e.dir \in used /\ e.node \notin used
      BY <2>4, <3>1 DEF NewEdge, Tree!Named
    <3>5. Tree!Create(e)
      BY <3>2, <3>3, <3>4 DEF Tree!Create
    <3> QED
      BY <2>4, <3>3, <3>5 DEF Tree!Next, NewEdge
  <2>5. ASSUME NEW e, GoneEdge(e)
        PROVE  Tree!Next
    <3>1. used' = used \ {e.node}
      BY <2>2, <2>5 DEF GoneEdge
    <3>2. Edges' = Edges \ {e} /\ e \in Edges \ Edges'
      BY <2>5 DEF GoneEdge
    <3>3. Tree!Children(e.node) = {}
      BY <2>5 DEF GoneEdge, Tree!Children
    <3>4. Tree!Delete(e)
      BY <2>5, <3>1, <3>2, <3>3 DEF Tree!Delete, GoneEdge
    <3> QED
      BY <3>2, <3>4 DEF Tree!Next
  <2>6. ASSUME NEW e, NEW f, MovedEdge(e, f)
        PROVE  Tree!Next
    <3>1. used' = used
      BY <2>6 DEF MovedEdge
    <3>2. Edges' = (Edges \ {e}) \cup {f} /\ e \in Edges \ Edges' /\ f \in Edges' \ Edges
      BY <2>6 DEF MovedEdge
    <3>3. ~Tree!Named(f.dir, f.name) /\ f.dir \in used
      BY <2>6 DEF MovedEdge, Tree!Named
    <3>4. Tree!Rename(e, f)
      BY <2>6, <3>1, <3>2, <3>3 DEF Tree!Rename, MovedEdge
    <3> QED
      BY <2>6, <3>2, <3>4 DEF Tree!Next, MovedEdge
  <2> QED
    BY <1>2, <2>1, <2>3, <2>4, <2>5, <2>6, StepEdges
<1>3. IInv /\ IInv' /\ [Next]_vars => [Tree!Next]_<<Edges, used>>
  BY <1>2
<1> QED
  BY Inductive, <1>1, <1>3, PTL DEF Spec, RefinesTree, Tree!Spec

=============================================================================
