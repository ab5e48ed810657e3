------------------------------- MODULE IpoFile -------------------------------
(***************************************************************************)
(* The block half of the IPO file system: the data block bitmap, the       *)
(* inodes' direct, indirect and double indirect pointers, the descriptor   *)
(* table, and the calls that change them (ipo_inode.c; dir_add_entry() of  *)
(* ipo_dir.c; ipo_fs_open() and ipo_fs_write() of ipo_api.c).              *)
(*                                                                         *)
(* ipo_fs_write() works on a copy of the inode and puts it back at the     *)
(* end, while pointer blocks and the bitmap change on the disk at once:    *)
(* one step is one iteration of its loop.  Sizes and offsets are in bytes, *)
(* in words of WORD values as the code's uint32_t.  What the data blocks   *)
(* hold is left out; what the pointer blocks hold is `tab'.  A directory   *)
(* is a file of entries, which dir_add_entry() makes longer by one.        *)
(***************************************************************************)
EXTENDS Integers, FiniteSets

CONSTANTS
  NBLOCKS,                \* data blocks of the disk
  INODE_COUNT,
  BLOCK_SIZE,
  DIRECT_BLOCKS,          \* IPO_FS_DIRECT_BLOCKS
  PER_BLOCK,              \* pointers in a pointer block
  ENTRY_SIZE,             \* bytes of a directory entry
  WORD,                   \* 2^32 in the code
  MAX_FDS,
  Requests                \* the [size, offset] callers read and write

ASSUME DiskAssumption == NBLOCKS \in Nat /\ INODE_COUNT \in Nat /\ MAX_FDS \in Nat
ASSUME GeometryAssumption ==
  /\ BLOCK_SIZE \in Nat \ {0} /\ DIRECT_BLOCKS \in Nat \ {0} /\ PER_BLOCK \in Nat \ {0}
  /\ WORD \in Nat /\ WORD > BLOCK_SIZE
  /\ ENTRY_SIZE \in 1 .. BLOCK_SIZE
ASSUME FileSizeAssumption ==   \* the largest file is some 8 MB, a word 4 GB
  (DIRECT_BLOCKS + PER_BLOCK + PER_BLOCK * PER_BLOCK) * BLOCK_SIZE < WORD
ASSUME RequestsAssumption ==
  Requests \subseteq [size : 0 .. (WORD - 1), offset : 0 .. (WORD - 1)]

VARIABLES
  bbit,    \* the allocated data blocks
  tab,     \* what a pointer block holds, 0 where it points nowhere
  used,    \* the allocated inodes
  dirs,    \* those of them whose mode says directory
  inode,   \* the inodes on the disk
  fds,     \* the inode a descriptor stands for, 0 if it is free
  call,    \* the ipo_fs_write() in progress: its locals
  lost     \* history: blocks whose last pointer was overwritten or never stored

vars == <<bbit, tab, used, dirs, inode, fds, call, lost>>

Blocks == 1 .. NBLOCKS
Inodes == 1 .. INODE_COUNT
Fds == 0 .. (MAX_FDS - 1)
NoTable == [k \in 0 .. (PER_BLOCK - 1) |-> 0]

Inode == [size : 0 .. (WORD - 1), direct : [0 .. (DIRECT_BLOCKS - 1) -> Blocks \cup {0}],
          indirect : Blocks \cup {0}, double_indirect : Blocks \cup {0}]
ZeroInode == [size |-> 0, direct |-> [k \in 0 .. (DIRECT_BLOCKS - 1) |-> 0],
              indirect |-> 0, double_indirect |-> 0]

\* No call in progress.
Idle == [ino |-> 0, in |-> ZeroInode, b |-> 0, last |-> 0, left |-> 0, at |-> 0]

First(S) == CHOOSE s \in S : \A t \in S : s <= t

-----------------------------------------------------------------------------
(***************************************************************************)
(* Plausible mistakes, used only to check that the properties notice them. *)
(***************************************************************************)
TakeWithoutMarking(g) ==
  IF Blocks \subseteq g.bits THEN [g EXCEPT !.phys = 0]
  ELSE [g EXCEPT !.phys = First(Blocks \ g.bits)]
FreedKeepsIndirect(n) ==
  LET nblocks == ((n.size + BLOCK_SIZE - 1) % WORD) \div BLOCK_SIZE
  IN  {n.direct[k] : k \in {j \in 0 .. (DIRECT_BLOCKS - 1) : j < nblocks}} \ {0}
SignedLastBlock(r) == (r.offset + r.size - 1) \div BLOCK_SIZE
SlotOfTheNextIndex(g, t, k) ==
  LET j == (k + 1) % PER_BLOCK
      p == First(Blocks \ g.bits)
  IN  IF g.tab[t][j] # 0 THEN [g EXCEPT !.phys = g.tab[t][j]]
      ELSE IF Blocks \subseteq g.bits THEN [g EXCEPT !.phys = 0]
      ELSE [g EXCEPT !.bits = @ \cup {p}, !.tab[p] = NoTable, !.tab[t][j] = p, !.phys = p]
ReadWithoutLimit(n, r) == IF r.offset >= n.size THEN 0 ELSE r.size

-----------------------------------------------------------------------------
(***************************************************************************)
(* Allocation.  g carries the bitmap, the pointer blocks, the inode copy   *)
(* and the block found last (phys, 0 for the failure return).              *)
(***************************************************************************)
allocate_block(g) ==
  IF Blocks \subseteq g.bits THEN [g EXCEPT !.phys = 0]
  ELSE LET p == First(Blocks \ g.bits)
       IN  [g EXCEPT !.bits = @ \cup {p}, !.tab[p] = NoTable, !.phys = p]

DirectSlot(g, k) ==
  IF g.in.direct[k] # 0 THEN [g EXCEPT !.phys = g.in.direct[k]]
  ELSE LET a == allocate_block(g)
       IN  IF a.phys = 0 THEN a ELSE [a EXCEPT !.in.direct[k] = a.phys]

IndirectBlock(g) ==
  IF g.in.indirect # 0 THEN [g EXCEPT !.phys = g.in.indirect]
  ELSE LET a == allocate_block(g) IN [a EXCEPT !.in.indirect = a.phys]

DoubleIndirectBlock(g) ==
  IF g.in.double_indirect # 0 THEN [g EXCEPT !.phys = g.in.double_indirect]
  ELSE LET a == allocate_block(g) IN [a EXCEPT !.in.double_indirect = a.phys]

\* Slot k of pointer block t, filled if it is empty.
TableSlot(g, t, k) ==
  IF g.tab[t][k] # 0 THEN [g EXCEPT !.phys = g.tab[t][k]]
  ELSE LET a == allocate_block(g)
       IN  IF a.phys = 0 THEN a ELSE [a EXCEPT !.tab[t][k] = a.phys]

get_data_block_for_inode(g, logical) ==
  LET idx == logical - DIRECT_BLOCKS
      idx2 == idx - PER_BLOCK
  IN  IF idx < 0 THEN DirectSlot(g, logical)
      ELSE IF idx < PER_BLOCK THEN
        LET h == IndirectBlock(g) IN IF h.phys = 0 THEN h ELSE TableSlot(h, h.phys, idx)
      ELSE IF idx2 >= PER_BLOCK * PER_BLOCK THEN [g EXCEPT !.phys = 0]
      ELSE LET h == DoubleIndirectBlock(g)
               s == IF h.phys = 0 THEN h ELSE TableSlot(h, h.phys, idx2 \div PER_BLOCK)
           IN  IF s.phys = 0 THEN s ELSE TableSlot(s, s.phys, idx2 % PER_BLOCK)

\* The same lookup without allocation, in pointer blocks tb from copy n of
\* an inode; 0 for a hole.
DataBlock(tb, n, logical) ==
  LET idx == logical - DIRECT_BLOCKS
      idx2 == idx - PER_BLOCK
      entry(t, k) == IF t = 0 THEN 0 ELSE tb[t][k]
  IN  IF idx < 0 THEN n.direct[logical]
      ELSE IF idx < PER_BLOCK THEN entry(n.indirect, idx)
      ELSE IF idx2 >= PER_BLOCK * PER_BLOCK THEN 0
      ELSE entry(entry(n.double_indirect, idx2 \div PER_BLOCK), idx2 % PER_BLOCK)

\* How many bytes ipo_fs_read() copies: it ends at the first hole.
ipo_fs_read(n, r) ==
  LET sum == (r.offset + r.size) % WORD
      size == IF sum > n.size THEN n.size - r.offset ELSE r.size
      first == r.offset \div BLOCK_SIZE
      last == ((r.offset + size - 1) % WORD) \div BLOCK_SIZE
      holes == {b \in first .. last : DataBlock(tab, n, b) = 0}
      end == IF holes = {} THEN last ELSE First(holes) - 1
      copied[b \in (first - 1) .. end] ==
        IF b < first THEN 0
        ELSE LET before == copied[b - 1]
                 room == BLOCK_SIZE - (IF b = first THEN r.offset % BLOCK_SIZE ELSE 0)
             IN  before + (IF room > size - before THEN size - before ELSE room)
  IN  IF r.offset >= n.size \/ end < first THEN 0 ELSE copied[end]

\* What free_inode() gives back: double indirect blocks are not among it, nor
\* any direct block of a file so long that counting its blocks wraps.
Direct(n) ==
  LET nblocks == ((n.size + BLOCK_SIZE - 1) % WORD) \div BLOCK_SIZE
  IN  {k \in 0 .. (DIRECT_BLOCKS - 1) : k < nblocks}
Freed(n) ==
  ({n.direct[k] : k \in Direct(n)} \cup
   (IF n.indirect = 0 THEN {} ELSE {n.indirect} \cup {tab[n.indirect][k] : k \in DOMAIN NoTable}))
  \ {0}
Cleared(n) ==
  [n EXCEPT !.direct = [k \in DOMAIN @ |-> IF k \in Direct(n) THEN 0 ELSE @[k]], !.indirect = 0]

\* The inode as the file system sees it: a write's copy while one runs.
View(i) == IF call.ino = i THEN call.in ELSE inode[i]

\* Every pointer of an inode that is set, with the place it is kept in.
InTable(part, j, t) ==
  IF t = 0 THEN {} ELSE {<<part, j, k, tab[t][k]>> : k \in DOMAIN NoTable}
Pointers(i) ==
  LET n == View(i)
      d == n.double_indirect
  IN  {p \in {<<"direct", 0, k, n.direct[k]>> : k \in DOMAIN n.direct}
             \cup {<<"indirect", 0, 0, n.indirect>>, <<"double", 0, 0, d>>}
             \cup InTable("single", 0, n.indirect)
             \cup InTable("outer", 0, d)
             \cup (IF d = 0 THEN {} ELSE UNION {InTable("inner", k, tab[d][k]) : k \in DOMAIN NoTable})
       : p[4] # 0}

-----------------------------------------------------------------------------
Init ==
  /\ bbit = {} /\ tab = [b \in Blocks |-> NoTable]
  /\ used = {} /\ dirs = {} /\ inode = [i \in Inodes |-> ZeroInode]
  /\ fds = [f \in Fds |-> 0]
  /\ call = Idle /\ lost = {}

\* ipo_fs_create(): the lowest free inode, zeroed, then given its mode.
allocate_inode(directory) ==
  /\ call = Idle /\ Inodes \ used # {}
  /\ used' = used \cup {First(Inodes \ used)}
  /\ dirs' = IF directory THEN dirs \cup {First(Inodes \ used)} ELSE dirs
  /\ inode' = [inode EXCEPT ![First(Inodes \ used)] = ZeroInode]
  /\ lost' = lost \cup {p[4] : p \in Pointers(First(Inodes \ used))}
  /\ UNCHANGED <<bbit, tab, fds, call>>

\* The lowest free descriptor; nothing ever gives one back but a reboot.
ipo_fs_open(i) ==
  /\ call = Idle /\ i \in used \ dirs
  /\ \E f \in Fds : fds[f] = 0
  /\ fds' = [fds EXCEPT ![First({f \in Fds : fds[f] = 0})] = i]
  /\ UNCHANGED <<bbit, tab, used, dirs, inode, call, lost>>

\* ipo_fs_delete(): open descriptors of the file are not looked at, and a
\* directory may have two entries.
free_inode(i) ==
  /\ call = Idle /\ i \in used
  /\ i \in dirs => inode[i].size <= 2 * ENTRY_SIZE
  /\ bbit' = bbit \ Freed(inode[i])
  /\ inode' = [inode EXCEPT ![i] = Cleared(inode[i])]
  /\ used' = used \ {i} /\ dirs' = dirs \ {i}
  /\ UNCHANGED <<tab, fds, call, lost>>

\* The block of directory i for one more entry.  The inode is written back
\* only after the entry: blocks given to a copy that is dropped stay taken.
EntryBlock(i) ==
  get_data_block_for_inode([bits |-> bbit, tab |-> tab, in |-> inode[i], phys |-> 0],
                           (inode[i].size \div ENTRY_SIZE) \div (BLOCK_SIZE \div ENTRY_SIZE))
dir_add_entry(i) ==
  LET g == EntryBlock(i)
  IN  /\ call = Idle /\ i \in dirs
      /\ bbit' = g.bits /\ tab' = g.tab
      /\ inode' = IF g.phys = 0 THEN inode
                  ELSE [inode EXCEPT ![i] = [g.in EXCEPT !.size = (@ + ENTRY_SIZE) % WORD]]
      /\ lost' = IF g.phys = 0 /\ g.in # inode[i] THEN lost \cup (g.bits \ bbit) ELSE lost
      /\ UNCHANGED <<used, dirs, fds, call>>

\* The block of the last byte, in the code's unsigned arithmetic.
last_block(r) == ((r.offset + r.size - 1) % WORD) \div BLOCK_SIZE

\* The file may be gone: a descriptor outlives it.
ipo_fs_write(f, r) ==
  /\ call = Idle /\ fds[f] # 0
  /\ call' = [ino |-> fds[f], in |-> inode[fds[f]],
              b |-> r.offset \div BLOCK_SIZE,
              last |-> last_block(r),
              left |-> r.size, at |-> r.offset]
  /\ UNCHANGED <<bbit, tab, used, dirs, inode, fds, lost>>

Found == get_data_block_for_inode([bits |-> bbit, tab |-> tab, in |-> call.in, phys |-> 0], call.b)
InLoop == call.ino # 0 /\ call.b <= call.last

\* One block of a write; `at' is the first byte not yet written.
write_block ==
  LET g    == Found
      room == BLOCK_SIZE - (call.at % BLOCK_SIZE)
      n    == IF room < call.left THEN room ELSE call.left
  IN  /\ InLoop /\ g.phys # 0
      /\ bbit' = g.bits /\ tab' = g.tab
      /\ call' = [call EXCEPT !.in = g.in, !.b = @ + 1, !.left = @ - n, !.at = @ + n]
      /\ UNCHANGED <<used, dirs, inode, fds, lost>>

\* The loop ends or breaks; what an incomplete lookup allocated is kept.
write_inode ==
  LET g == IF InLoop THEN Found ELSE [bits |-> bbit, tab |-> tab, in |-> call.in, phys |-> 0]
  IN  /\ call.ino # 0 /\ (InLoop => Found.phys = 0)
      /\ bbit' = g.bits /\ tab' = g.tab
      /\ inode' = [inode EXCEPT ![call.ino] =
                     [g.in EXCEPT !.size = IF call.at > @ THEN call.at ELSE @]]
      /\ call' = Idle
      /\ UNCHANGED <<used, dirs, fds, lost>>

\* A reboot: the descriptor table is reset, the disk stays.
ipo_fs_init ==
  /\ call = Idle
  /\ fds' = [f \in Fds |-> 0]
  /\ UNCHANGED <<bbit, tab, used, dirs, inode, call, lost>>

Next ==
  \/ \E directory \in BOOLEAN : allocate_inode(directory)
  \/ \E i \in Inodes : ipo_fs_open(i) \/ free_inode(i) \/ dir_add_entry(i)
  \/ \E f \in Fds, r \in Requests : ipo_fs_write(f, r)
  \/ write_block
  \/ write_inode
  \/ ipo_fs_init

Spec == Init /\ [][Next]_vars

-----------------------------------------------------------------------------
(***************************************************************************)
(* Properties.                                                             *)
(***************************************************************************)
Refs == UNION {{<<i, p>> : p \in Pointers(i)} : i \in Inodes}

\* Pointers are blocks or 0, sizes are words, a call has its locals.
TypeOK ==
  /\ bbit \subseteq Blocks /\ lost \subseteq bbit /\ used \subseteq Inodes /\ dirs \subseteq used
  /\ tab \in [Blocks -> [DOMAIN NoTable -> Blocks \cup {0}]]
  /\ inode \in [Inodes -> Inode]
  /\ fds \in [Fds -> Inodes \cup {0}]
  /\ call \in [ino : Inodes \cup {0}, in : Inode, b : 0 .. WORD, last : 0 .. WORD,
               left : 0 .. WORD, at : 0 .. WORD]

\* A block an inode points to is never free, in the middle of a write too:
\* allocate_block() cannot hand it to somebody else. And no block is reached
\* twice, by two files or by two places of one file.
BlocksOwned ==
  /\ \A r \in Refs : r[2][4] \in bbit
  /\ \A r, s \in Refs : r[2][4] = s[2][4] => r = s

\* A block written at a place of the file is the block a read looks up for
\* that place, and the other places of the file are where they were: both
\* uses of get_data_block_for_inode() agree on the pointer tree.
ReadFindsWritten ==
  [][call.ino # 0 /\ call'.ino # 0 =>
       /\ DataBlock(tab', call'.in, call.b) = Found.phys
       /\ \A b \in 0 .. (DIRECT_BLOCKS + PER_BLOCK + PER_BLOCK * PER_BLOCK - 1) :
            DataBlock(tab, call.in, b) \in {0, DataBlock(tab', call'.in, b)}]_vars

\* A read copies what lies between its offset and the first of: the end of
\* the request, the end of the file, a hole of the file.
ReadIsPrefix ==
  \A i \in Inodes, r \in Requests :
    LET n == inode[i]
        ends == {r.offset + r.size, n.size} \cup
                {b * BLOCK_SIZE : b \in {c \in (r.offset \div BLOCK_SIZE) .. (n.size \div BLOCK_SIZE) :
                                           DataBlock(tab, n, c) = 0}}
        end == First(ends)
    IN  ipo_fs_read(n, r) = IF end > r.offset THEN end - r.offset ELSE 0

\* A block is allocated and in no file only in two ways. The record of a free
\* inode still pointed to it and was zeroed when the inode was taken again:
\* free_inode() gives back neither the double indirect part, nor what lies
\* beyond the file's size or past the wrap of its block count, and a write
\* through the descriptor of a deleted file gives the free inode new blocks.
\* Or dir_add_entry() got a pointer block and then found the disk full: it
\* drops the inode copy that points to it. No other call ever loses a block.
NoLeak == bbit \ lost \subseteq {r[2][4] : r \in Refs}

=============================================================================
