------------------------------ MODULE IpoDisk ------------------------------
(***************************************************************************)
(* The IPO file system write by write: what the disk holds when a call is  *)
(* cut off by a reset, when a sector cannot be read or written, and what   *)
(* the next boot makes of it (ipo_fs_format(), ipo_fs_mount(), the calls   *)
(* of ipo_api.c over ipo_dir.c, ipo_inode.c, ipo_bitmap.c, ipo_block.c).   *)
(*                                                                         *)
(* A call is a list `todo' of the functions and block writes it still has  *)
(* to do.  A function is replaced by the writes it comes to when its turn  *)
(* comes, from what is then on the disk; a write changes one sector.  Each *)
(* carries what its caller does when it fails: nothing, return, or         *)
(* something else.  An inode has one data block, and its size is in        *)
(* entries (directories) or blocks (files); IpoFile has the pointer trees, *)
(* IpoNames the paths.                                                     *)
(***************************************************************************)
EXTENDS Integers, FiniteSets, Sequences

CONSTANTS
  INODE_COUNT, NBLOCKS,   \* inodes and data blocks of the disk
  MAX_ENTRIES,            \* bound: the entries of a directory, all in one block
  Names,                  \* the names callers use
  Types,                  \* the types callers pass to ipo_fs_create()
  Faults,                 \* what may go wrong: "reset", "read", "write"
  MAX_FAULTS,             \* bound: how often
  MAX_CALLS               \* bound: the calls made after the first boot

NoName == ""

ASSUME DiskAssumption ==
  /\ INODE_COUNT \in Nat /\ INODE_COUNT >= 5 /\ NBLOCKS \in Nat /\ NBLOCKS >= 4
  /\ MAX_ENTRIES \in Nat /\ MAX_ENTRIES >= 5
ASSUME CallersAssumption == Names \cap {NoName, ".", "..", "app", "autorun"} = {} /\ Types \subseteq {"dir", "file"}
ASSUME FaultsAssumption == Faults \subseteq {"reset", "read", "write"} /\ MAX_FAULTS \in Nat
                           /\ MAX_CALLS \in Nat

VARIABLES
  disk,         \* what the sectors hold
  fs_mounted,
  todo,         \* the rest of the call in progress
  call,         \* which call that is, and the inode it deletes
  calls,        \* how many calls were made
  faults,       \* how many things went wrong
  scars         \* history: those that may leave a mark the code never removes

vars == <<disk, fs_mounted, todo, call, calls, faults, scars>>

Inodes == 1 .. INODE_COUNT
ROOT == 1
Blocks == 1 .. NBLOCKS
Slots == 0 .. (MAX_ENTRIES - 1)
Scars == {"format", "wiped", "rename", "dots", "inode", "misread"}

Entry(i, t, n) == [inode |-> i, type |-> t, name |-> n]
NoEntry == Entry(0, "none", NoName)
Inode(t, p, size, b) == [mode |-> t, prot |-> p, size |-> size, block |-> b]
ZeroInode == Inode("none", FALSE, 0, 0)
NoEntries == [k \in Slots |-> NoEntry]
ZeroBlock == [slot |-> NoEntries, data |-> 0]   \* data: the file whose bytes these are
DirBlock(es) ==
  [ZeroBlock EXCEPT !.slot = [k \in Slots |-> IF k < Len(es) THEN es[k + 1] ELSE NoEntry]]

First(S) == CHOOSE s \in S : \A t \in S : s <= t

-----------------------------------------------------------------------------
(***************************************************************************)
(* A step of a call, and what its caller does if it fails.                 *)
(***************************************************************************)
Ignored == [fatal |-> FALSE, then |-> <<>>]
Fatal == [fatal |-> TRUE, then |-> <<>>]
Instead(steps) == [fatal |-> TRUE, then |-> steps]

Step(do, at, val, err) == [do |-> do, at |-> at, val |-> val, err |-> err]
Functions == {"ensure_fs_mounted", "ipo_fs_mount", "dots_block", "protected_app",
              "protected_autorun", "dir_add_entry", "dir_remove_entry", "update_dots",
              "free_inode"}

bitmap_set_inode(i, v, err) == Step("inode bit", i, v, err)
bitmap_set_block(b, v, err) == Step("block bit", b, v, err)
write_inode(i, n, err) == Step("inode", i, n, err)
zero_block(b, err) == Step("zero", b, 0, err)
write_slot(b, k, e, err) == Step("slot", b, <<k, e>>, err)

\* The sector write of a step.
Put(w) ==
  CASE w.do = "superblock" -> [disk EXCEPT !.super = TRUE]
    [] w.do = "inode bitmap" -> [disk EXCEPT !.ibit = {}]
    [] w.do = "block bitmap" -> [disk EXCEPT !.bbit = {}]
    [] w.do = "inode bit" -> [disk EXCEPT !.ibit = IF w.val THEN @ \cup {w.at} ELSE @ \ {w.at}]
    [] w.do = "block bit" -> [disk EXCEPT !.bbit = IF w.val THEN @ \cup {w.at} ELSE @ \ {w.at}]
    [] w.do = "inode" -> [disk EXCEPT !.node[w.at] = w.val]
    [] w.do = "zero" -> [disk EXCEPT !.block[w.at] = ZeroBlock]
    [] w.do = "slot" -> [disk EXCEPT !.block[w.at].slot[w.val[1]] = w.val[2]]
    [] w.do = "data" -> [disk EXCEPT !.block[w.at] = [ZeroBlock EXCEPT !.data = w.val]]
    [] w.do = "dots" -> [disk EXCEPT !.block[w.at] =
                           DirBlock(<<Entry(w.val[1], "dir", "."), Entry(w.val[2], "dir", "..")>>)]

-----------------------------------------------------------------------------
(***************************************************************************)
(* Reading.                                                                *)
(***************************************************************************)
IsDir(i) == disk.node[i].mode = "dir"
SlotOf(i, k) == disk.block[disk.node[i].block].slot[k]

\* The entries a directory's size counts that a path can name; of two with one
\* name the first, which NamesSound says never happens without a mark.
Live(i) ==
  IF ~IsDir(i) \/ disk.node[i].block = 0 THEN {}
  ELSE {k \in 0 .. (disk.node[i].size - 1) :
          SlotOf(i, k).inode # 0 /\ SlotOf(i, k).name \notin {NoName, ".", ".."}}
Find(i, n) == {k \in Live(i) : SlotOf(i, k).name = n}
dir_find_entry(i, n) == SlotOf(i, First(Find(i, n)))

\* The inodes some path leads to from i.
Below(i) ==
  LET reach[k \in 0 .. INODE_COUNT] ==
        IF k = 0 THEN {i}
        ELSE LET near == reach[k - 1]
             IN  near \cup UNION {{SlotOf(j, s).inode : s \in Live(j)} : j \in near}
  IN  reach[INODE_COUNT]
Reached == Below(ROOT)

\* Something may still go wrong, and does.
Can(fault) == fault \in Faults /\ faults < MAX_FAULTS
May(fault) == Can(fault) /\ faults' = faults + 1

\* What a scan of a bitmap may return: the first free bit, or one before it
\* whose five reads fail, for bitmap_get() then says "free".
Scan(all, bits) ==
  (IF all \subseteq bits THEN {} ELSE {First(all \ bits)}) \cup
  (IF Can("read") THEN {b \in all \cap bits : \A c \in all \ bits : b < c} ELSE {})

-----------------------------------------------------------------------------
(***************************************************************************)
(* Plausible mistakes, used only to check that the properties notice them. *)
(***************************************************************************)
TakenUncleared(b, err) == <<bitmap_set_block(b, TRUE, err)>>
CountedTwice(i, e, b, err) ==
  LET n == disk.node[i]
      p == IF n.block = 0 THEN b ELSE n.block
  IN  <<write_slot(p, n.size, e, err), write_inode(i, [n EXCEPT !.size = @ + 2, !.block = p], Ignored)>>
FreedFirst(d, n, e) ==
  <<Step("free_inode", e.inode, 0, Ignored), Step("dir_remove_entry", d, n, Fatal)>>
RemovedFirst(d, n, to, m, e) ==
  <<Step("dir_remove_entry", d, n, Fatal), Step("dir_add_entry", to, Entry(e.inode, e.type, m), Fatal)>>
RootInodeLast ==
  <<Step("superblock", 0, 0, Fatal), Step("inode bitmap", 0, 0, Fatal),
    Step("block bitmap", 0, 0, Fatal), bitmap_set_inode(1, TRUE, Ignored),
    Step("dots_block", 1, Inode("dir", FALSE, 0, 0), Fatal),
    Step("protected_app", 0, 0, Fatal), Step("protected_autorun", 0, 0, Fatal),
    write_inode(1, Inode("dir", FALSE, 0, 0), Ignored), Step("superblock", 0, 0, Fatal)>>

-----------------------------------------------------------------------------
(***************************************************************************)
(* The functions: the steps each comes to.                                 *)
(***************************************************************************)
allocate_inode(i, err) ==
  <<bitmap_set_inode(i, TRUE, err), write_inode(i, ZeroInode, Ignored)>>
allocate_block(b, err) ==
  <<bitmap_set_block(b, TRUE, err), zero_block(b, err)>>

\* Entry e at the end of directory i; block b if it has none yet.
dir_add_entry(i, e, b, err) ==
  LET n == disk.node[i]
      p == IF n.block = 0 THEN b ELSE n.block
  IN  (IF n.block = 0 THEN allocate_block(b, err) ELSE <<>>)
      \o <<write_slot(p, n.size, e, err),
           write_inode(i, [n EXCEPT !.size = @ + 1, !.block = p], Ignored)>>

free_inode(i) ==
  LET n == disk.node[i]
      frees == n.size > 0 /\ n.block # 0
  IN  (IF frees THEN <<bitmap_set_block(n.block, FALSE, Ignored)>> ELSE <<>>)
      \o <<bitmap_set_inode(i, FALSE, Ignored),
           write_inode(i, IF frees THEN [n EXCEPT !.block = 0] ELSE n, Ignored)>>

\* A file with an indirect block that cannot be read: its pointers are what
\* the stack holds.  One block stands for those they free.
free_inode_unread(i, b) == <<bitmap_set_block(b, FALSE, Ignored)>> \o free_inode(i)

\* The block of a directory with dots, and the inode with it.
dots_block(i, n, b) ==
  allocate_block(b, Fatal)
  \o <<Step("dots", b, <<i, ROOT>>, Ignored),
       write_inode(i, [n EXCEPT !.size = 2, !.block = b], Ignored)>>

RootInode == Inode("dir", FALSE, 0, 0)
AppInode == Inode("dir", TRUE, 0, 0)
AutorunInode == Inode("file", TRUE, 0, 0)

protected_app(i) ==
  allocate_inode(i, Fatal)
  \o <<write_inode(i, AppInode, Ignored), Step("dots_block", i, AppInode, Fatal),
       Step("dir_add_entry", ROOT, Entry(i, "dir", "app"), Fatal)>>
protected_autorun(i) ==
  allocate_inode(i, Fatal)
  \o <<write_inode(i, AutorunInode, Ignored),
       Step("dir_add_entry", ROOT, Entry(i, "file", "autorun"), Fatal)>>

ipo_fs_format ==
  <<Step("superblock", 0, 0, Fatal), Step("inode bitmap", 0, 0, Fatal),
    Step("block bitmap", 0, 0, Fatal)>>
  \o [i \in Inodes |-> write_inode(i, ZeroInode, Fatal)]
  \o <<bitmap_set_inode(ROOT, TRUE, Ignored), write_inode(ROOT, RootInode, Ignored),
       Step("dots_block", ROOT, RootInode, Fatal),
       Step("protected_app", 0, 0, Fatal), Step("protected_autorun", 0, 0, Fatal),
       Step("superblock", 0, 0, Fatal)>>

-----------------------------------------------------------------------------
(***************************************************************************)
(* Boot and the calls.                                                     *)
(***************************************************************************)
Idle == [op |-> "none", victim |-> 0]
Booting == [op |-> "boot", victim |-> 0]
Boot == <<Step("ensure_fs_mounted", 0, 0, Ignored)>>

Blank == [super |-> FALSE, ibit |-> {}, bbit |-> {},
          node |-> [i \in Inodes |-> ZeroInode], block |-> [b \in Blocks |-> ZeroBlock]]
\* A disk somebody else used before.
Foreign == [Blank EXCEPT !.ibit = Inodes, !.bbit = Blocks,
                         !.node = [i \in Inodes |-> Inode("file", FALSE, 1, 1)]]

\* After ipo_fs_format(): in the root a directory n without dots, and in it
\* a file n of one block.
Used(n) ==
  [super |-> TRUE, ibit |-> 1 .. 5, bbit |-> 1 .. 4,
   node |-> <<Inode("dir", FALSE, 5, 1), Inode("dir", TRUE, 2, 2), AutorunInode,
              Inode("dir", FALSE, 1, 3), Inode("file", FALSE, 1, 4)>>
            \o [i \in 1 .. (INODE_COUNT - 5) |-> ZeroInode],
   block |-> <<DirBlock(<<Entry(ROOT, "dir", "."), Entry(ROOT, "dir", ".."), Entry(2, "dir", "app"),
                          Entry(3, "file", "autorun"), Entry(4, "dir", n)>>),
               DirBlock(<<Entry(2, "dir", "."), Entry(ROOT, "dir", "..")>>),
               DirBlock(<<Entry(5, "file", n)>>),
               [ZeroBlock EXCEPT !.data = 5]>>
            \o [b \in 1 .. (NBLOCKS - 4) |-> ZeroBlock]]

Init ==
  /\ disk \in {Blank, Foreign} \cup {Used(n) : n \in Names}
  /\ fs_mounted = FALSE
  /\ todo = Boot /\ call = Booting
  /\ calls = 0 /\ faults = 0 /\ scars = {}

Ready == fs_mounted /\ todo = <<>> /\ calls < MAX_CALLS

\* The call `op' begins with these steps to do.
Begin(op, victim, steps) ==
  /\ todo' = steps
  /\ call' = [op |-> op, victim |-> victim]
  /\ calls' = calls + 1
  /\ UNCHANGED <<disk, fs_mounted>>

\* A bit the scan took for free is a fault and leaves its mark.
Took(bit, bits) ==
  /\ faults' = IF bit \in bits THEN faults + 1 ELSE faults
  /\ scars' = IF bit \in bits THEN scars \cup {"misread"} ELSE scars
TookNone == UNCHANGED <<faults, scars>>
\* dir_find_entry() returns -1 when it cannot read, and its callers take the
\* name for free.  A call that overlooks a name and takes a bit that is set
\* as well is left out: the bit alone leaves its mark.
Overlooks == May("read") /\ UNCHANGED scars

HasRoom(i) == IsDir(i) => disk.node[i].size < MAX_ENTRIES

CreateSteps(d, n, t, i) ==
  allocate_inode(i, Fatal)
  \o <<write_inode(i, Inode(t, FALSE, 0, 0), Ignored),
       Step("dir_add_entry", d, Entry(i, t, n), Instead(<<Step("free_inode", i, 0, Ignored)>>))>>

ipo_fs_create(d, n, t) ==
  /\ Ready /\ HasRoom(d)
  /\ \E i \in Scan(Inodes, disk.ibit) :
       /\ Begin("create", 0, CreateSteps(d, n, t, i))
       /\ \/ Find(d, n) = {} /\ Took(i, disk.ibit)
          \/ Find(d, n) # {} /\ i \notin disk.ibit /\ Overlooks

DeleteSteps(d, n, e) ==
  <<Step("dir_remove_entry", d, n, Fatal), Step("free_inode", e.inode, 0, Ignored)>>

\* The second read_inode() is not checked: when it fails, the size compared
\* is what the stack holds, and a directory may go with what is in it.
ipo_fs_delete(d, n) ==
  /\ Ready /\ Find(d, n) # {}
  /\ LET e == dir_find_entry(d, n)
     IN  /\ ~disk.node[e.inode].prot
         /\ Begin("delete", e.inode, DeleteSteps(d, n, e))
         /\ IF e.type = "dir" /\ disk.node[e.inode].size > 2 THEN Overlooks ELSE TookNone

RenameSteps(d, n, to, m, e) ==
  <<Step("dir_add_entry", to, Entry(e.inode, e.type, m), Fatal)>>
  \o (IF e.type = "dir" THEN <<Step("update_dots", e.inode, to, Fatal)>> ELSE <<>>)
  \o <<Step("dir_remove_entry", d, n, Fatal)>>

\* From name n of d to name m of to; no caller moves a directory below
\* itself here (what becomes of it then is in IpoNames), so it does not
\* matter that is_descendant() says "no" when it cannot read.
ipo_fs_rename(d, n, to, m) ==
  /\ Ready /\ Find(d, n) # {}
  /\ IsDir(to) /\ HasRoom(to)
  /\ LET e == dir_find_entry(d, n)
     IN  /\ ~disk.node[e.inode].prot
         /\ e.type = "dir" => to \notin Below(e.inode)
         /\ Begin("rename", 0, RenameSteps(d, n, to, m, e))
  /\ IF Find(to, m) = {} THEN TookNone ELSE Overlooks

\* One block at the start of file i, through a descriptor.
ipo_fs_write(i) ==
  LET n == disk.node[i]
      store(b) == <<Step("data", b, i, Ignored),
                    write_inode(i, [n EXCEPT !.size = 1, !.block = b], Ignored)>>
      broken == <<write_inode(i, n, Ignored)>>
  IN  /\ Ready /\ n.mode # "dir"
      /\ \/ /\ n.block # 0 /\ Begin("write", 0, store(n.block)) /\ TookNone
         \/ /\ n.block = 0
            /\ \E b \in Scan(Blocks, disk.bbit) :
                 /\ Begin("write", 0, allocate_block(b, Instead(broken)) \o store(b))
                 /\ Took(b, disk.bbit)
         \/ /\ n.block = 0 /\ Blocks \subseteq disk.bbit
            /\ Begin("write", 0, broken) /\ TookNone

-----------------------------------------------------------------------------
(***************************************************************************)
(* One step of the call in progress.                                       *)
(***************************************************************************)
Goes(steps) ==
  /\ todo' = steps
  /\ call' = IF steps = <<>> THEN Idle ELSE call
  /\ UNCHANGED calls
At(do) == todo # <<>> /\ Head(todo).do = do
Arg == Head(todo)
Returns == Goes(Tail(todo))
Fails == Goes(IF Arg.err.fatal THEN Arg.err.then ELSE Tail(todo))

\* The function at the head of the list turns into its steps.
Becomes(steps) ==
  /\ Goes(steps \o Tail(todo))
  /\ UNCHANGED <<disk, fs_mounted>>
Refuses == Fails /\ TookNone /\ UNCHANGED <<disk, fs_mounted>>

ensure_fs_mounted ==
  /\ At("ensure_fs_mounted") /\ TookNone
  /\ \/ /\ disk.super /\ fs_mounted' = TRUE /\ Returns /\ UNCHANGED disk
     \/ /\ ~disk.super /\ Becomes(ipo_fs_format \o <<Step("ipo_fs_mount", 0, 0, Ignored)>>)

ipo_fs_mount ==
  /\ At("ipo_fs_mount") /\ fs_mounted' = disk.super /\ Returns
  /\ TookNone /\ UNCHANGED disk

format_dots ==
  /\ At("dots_block")
  /\ \/ \E b \in Scan(Blocks, disk.bbit) :
          Becomes(dots_block(Arg.at, Arg.val, b)) /\ Took(b, disk.bbit)
     \/ Blocks \subseteq disk.bbit /\ Refuses

format_protected ==
  /\ At("protected_app") \/ At("protected_autorun")
  /\ \/ \E i \in Scan(Inodes, disk.ibit) :
          /\ Becomes(IF At("protected_app") THEN protected_app(i) ELSE protected_autorun(i))
          /\ Took(i, disk.ibit)
     \/ Inodes \subseteq disk.ibit /\ Refuses

NeedsBlock == disk.node[Arg.at].block = 0
run_dir_add_entry ==
  /\ At("dir_add_entry")
  /\ \/ /\ IsDir(Arg.at) /\ Find(Arg.at, Arg.val.name) = {} /\ HasRoom(Arg.at)
        /\ \/ /\ ~NeedsBlock /\ Becomes(dir_add_entry(Arg.at, Arg.val, 0, Arg.err)) /\ TookNone
           \/ /\ NeedsBlock
              /\ \E b \in Scan(Blocks, disk.bbit) :
                   Becomes(dir_add_entry(Arg.at, Arg.val, b, Arg.err)) /\ Took(b, disk.bbit)
     \/ \* the name is there, but the lookup cannot read
        /\ IsDir(Arg.at) /\ Find(Arg.at, Arg.val.name) # {} /\ HasRoom(Arg.at)
        /\ Becomes(dir_add_entry(Arg.at, Arg.val, 0, Arg.err))
        /\ May("read") /\ scars' = scars \cup {"misread"}
     \/ /\ ~IsDir(Arg.at) \/ Find(Arg.at, Arg.val.name) # {} \/ ~HasRoom(Arg.at)
           \/ (NeedsBlock /\ Blocks \subseteq disk.bbit)
        /\ Refuses

Removable(i, n) == \E k \in Find(i, n) : k = First(Find(i, n)) /\ ~disk.node[SlotOf(i, k).inode].prot
\* Its own test of the protection is skipped when the inode cannot be read;
\* the callers have made it.
run_dir_remove_entry ==
  /\ At("dir_remove_entry")
  /\ IF Removable(Arg.at, Arg.val)
     THEN /\ Becomes(<<write_slot(disk.node[Arg.at].block, First(Find(Arg.at, Arg.val)), NoEntry,
                                 Arg.err)>>)
          /\ TookNone
     ELSE Refuses

\* entries[1] is taken for "..", whatever it is.
update_dots ==
  /\ At("update_dots")
  /\ LET b == disk.node[Arg.at].block
         e == SlotOf(Arg.at, 1)
     IN  IF b = 0 THEN Becomes(<<>>) /\ TookNone
         ELSE /\ Becomes(<<write_slot(b, 1, [e EXCEPT !.inode = Arg.val], Arg.err)>>)
              /\ scars' = IF 1 \in Live(Arg.at) THEN scars \cup {"dots"} ELSE scars
              /\ UNCHANGED faults

run_free_inode ==
  /\ At("free_inode")
  /\ \/ Becomes(free_inode(Arg.at)) /\ TookNone
     \/ /\ disk.node[Arg.at].block # 0
        /\ \E b \in Blocks : Becomes(free_inode_unread(Arg.at, b))
        /\ May("read") /\ scars' = scars \cup {"misread"}

Writing == todo # <<>> /\ Arg.do \notin Functions
block_write ==
  /\ Writing /\ disk' = Put(Arg) /\ Returns
  /\ TookNone /\ UNCHANGED fs_mounted

-----------------------------------------------------------------------------
(***************************************************************************)
(* What goes wrong.                                                        *)
(***************************************************************************)
Formatting == call.op = "boot" /\ todo # <<>> /\ ~At("ensure_fs_mounted")
\* The new name of a rename counts and the old one is still there.
TwoNames ==
  /\ call.op = "rename" /\ todo # <<>>
  /\ \A k \in DOMAIN todo : todo[k].do \notin {"dir_add_entry", "inode"}
CutShort == (IF Formatting THEN {"format"} ELSE {}) \cup (IF TwoNames THEN {"rename"} ELSE {})

reset ==
  /\ May("reset")
  /\ fs_mounted' = FALSE /\ todo' = Boot /\ call' = Booting
  /\ scars' = scars \cup CutShort
  /\ UNCHANGED <<disk, calls>>

\* Every try of a write failed, and the sector may have been written even so;
\* or the sector could not be read that the step changes a part of.
ReadFirst == {"inode bit", "block bit", "inode", "slot"}
write_fails ==
  /\ Writing /\ Fails
  /\ \E stored \in BOOLEAN :
       /\ May("write") \/ (May("read") /\ Arg.do \in ReadFirst /\ ~stored)
       /\ disk' = IF stored THEN Put(Arg) ELSE disk
       /\ scars' = scars \cup CutShort \cup
                   (IF Arg.do = "inode" /\ ~stored THEN {"inode"} ELSE {})
  /\ UNCHANGED fs_mounted

\* ipo_fs_write() does not check that it could read the block it changes a
\* part of: the rest becomes what the stack holds, another file's bytes.
data_unread ==
  /\ Writing /\ Arg.do = "data" /\ May("read") /\ Returns
  /\ \E j \in Inodes : disk' = Put([Arg EXCEPT !.val = j])
  /\ scars' = scars \cup {"misread"}
  /\ UNCHANGED fs_mounted

\* A function that ends when it cannot read does.
Readers == {"ensure_fs_mounted", "ipo_fs_mount", "dir_add_entry", "dir_remove_entry",
            "update_dots", "free_inode"}
read_fails ==
  /\ May("read") /\ todo # <<>> /\ Arg.do \in Readers
  /\ IF At("ensure_fs_mounted")
     THEN /\ Becomes(ipo_fs_format \o <<Step("ipo_fs_mount", 0, 0, Ignored)>>)
          /\ scars' = IF disk.super THEN scars \cup {"wiped"} ELSE scars
     ELSE /\ Fails /\ UNCHANGED <<disk, fs_mounted>>
          /\ scars' = scars \cup CutShort

Steps ==
  \/ ensure_fs_mounted \/ ipo_fs_mount \/ format_dots \/ format_protected
  \/ run_dir_add_entry \/ run_dir_remove_entry \/ update_dots \/ run_free_inode
  \/ block_write

\* Where a path given to a call can lead.
Paths == IF Ready THEN Reached ELSE {}

Next ==
  \/ Steps
  \/ \E d \in Paths, n \in Names :
       \/ \E t \in Types : ipo_fs_create(d, n, t)
       \/ ipo_fs_delete(d, n)
       \/ \E to \in Paths, m \in Names : ipo_fs_rename(d, n, to, m)
  \/ \E i \in Paths : ipo_fs_write(i)
  \/ reset \/ write_fails \/ data_unread \/ read_fails

Spec == Init /\ [][Next]_vars

-----------------------------------------------------------------------------
(***************************************************************************)
(* Properties.  `scars' tells the faults the code has no answer to from    *)
(* those it survives.  It survives a reset anywhere but in a format or     *)
(* between the two names of a rename, a failing write of a bitmap or of a  *)
(* directory, and one failed lookup of a name that is there, for           *)
(* dir_add_entry() looks again.  Not a bitmap byte, an indirect block or   *)
(* the old bytes of a data block read wrong, nor a second failed lookup    *)
(* ("misread"), nor an inode that was not written ("inode").               *)
(***************************************************************************)
Unscarred == scars \subseteq {"wiped"}
Named == UNION {{<<i, k>> : k \in Live(i)} : i \in Reached}
Target(p) == SlotOf(p[1], p[2])

\* The disk, the call in progress and the counters have their types.
TypeOK ==
  /\ disk.super \in BOOLEAN /\ disk.ibit \subseteq Inodes /\ disk.bbit \subseteq Blocks
  /\ \A i \in Inodes : disk.node[i] \in
       [mode : {"none", "dir", "file"}, prot : BOOLEAN, size : 0 .. MAX_ENTRIES,
        block : 0 .. NBLOCKS]
  /\ \A b \in Blocks : disk.block[b].data \in 0 .. INODE_COUNT
  /\ fs_mounted \in BOOLEAN /\ scars \subseteq Scars /\ faults \in 0 .. MAX_FAULTS

\* At every moment, in the middle of a call too, a name leads to an inode
\* that is allocated and of the entry's type: create enters the name last,
\* delete removes it first. Between calls an inode has one name: only a
\* rename cut off between dir_add_entry() and dir_remove_entry() leaves two.
\* No entry hides another of its name, so a path leads to whatever a name
\* leads to: a lookup that cannot read takes a name for free, the one in
\* dir_add_entry() finds it.
NamesSound ==
  fs_mounted /\ Unscarred =>
    /\ \A p \in Named :
         Target(p).inode \in disk.ibit /\ disk.node[Target(p).inode].mode = Target(p).type
    /\ \A p, q \in Named : p[1] = q[1] /\ Target(p).name = Target(q).name => p = q
    /\ todo = <<>> =>
         \A p, q \in Named : Target(p).inode = Target(q).inode => p = q

\* At every moment the block of a file or directory is allocated, its own,
\* and shows no bytes of a file that had it before, even when the write of
\* its own bytes fails unnoticed: allocate_block() marks and clears it before
\* anybody points to it, free_inode() gives it back after the name is gone.
\* Two failed reads the code goes on after are excepted: of an indirect block
\* to be freed, and of the block a write changes a part of.
BlocksApart ==
  fs_mounted /\ Unscarred => \A i \in Reached :
    LET b == disk.node[i].block
    IN  b # 0 => /\ b \in disk.bbit
                 /\ \A j \in Reached : disk.node[j].block = b => j = i
                 /\ disk.block[b].data \in {0, i}

\* Whatever was on the disk, a mounted file system has /app and /autorun,
\* protected, unless a format was cut off: the superblock is written first,
\* so the next boot mounts what there is.
ProtectedPresent ==
  fs_mounted /\ Unscarred => \A n \in {"app", "autorun"} :
    Find(ROOT, n) # {} /\ disk.node[dir_find_entry(ROOT, n).inode].prot

\* Only a delete takes files out of the tree, its target and what is below
\* it.  No reset does, not even one that cuts off a rename or a format, no
\* failed lookup that dir_add_entry() catches, and no failing write but that
\* of an inode; a boot does only if it could not read the superblock.
NothingLost ==
  [][scars = {} /\ scars' \subseteq {"rename", "format"} =>
       Reached \ Reached' \subseteq (IF call.op = "delete" THEN Below(call.victim) ELSE {})]_vars

=============================================================================
