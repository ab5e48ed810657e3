------------------------------ MODULE IpoNames ------------------------------
(***************************************************************************)
(* The naming half of the IPO file system: the inode bitmap, the inodes'   *)
(* mode and size, and the directories' entry slots (ipo_dir.c, ipo_path.c  *)
(* and the create, delete, rename and mount calls of ipo_api.c).           *)
(*                                                                         *)
(* A directory is an array of slots that only grows: removing an entry     *)
(* zeroes its slot, adding one appends.  Slots 0 and 1 are "." and ".." if *)
(* write_dir_dots() or the disk editor made the directory; the directories *)
(* ipo_fs_create() makes have no dots and start with no block at all.      *)
(*                                                                         *)
(* A path is its canonical form, a sequence of names below the root.  The  *)
(* kernel is single threaded, so one API call is one step; the disk does   *)
(* not fail here, but a directory that needs a new block may not get one.  *)
(***************************************************************************)
EXTENDS Integers, FiniteSets, SequencesExt

CONSTANTS
  INODE_COUNT,            \* sb.inode_count
  DIR_ENTRIES_PER_BLOCK,
  MAX_ENTRIES,            \* bound: the slots one directory can find blocks for
  Names,                  \* the names is_valid_filename() accepts
  BadName,                \* one it refuses
  Paths,                  \* the canonical paths callers use
  CreateTypes             \* the types callers pass to ipo_fs_create()

FILE == "file"
DIR == "dir"
NoName == ""

ASSUME CountAssumption == INODE_COUNT \in Nat /\ INODE_COUNT >= 4
ASSUME EntriesAssumption ==
  /\ DIR_ENTRIES_PER_BLOCK \in Nat \ {0} /\ MAX_ENTRIES \in Nat /\ MAX_ENTRIES >= 5
  /\ MAX_ENTRIES % DIR_ENTRIES_PER_BLOCK = 0
\* fs_canonicalize() leaves no empty name and no dots in a path.
ASSUME NamesAssumption ==
  /\ BadName \notin Names /\ Paths \subseteq Seq(Names \cup {BadName})
  /\ (Names \cup {BadName}) \cap {NoName, ".", ".."} = {}
  /\ {"app", "autorun", "d"} \subseteq Names
ASSUME TypesAssumption == CreateTypes \subseteq {FILE, DIR}

VARIABLES
  fs_mounted,
  ibit,       \* the inode bitmap
  inode,      \* mode (dir, prot), the slots `size' counts, and whether direct[0] is set
  slot,       \* the entries in a directory's blocks
  ret         \* what the last call returned

vars == <<fs_mounted, ibit, inode, slot, ret>>

Inodes == 1 .. INODE_COUNT
ROOT == 1
Slots == 0 .. (MAX_ENTRIES - 1)
Dots == {".", ".."}
NoEntry == [inode |-> 0, type |-> FILE, name |-> NoName]
Entry == [inode : 0 .. INODE_COUNT, type : {FILE, DIR}, name : Names \cup Dots \cup {NoName}]
Inode == [dir : BOOLEAN, prot : BOOLEAN, entries : 0 .. MAX_ENTRIES, blk : BOOLEAN]

NewInode(t) == [dir |-> t = DIR, prot |-> FALSE, entries |-> 0, blk |-> FALSE]
NoSlots == [s \in Slots |-> NoEntry]

\* Slots a directory's size counts, and those of them that hold an entry.
Counted(in, d) == 0 .. (in[d].entries - 1)
Live(d) == IF inode[d].blk THEN {s \in Counted(inode, d) : slot[d][s].inode # 0} ELSE {}

First(S) == CHOOSE s \in S : \A t \in S : s <= t

-----------------------------------------------------------------------------
(***************************************************************************)
(* Plausible mistakes, used only to check that the properties notice them. *)
(***************************************************************************)
NothingProtected(i) == FALSE
FindInFirstBlock(d, n) ==
  IF inode[d].dir
  THEN {s \in Live(d) : s < DIR_ENTRIES_PER_BLOCK /\ slot[d][s].name = n} ELSE {}
GrownByABlock(in, d) ==
  [in EXCEPT ![d].entries = @ + DIR_ENTRIES_PER_BLOCK, ![d].blk = TRUE]
DotsNotMoved(sl, i, t, parent) == sl
KeepInodeBit(bits, i) == bits

-----------------------------------------------------------------------------
(***************************************************************************)
(* Lookup.                                                                 *)
(***************************************************************************)
\* The slots dir_find_entry() would stop at; it stops at the first.
Find(d, n) == IF inode[d].dir THEN {s \in Live(d) : slot[d][s].name = n} ELSE {}
dir_find_entry(d, n) == slot[d][First(Find(d, n))]

\* 0 stands for the failure return of both.
path_resolve(path) ==
  LET step(cur, n) == IF cur = 0 \/ Find(cur, n) = {} THEN 0 ELSE dir_find_entry(cur, n).inode
      at[k \in 0 .. Len(path)] == IF k = 0 THEN ROOT ELSE step(at[k - 1], path[k])
  IN  at[Len(path)]
path_resolve_parent(path) == IF path = <<>> THEN 0 ELSE path_resolve(Front(path))

Exists(path) ==
  /\ path_resolve_parent(path) # 0
  /\ Find(path_resolve_parent(path), Last(path)) # {}

protected(i) == inode[i].prot

\* The emptiness test of ipo_fs_delete(): no more than the two dots.
Removable(i) == inode[i].entries <= 2

\* One round of the loop of is_descendant(); 0 leaves it.
Up(c) ==
  IF c \in {0, ROOT} \/ ~inode[c].dir \/ ~inode[c].blk \/ slot[c][1].inode = c
  THEN 0 ELSE slot[c][1].inode

is_descendant(ancestor, node) ==
  LET cur[k \in 0 .. INODE_COUNT] == IF k = 0 THEN node ELSE Up(cur[k - 1])
  IN  ancestor # ROOT /\ \E k \in 0 .. INODE_COUNT : cur[k] = ancestor

-----------------------------------------------------------------------------
(***************************************************************************)
(* Changing a directory.                                                   *)
(***************************************************************************)
\* What dir_add_entry() may return: a new block may not be found.
dir_add_entry(d, n) ==
  IF ~inode[d].dir \/ n = BadName \/ Find(d, n) # {} \/ inode[d].entries = MAX_ENTRIES
  THEN {FALSE}
  ELSE IF inode[d].entries % DIR_ENTRIES_PER_BLOCK = 0 THEN BOOLEAN ELSE {TRUE}

Added(sl, d, e) == [sl EXCEPT ![d][inode[d].entries] = e]
Grown(in, d) == [in EXCEPT ![d].entries = @ + 1, ![d].blk = TRUE]

\* dir_remove_entry(): the slot is zeroed, the directory does not shrink.
dir_remove_entry(sl, d, n) ==
  LET s == First({t \in Slots : sl[d][t].inode # 0 /\ sl[d][t].name = n})
  IN  [sl EXCEPT ![d][s] = [@ EXCEPT !.inode = 0, !.name = NoName]]

\* rename's last touch: entries[1] of a moved directory is its parent.
Reparented(sl, i, t, parent) ==
  IF t = DIR /\ inode[i].blk THEN [sl EXCEPT ![i][1].inode = parent] ELSE sl

allocate_inode(bits, i) == [bits EXCEPT ![i] = TRUE]
free_inode(bits, i) == [bits EXCEPT ![i] = FALSE]

-----------------------------------------------------------------------------
\* A disk ipo_fs_format() has made, and a directory the disk editor added.
DirSlots(self, parent, es) ==
  LET all == <<[inode |-> self, type |-> DIR, name |-> "."],
               [inode |-> parent, type |-> DIR, name |-> ".."]>> \o es
  IN  [s \in Slots |-> IF s < Len(all) THEN all[s + 1] ELSE NoEntry]

Init ==
  /\ fs_mounted = FALSE
  /\ ibit = [i \in Inodes |-> i <= 4]
  /\ inode = [i \in Inodes |->
       CASE i = 1 -> [dir |-> TRUE, prot |-> FALSE, entries |-> 5, blk |-> TRUE]
         [] i = 2 -> [dir |-> TRUE, prot |-> TRUE, entries |-> 2, blk |-> TRUE]
         [] i = 3 -> [NewInode(FILE) EXCEPT !.prot = TRUE]
         [] i = 4 -> [dir |-> TRUE, prot |-> FALSE, entries |-> 2, blk |-> TRUE]
         [] OTHER -> NewInode(FILE)]
  /\ slot = [i \in Inodes |->
       CASE i = 1 -> DirSlots(1, 1, <<[inode |-> 2, type |-> DIR, name |-> "app"],
                                      [inode |-> 3, type |-> FILE, name |-> "autorun"],
                                      [inode |-> 4, type |-> DIR, name |-> "d"]>>)
         [] i = 2 -> DirSlots(2, 1, <<>>)
         [] i = 4 -> DirSlots(4, 1, <<>>)
         [] OTHER -> NoSlots]
  /\ ret = TRUE

ipo_fs_mount ==
  /\ fs_mounted' = TRUE /\ ret' = TRUE
  /\ UNCHANGED <<ibit, inode, slot>>

Return(r) == ret' = r /\ UNCHANGED <<fs_mounted, ibit, inode, slot>>

-----------------------------------------------------------------------------
Free == {i \in Inodes : ~ibit[i]}

Creatable(path) ==
  /\ fs_mounted /\ path_resolve_parent(path) # 0
  /\ Last(path) # BadName /\ ~Exists(path) /\ Free # {}

\* The new inode's blocks and size start empty, whoever had it before.
ipo_fs_create(path, type) ==
  LET parent == path_resolve_parent(path)
      i      == First(Free)
      e      == [inode |-> i, type |-> type, name |-> Last(path)]
      blank  == [inode EXCEPT ![i] = NewInode(type)]
      empty  == [slot EXCEPT ![i] = NoSlots]
  IN  \/ ~Creatable(path) /\ Return(FALSE)
      \/ /\ Creatable(path) /\ TRUE \in dir_add_entry(parent, Last(path))
         /\ ibit' = allocate_inode(ibit, i)
         /\ inode' = Grown(blank, parent)
         /\ slot' = Added(empty, parent, e)
         /\ ret' = TRUE
         /\ UNCHANGED fs_mounted
      \/ /\ Creatable(path) /\ FALSE \in dir_add_entry(parent, Last(path))
         /\ ibit' = free_inode(allocate_inode(ibit, i), i)
         /\ inode' = blank /\ slot' = empty
         /\ ret' = FALSE
         /\ UNCHANGED fs_mounted

Deletable(path) ==
  /\ fs_mounted /\ Exists(path)
  /\ LET de == dir_find_entry(path_resolve_parent(path), Last(path))
     IN  ~protected(de.inode) /\ (de.type = DIR => Removable(de.inode))

ipo_fs_delete(path) ==
  LET parent == path_resolve_parent(path)
      i      == dir_find_entry(parent, Last(path)).inode
  IN  \/ ~Deletable(path) /\ Return(FALSE)
      \/ /\ Deletable(path)
         /\ slot' = [dir_remove_entry(slot, parent, Last(path)) EXCEPT ![i] = NoSlots]
         /\ inode' = [inode EXCEPT ![i].blk = @ /\ inode[i].entries = 0]
         /\ ibit' = free_inode(ibit, i)
         /\ ret' = TRUE
         /\ UNCHANGED fs_mounted

\* Where rename puts the entry: inside newpath if that is a directory.
Into(new) == path_resolve(new) # 0 /\ inode[path_resolve(new)].dir
NewParent(new) == IF Into(new) THEN path_resolve(new) ELSE path_resolve_parent(new)
NewName(old, new) == IF Into(new) THEN Last(old) ELSE Last(new)

SameInode(old, new) == path_resolve(old) # 0 /\ path_resolve(old) = path_resolve(new)

Renamable(old, new) ==
  /\ fs_mounted /\ old # <<>> /\ Exists(old)
  /\ LET de == dir_find_entry(path_resolve_parent(old), Last(old))
     IN  /\ ~protected(de.inode)
         /\ NewParent(new) # 0
         /\ Into(new) /\ de.type = DIR => ~is_descendant(de.inode, NewParent(new))
         /\ NewName(old, new) # BadName

ipo_fs_rename(old, new) ==
  LET old_parent == path_resolve_parent(old)
      de         == dir_find_entry(old_parent, Last(old))
      new_parent == NewParent(new)
      newname    == NewName(old, new)
      taken      == Find(new_parent, newname) # {}
      added      == Added(slot, new_parent, [de EXCEPT !.name = newname])
  IN  \/ ~fs_mounted /\ Return(FALSE)
      \/ fs_mounted /\ old # <<>> /\ SameInode(old, new) /\ Return(TRUE)
      \/ /\ fs_mounted /\ (old = <<>> \/ ~SameInode(old, new))
         /\ \/ ~Renamable(old, new) /\ Return(FALSE)
            \/ Renamable(old, new) /\ taken
                 /\ Return(dir_find_entry(new_parent, newname).inode = de.inode)
            \/ /\ Renamable(old, new) /\ ~taken
               /\ FALSE \in dir_add_entry(new_parent, newname) /\ Return(FALSE)
            \/ /\ Renamable(old, new) /\ ~taken
               /\ TRUE \in dir_add_entry(new_parent, newname)
               /\ slot' = dir_remove_entry(Reparented(added, de.inode, de.type, new_parent),
                                           old_parent, Last(old))
               /\ inode' = Grown(inode, new_parent)
               /\ ret' = TRUE
               /\ UNCHANGED <<fs_mounted, ibit>>

Next ==
  \/ ipo_fs_mount
  \/ \E path \in Paths, type \in CreateTypes : ipo_fs_create(path, type)
  \/ \E path \in Paths : ipo_fs_delete(path)
  \/ \E old, new \in Paths : ipo_fs_rename(old, new)

Spec == Init /\ [][Next]_vars

-----------------------------------------------------------------------------
(***************************************************************************)
(* Properties.                                                             *)
(***************************************************************************)
\* The named edges of the allocated directories, without the dots.
Dirs == {d \in Inodes : ibit[d] /\ inode[d].dir}
Edges == UNION {{[dir |-> d, name |-> slot[d][s].name, node |-> slot[d][s].inode,
                  type |-> slot[d][s].type] : s \in {t \in Live(d) : slot[d][t].name \notin Dots}}
                : d \in Dirs}

\* Every slot holds an entry or zeroes, and no size exceeds its blocks.
TypeOK ==
  /\ fs_mounted \in BOOLEAN /\ ret \in BOOLEAN
  /\ ibit \in [Inodes -> BOOLEAN]
  /\ inode \in [Inodes -> Inode]
  /\ slot \in [Inodes -> [Slots -> Entry]]

\* Bitmap and directories agree: every allocated inode but the root has
\* exactly one name, every name leads to an allocated inode of its type, and
\* a name occurs once in its directory, tombstones and all: lookup is not
\* first-match-wins by luck (dir_add_entry, rename).
TreeConsistent ==
  /\ \A d \in Dirs : \A s, t \in Live(d) : slot[d][s].name = slot[d][t].name => s = t
  /\ \A i \in Inodes \ {ROOT} :
        Cardinality({e \in Edges : e.node = i}) = IF ibit[i] THEN 1 ELSE 0
  /\ \A e \in Edges : inode[e.node].dir = (e.type = DIR)

\* ".." of a directory that has dots names the directory it is listed in:
\* is_descendant() climbs the real tree.
DotsPointUp ==
  \A e \in Edges : e.type = DIR /\ slot[e.node][0].name = "." =>
                   slot[e.node][1].name = ".." /\ slot[e.node][1].inode = e.dir

\* A call that reports failure has changed no name and no allocation.
FailureIsClean == [][ret' = FALSE => Edges' = Edges /\ ibit' = ibit]_vars

\* A directory is freed only when nothing is listed in it ("Delete a file
\* or empty directory").
OnlyEmptyDeleted ==
  [][\A d \in Dirs : ~ibit'[d] => \A e \in Edges : e.dir # d]_vars

\* Each call does to the set of names what FileTree allows, in one piece.
Tree == INSTANCE FileTree WITH
          Types <- {FILE, DIR}, Protected <- {2, 3},
          tree <- Edges, used <- {i \in Inodes : ibit[i]}
RefinesTree == Tree!Spec

\* Every allocated inode can be reached from the root: no directory is
\* moved below itself ("cannot move directory into its own descendant").
Below ==
  LET below[k \in 0 .. INODE_COUNT] ==
        IF k = 0 THEN {ROOT} ELSE below[k - 1] \cup {e.node : e \in {x \in Edges : x.dir \in below[k - 1]}}
  IN  below[INODE_COUNT]
AllReachable == {i \in Inodes : ibit[i]} \subseteq Below

=============================================================================
