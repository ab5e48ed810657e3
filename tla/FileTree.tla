------------------------------ MODULE FileTree ------------------------------
(***************************************************************************)
(* What the naming operations of the file system promise: a set of named   *)
(* edges from directories to inodes, changed one whole operation at a      *)
(* time.  An operation that fails is a stuttering step.                    *)
(***************************************************************************)
CONSTANTS Inodes, Names, Types, DIR, Protected

VARIABLES
  tree,    \* the edges [dir, name, node, type]
  used     \* the allocated inodes

Edge == [dir : Inodes, name : Names, node : Inodes, type : Types]

Named(d, n) == \E e \in tree : e.dir = d /\ e.name = n

Children(d) == {e \in tree : e.dir = d}

-----------------------------------------------------------------------------
Init == tree \subseteq Edge /\ used \subseteq Inodes

Create(e) ==
  /\ e.dir \in used /\ e.node \notin used /\ ~Named(e.dir, e.name)
  /\ used' = used \cup {e.node}
  /\ tree' = tree \cup {e}

\* Only a file or an empty directory goes, and never a protected one.
Delete(e) ==
  /\ e.node \notin Protected
  /\ e.type = DIR => Children(e.node) = {}
  /\ used' = used \ {e.node}
  /\ tree' = tree \ {e}

\* The same inode, listed elsewhere or under another name.
Rename(e, f) ==
  /\ e.node \notin Protected /\ f.node = e.node /\ f.type = e.type
  /\ f.dir \in used /\ ~Named(f.dir, f.name)
  /\ tree' = (tree \ {e}) \cup {f}
  /\ UNCHANGED used

Next ==
  \/ \E e \in tree' \ tree : e \in Edge /\ Create(e)
  \/ \E e \in tree \ tree' : Delete(e)
  \/ \E e \in tree \ tree', f \in tree' \ tree : f \in Edge /\ Rename(e, f)

Spec == Init /\ [][Next]_<<tree, used>>

=============================================================================
