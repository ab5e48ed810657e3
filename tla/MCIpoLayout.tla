---------------------------- MODULE MCIpoLayout ----------------------------
(* The real sizes, around the totals where something changes: the smallest  *)
(* disk, metadata that just fits, data that just fills one or two bitmap    *)
(* blocks, and the kernel's own call.                                       *)
EXTENDS IpoLayout

Totals == (0 .. 12) \cup (150 .. 170) \cup (4110 .. 4120) \cup (4245 .. 4260) \cup (8345 .. 8360)
          \cup {10000, 12450}
SomeGeometries == [blocks : Totals, inodes : {16, 1024, 4096, 4097}]
=============================================================================
