----------------------------- MODULE MCIpoFile -----------------------------
(* One direct pointer and two pointers per block: files of up to 1, 3 and 7 *)
(* blocks of two bytes use the direct, indirect and double indirect parts.  *)
EXTENDS IpoFile

Write(size, offset) == [size |-> size, offset |-> offset]

\* Part of the first block behind the indirect pointer and all of the second;
\* the first behind the double indirect one; no bytes at the start, a write
\* that visits every block; and no bytes at an offset that makes the count of
\* the file's blocks wrap.
AllRequests == {Write(3, 3), Write(2, 6), Write(0, 0), Write(0, 15)}

=============================================================================
