------------------------------ MODULE MCKHeap ------------------------------
(* Small heaps for TLC.                                                     *)
EXTENDS KHeap

\* Sizes that are multiples of the header: every remainder can hold a header.
GranularSizes == {3, 6}

\* One word apart: a remainder of one word.
OddSizes == {1, 2}

=============================================================================
