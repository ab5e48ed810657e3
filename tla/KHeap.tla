------------------------------- MODULE KHeap -------------------------------
(***************************************************************************)
(* The kernel heap of lib/c/memory/kmalloc.c: a bump region [0, heap_used) *)
(* tiled by blocks, each starting with a header <<size, magic, is_free>>.  *)
(*                                                                         *)
(* Memory is modelled word by word (4 bytes), so that a header really is   *)
(* three words of the same memory the callers' payloads live in, and a     *)
(* header laid down too close to its neighbour really overwrites it.       *)
(* Addresses are offsets from heap_start; sizes are in words.              *)
(*                                                                         *)
(* kmalloc() is one call followed by one step per iteration of the scan in *)
(* find_free_block() and one final step; the kernel is single threaded, so *)
(* no other operation runs while `want' is not 0.                          *)
(***************************************************************************)
EXTENDS Integers

CONSTANTS
  HEAP_SIZE,            \* KMALLOC_HEAP_SIZE, in words
  Sizes,                \* the sizes callers ask for, in words
  Data,                 \* what callers store in the memory they hold
  KMALLOC_MAGIC, KMALLOC_FREED_MAGIC

ASSUME HeapAssumption == HEAP_SIZE \in Nat
ASSUME SizesAssumption == Sizes \subseteq Nat \ {0}
ASSUME DataAssumption == Data \subseteq Nat
ASSUME MagicAssumption ==
  /\ KMALLOC_MAGIC \in Nat /\ KMALLOC_MAGIC > HEAP_SIZE
  /\ KMALLOC_FREED_MAGIC \in Nat /\ KMALLOC_FREED_MAGIC > HEAP_SIZE
  /\ KMALLOC_MAGIC # KMALLOC_FREED_MAGIC

VARIABLES
  heap_start,   \* has kmalloc_init() run (heap_start # NULL)
  heap_used,    \* words handed out so far
  mem,          \* the heap, word by word
  want,         \* size of the kmalloc() call in progress, 0 if there is none
  ptr,          \* the scan pointer of find_free_block()
  live,         \* what callers hold: the pointers returned and not yet freed
  blocks        \* history: every address a header has been laid down at

vars == <<heap_start, heap_used, mem, want, ptr, live, blocks>>

BLOCK_HEADER_SIZE == 3

\* A header written at the last word of the region reaches HEAP_SIZE.
Addr == 0 .. HEAP_SIZE

size(b)    == mem[b]
magic(b)   == mem[b + 1]
is_free(b) == mem[b + 2]

Payload(l) == l.ptr .. (l.ptr + l.len - 1)

-----------------------------------------------------------------------------
(***************************************************************************)
(* Plausible mistakes, used only to check that the properties notice them. *)
(***************************************************************************)
FitsWithoutHeader(b, n) == is_free(b) # 0 /\ size(b) >= n
FitsEvenIfUsed(b, n) == size(b) >= n + BLOCK_HEADER_SIZE
SplitWithoutMagic(m, b, n) ==
  LET r == b + n + BLOCK_HEADER_SIZE
  IN  [m EXCEPT ![r] = m[b] - n - BLOCK_HEADER_SIZE, ![r + 2] = 1,
                ![b] = n + BLOCK_HEADER_SIZE]
SplitLeavesUsed(m, b, n) ==
  LET r == b + n + BLOCK_HEADER_SIZE
  IN  [m EXCEPT ![r] = m[b] - n - BLOCK_HEADER_SIZE, ![r + 1] = KMALLOC_MAGIC, ![r + 2] = 0,
                ![b] = n + BLOCK_HEADER_SIZE]
AdvanceOnlyIfFree(b) == IF is_free(b) # 0 THEN size(b) ELSE 0
RoomWithoutHeader(n) == heap_used + n < HEAP_SIZE

-----------------------------------------------------------------------------
(***************************************************************************)
(* Helpers.                                                                *)
(***************************************************************************)
ValidMagic(b) == magic(b) \in {KMALLOC_MAGIC, KMALLOC_FREED_MAGIC}

Fits(b, n) == is_free(b) # 0 /\ size(b) >= n + BLOCK_HEADER_SIZE

\* How far the scan moves past a block that does not fit.
Stride(b) == size(b)

\* Is there room for a block of n words at the end of the region?
HasRoom(n) == heap_used + n + BLOCK_HEADER_SIZE < HEAP_SIZE

\* The header of the remainder, then the shortened block.
split_block(m, b, n) ==
  LET r == b + n + BLOCK_HEADER_SIZE
  IN  [m EXCEPT ![r] = m[b] - n - BLOCK_HEADER_SIZE, ![r + 1] = KMALLOC_MAGIC,
                ![r + 2] = 1, ![b] = n + BLOCK_HEADER_SIZE]

Zero(m, p, n) == [a \in Addr |-> IF a \in p .. (p + n - 1) THEN 0 ELSE m[a]]

-----------------------------------------------------------------------------
Init ==
  /\ heap_start = FALSE
  /\ heap_used = 0
  /\ mem = [a \in Addr |-> 0]
  /\ want = 0
  /\ ptr = 0
  /\ live = {}
  /\ blocks = {}

\* process_init() calls it, twice, before anything is allocated.
kmalloc_init ==
  /\ want = 0 /\ blocks = {}
  /\ heap_start' = TRUE
  /\ heap_used' = 0
  /\ UNCHANGED <<mem, want, ptr, live, blocks>>

\* kmalloc(n) up to the call of find_free_block(); n = 0 returns at once.
kmalloc(n) ==
  /\ want = 0
  /\ want' = n
  /\ ptr' = 0
  /\ heap_start' = TRUE
  /\ heap_used' = IF heap_start THEN heap_used ELSE 0
  /\ UNCHANGED <<mem, live, blocks>>

Scanning == want # 0 /\ ptr < heap_used /\ ValidMagic(ptr)

\* One iteration of the loop of find_free_block().
find_free_block ==
  /\ Scanning /\ ~Fits(ptr, want)
  /\ ptr' = ptr + Stride(ptr)
  /\ UNCHANGED <<heap_start, heap_used, mem, want, live, blocks>>

Return(l) == live' = live \cup {l} /\ want' = 0 /\ ptr' = 0

\* find_free_block() found one: split it if it is larger, take it, zero it.
kmalloc_reuse ==
  LET total == want + BLOCK_HEADER_SIZE
      user  == ptr + BLOCK_HEADER_SIZE
      split == size(ptr) > total
      m     == IF split THEN split_block(mem, ptr, want) ELSE mem
  IN  /\ Scanning /\ Fits(ptr, want)
      /\ mem' = Zero([m EXCEPT ![ptr + 2] = 0], user, want)
      /\ blocks' = IF split THEN blocks \cup {ptr + total} ELSE blocks
      /\ Return([ptr |-> user, len |-> want])
      /\ UNCHANGED <<heap_start, heap_used>>

\* find_free_block() returned NULL: take the block from the heap's end.
kmalloc_extend ==
  LET total == want + BLOCK_HEADER_SIZE
      user  == heap_used + BLOCK_HEADER_SIZE
  IN  /\ want # 0 /\ ~Scanning
      /\ HasRoom(want)
      /\ mem' = Zero([mem EXCEPT ![heap_used] = total,
                                 ![heap_used + 1] = KMALLOC_MAGIC,
                                 ![heap_used + 2] = 0], user, want)
      /\ heap_used' = heap_used + total
      /\ blocks' = blocks \cup {heap_used}
      /\ Return([ptr |-> user, len |-> want])
      /\ UNCHANGED heap_start

\* ... or return NULL when the region is exhausted.
kmalloc_null ==
  /\ want # 0 /\ ~Scanning
  /\ ~HasRoom(want)
  /\ want' = 0 /\ ptr' = 0
  /\ UNCHANGED <<heap_start, heap_used, mem, live, blocks>>

\* kfree() of a pointer its caller holds; NULL returns at once.
kfree(l) ==
  LET b == l.ptr - BLOCK_HEADER_SIZE
  IN  /\ want = 0
      /\ live' = live \ {l}
      /\ mem' = IF magic(b) = KMALLOC_MAGIC /\ is_free(b) = 0
                THEN [mem EXCEPT ![b + 2] = 1, ![b + 1] = KMALLOC_FREED_MAGIC]
                ELSE mem
      /\ UNCHANGED <<heap_start, heap_used, want, ptr, blocks>>

\* A holder stores data in its own memory (process_exec copies a binary).
use(l, d) ==
  /\ want = 0
  /\ mem' = [a \in Addr |-> IF a \in Payload(l) THEN d ELSE mem[a]]
  /\ UNCHANGED <<heap_start, heap_used, want, ptr, live, blocks>>

Next ==
  \/ kmalloc_init
  \/ \E n \in Sizes : kmalloc(n)
  \/ find_free_block
  \/ kmalloc_reuse
  \/ kmalloc_extend
  \/ kmalloc_null
  \/ \E l \in live : kfree(l)
  \/ \E l \in live, d \in Data : use(l, d)

Spec == Init /\ [][Next]_vars

\* A call in progress is not preempted: the kernel has no interrupts.
FairSpec ==
  Spec /\ WF_vars(find_free_block \/ kmalloc_reuse \/ kmalloc_extend \/ kmalloc_null)

-----------------------------------------------------------------------------
(***************************************************************************)
(* Properties.                                                             *)
(***************************************************************************)
\* The memory image is words, the scan pointer and the region's end stay in
\* the region, callers hold ranges of it.
TypeOK ==
  /\ heap_start \in BOOLEAN
  /\ heap_used \in 0 .. HEAP_SIZE
  /\ mem \in [Addr -> Nat]
  /\ want \in Sizes \cup {0}
  /\ ptr \in Nat
  /\ live \subseteq [ptr : Addr, len : Sizes]
  /\ blocks \subseteq Addr

\* The scan of find_free_block() never meets a bad magic: the branch its
\* comment calls "Heap corruption" is not taken as long as callers stay
\* inside the memory they were given.
HeapWalkable == (want # 0 /\ ptr < heap_used) => ValidMagic(ptr)

\* No two callers hold overlapping memory, nor is a block's header inside
\* memory some caller holds (kmalloc, split_block, kfree in any order).
PayloadsDisjoint ==
  /\ \A k, l \in live : k # l => Payload(k) \cap Payload(l) = {}
  /\ \A l \in live, b \in blocks : {b, b + 1, b + 2} \cap Payload(l) = {}

\* The header in front of held memory still describes it: in use, and large
\* enough, so a later scan cannot hand the memory out again.
HeldIsInUse ==
  \A l \in live : LET b == l.ptr - BLOCK_HEADER_SIZE
                  IN  b \in blocks /\ is_free(b) = 0 /\ size(b) >= l.len + BLOCK_HEADER_SIZE

\* Allocating or freeing changes no word of memory another caller holds.
HeldIsStable ==
  [][(want # 0 \/ live' # live) =>
       \A l \in live : \A a \in Payload(l) : mem'[a] = mem[a]]_vars

\* Every kmalloc() call returns: the scan reaches the end of the region.
KmallocReturns == (want # 0) ~> (want = 0)

\* kfree() ("Free previously allocated memory") makes a block free again,
\* unless it was reused before: kmalloc() leaves KMALLOC_FREED_MAGIC in a
\* block it reuses, and the next kfree() takes it for one already freed.
LostOnlyIfReused ==
  \A b \in blocks : is_free(b) = 0 =>
    magic(b) = KMALLOC_FREED_MAGIC \/ \E l \in live : l.ptr = b + BLOCK_HEADER_SIZE

=============================================================================
