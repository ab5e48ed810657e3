---------------------------- MODULE KHeapProofs ----------------------------
(***************************************************************************)
(* Proofs about the kernel heap, for every heap size and every set of      *)
(* request sizes.  What the code leaves to its callers is stated by Roomy: *)
(* no split leaves a remainder too small for a header.  A behaviour that   *)
(* keeps it is sound; one that breaks it lays the remainder's header over  *)
(* the block behind it (run kheap_corrupt).  Callers that only ask for     *)
(* multiples of the header's size keep it (GranularIsRoomy).               *)
(***************************************************************************)
EXTENDS KHeap, TLAPS

\* The block find_free_block() is about to return is of the size asked for,
\* or what split_block() leaves of it holds a header.
Roomy ==
  Scanning /\ Fits(ptr, want) =>
    \/ size(ptr) = want + BLOCK_HEADER_SIZE
    \/ size(ptr) >= want + 2 * BLOCK_HEADER_SIZE

\* n is a whole number of headers.
Whole(n) == \E k \in Nat : n = 3 * k

\* Callers ask for whole numbers of headers.
Granular == \A n \in Sizes : Whole(n)

-----------------------------------------------------------------------------
(***************************************************************************)
(* The inductive invariant: `blocks' tiles [0, heap_used) exactly, every   *)
(* header is intact, the scan stands on a tile (or on the end), and every  *)
(* holder has a tile of its own that is marked in use.                     *)
(***************************************************************************)
HeaderOK(b) ==
  /\ size(b) >= 3
  /\ ValidMagic(b)
  /\ b + size(b) <= heap_used
  /\ b + size(b) = heap_used \/ b + size(b) \in blocks

Tiling ==
  /\ heap_start \/ heap_used = 0
  /\ heap_used = 0 \/ 0 \in blocks
  /\ \A b \in blocks : HeaderOK(b)
  /\ \A b, c \in blocks : b < c => b + size(b) <= c

ScanOK == want # 0 => heap_start /\ (ptr = heap_used \/ ptr \in blocks)

Held ==
  /\ HeldIsInUse
  /\ \A k, l \in live : k.ptr = l.ptr => k = l

IInv == TypeOK /\ Tiling /\ ScanOK /\ Held

-----------------------------------------------------------------------------
\* Two different blocks never touch the same word, and lie in the region.
LEMMA BlocksApart ==
  ASSUME IInv
  PROVE  /\ \A b \in blocks : b \in Nat /\ size(b) \in Nat /\ size(b) >= 3
                              /\ b + size(b) <= heap_used /\ heap_used <= HEAP_SIZE
         /\ \A b, c \in blocks : b # c => b + size(b) <= c \/ c + size(c) <= b
BY HeapAssumption DEF IInv, TypeOK, Tiling, HeaderOK, Addr, size

\* What holders have, word by word.
LEMMA HeldTypes ==
  ASSUME TypeOK
  PROVE  \A l \in live : l.ptr \in Nat /\ l.len \in Nat /\ l.ptr \in Addr /\ l.len \in Sizes
<1>1. \A l \in live : l.ptr \in Addr /\ l.len \in Sizes  BY DEF TypeOK
<1>2. \A n \in Sizes : n \in Nat  BY SizesAssumption
<1>3. \A a \in Addr : a \in Nat  BY HeapAssumption DEF Addr
<1> QED  BY <1>1, <1>2, <1>3

\* Held memory lies inside its block, behind the header.
LEMMA HeldInBlock ==
  ASSUME IInv, NEW l \in live
  PROVE  /\ l.ptr - 3 \in blocks /\ l.ptr \in Nat /\ l.len \in Nat
         /\ mem[l.ptr - 1] = 0
         /\ l.ptr + l.len <= l.ptr - 3 + size(l.ptr - 3)
         /\ size(l.ptr - 3) \in Nat
         /\ \A a \in Payload(l) : a \in Nat /\ l.ptr <= a /\ a < l.ptr + l.len /\ a \in Addr
<1>1. l.ptr \in Nat /\ l.len \in Nat  BY HeldTypes DEF IInv
<1>2. l.ptr - 3 \in blocks /\ is_free(l.ptr - 3) = 0 /\ size(l.ptr - 3) >= l.len + 3
  BY DEF IInv, Held, HeldIsInUse, BLOCK_HEADER_SIZE
<1>3. l.ptr - 3 + 2 = l.ptr - 1  BY <1>1
<1>4. /\ size(l.ptr - 3) \in Nat /\ l.ptr - 3 + size(l.ptr - 3) <= heap_used
      /\ heap_used <= HEAP_SIZE /\ heap_used \in Nat /\ HEAP_SIZE \in Nat
  BY <1>2, BlocksApart, HeapAssumption DEF IInv, TypeOK
<1>5. l.ptr + l.len <= l.ptr - 3 + size(l.ptr - 3)  BY <1>1, <1>2, <1>4
<1>6. \A a \in Payload(l) : a \in Nat /\ l.ptr <= a /\ a < l.ptr + l.len
  BY <1>1 DEF Payload
<1>7. \A a \in Payload(l) : a \in Addr  BY <1>1, <1>4, <1>5, <1>6 DEF Addr
<1> QED  BY <1>1, <1>2, <1>3, <1>4, <1>5, <1>6, <1>7 DEF is_free

-----------------------------------------------------------------------------
LEMMA InitIInv == Init => IInv
<1> SUFFICES ASSUME Init PROVE IInv  OBVIOUS
<1>1. TypeOK
  <2>1. heap_start \in BOOLEAN  BY DEF Init
  <2>2. heap_used \in 0 .. HEAP_SIZE /\ want \in Sizes \cup {0} /\ ptr \in Nat
    BY HeapAssumption DEF Init
  <2>3. mem \in [Addr -> Nat]  BY DEF Init
  <2>4. live \subseteq [ptr : Addr, len : Sizes] /\ blocks \subseteq Addr  BY DEF Init
  <2> QED  BY <2>1, <2>2, <2>3, <2>4 DEF TypeOK
<1>2. Tiling /\ ScanOK /\ Held  BY DEF Init, Tiling, ScanOK, Held, HeldIsInUse
<1> QED  BY <1>1, <1>2 DEF IInv

-----------------------------------------------------------------------------
\* Taking a free block, split or not: what the memory holds afterwards.
LEMMA ReuseMemory ==
  ASSUME Roomy, IInv, kmalloc_reuse
  PROVE  /\ want \in Sizes /\ want \in Nat /\ want >= 1
         /\ ptr \in blocks /\ is_free(ptr) # 0
         /\ size(ptr) >= want + 3
         /\ mem' \in [Addr -> Nat]
         /\ \A a \in Addr : (a < ptr \/ a >= ptr + size(ptr)) => mem'[a] = mem[a]
         /\ mem'[ptr] = want + 3 /\ mem'[ptr + 1] = mem[ptr + 1] /\ mem'[ptr + 2] = 0
         /\ \/ size(ptr) = want + 3 /\ blocks' = blocks
            \/ LET r == ptr + want + 3
               IN  /\ blocks' = blocks \cup {r}
                   /\ r \in Nat /\ r + 3 <= ptr + size(ptr) /\ r \in Addr
                   /\ mem'[r] = size(ptr) - (want + 3)
                   /\ mem'[r + 1] = KMALLOC_MAGIC /\ mem'[r + 2] = 1
<1>1. want \in Sizes /\ want # 0 /\ ptr \in blocks /\ is_free(ptr) # 0
      /\ size(ptr) >= want + 3
  BY DEF kmalloc_reuse, IInv, TypeOK, ScanOK, Scanning, Fits, BLOCK_HEADER_SIZE
<1>2. want \in Nat /\ want >= 1
  BY <1>1, SizesAssumption
<1>3. /\ ptr \in Nat /\ size(ptr) \in Nat
      /\ ptr + size(ptr) <= heap_used /\ heap_used \in Nat /\ heap_used <= HEAP_SIZE
      /\ HEAP_SIZE \in Nat /\ mem \in [Addr -> Nat] /\ size(ptr) = mem[ptr]
  BY <1>1, BlocksApart, HeapAssumption DEF IInv, TypeOK, Tiling, HeaderOK, size
<1> DEFINE r == ptr + want + 3
<1>4. KMALLOC_MAGIC \in Nat  BY MagicAssumption
<1>5. CASE size(ptr) > want + 3
  <2>1. size(ptr) - (want + 3) >= 3
    <3>1. Scanning /\ Fits(ptr, want)  BY DEF kmalloc_reuse
    <3>2. size(ptr) = want + 3 \/ size(ptr) >= want + 2 * 3
      BY <3>1 DEF Roomy, BLOCK_HEADER_SIZE
    <3> QED  BY <3>2, <1>2, <1>3, <1>5
  <2>2. r \in Nat /\ r + 3 <= ptr + size(ptr)  BY <1>2, <1>3, <2>1
  <2>3. {ptr, ptr + 1, ptr + 2, r, r + 1, r + 2} \subseteq Addr
    BY <1>2, <1>3, <2>2 DEF Addr
  <2>4. blocks' = blocks \cup {r}
    BY <1>5, <1>2, <1>3 DEF kmalloc_reuse, BLOCK_HEADER_SIZE
  <2> DEFINE m == [mem EXCEPT ![r] = mem[ptr] - want - 3, ![r + 1] = KMALLOC_MAGIC,
                              ![r + 2] = 1, ![ptr] = want + 3]
             m2 == [m EXCEPT ![ptr + 2] = 0]
  <2>5. mem' = Zero(m2, ptr + 3, want)
    BY <1>5, <1>2, <1>3 DEF kmalloc_reuse, BLOCK_HEADER_SIZE, split_block
  <2>6. m2 \in [Addr -> Nat]
    <3>1. mem[ptr] - want - 3 \in Nat /\ want + 3 \in Nat  BY <1>2, <1>3, <1>5
    <3>2. m \in [Addr -> Nat]  BY <3>1, <1>3, <1>4
    <3> QED  BY <3>2
  <2>7. /\ m2[ptr] = want + 3 /\ m2[ptr + 1] = mem[ptr + 1] /\ m2[ptr + 2] = 0
        /\ m2[r] = size(ptr) - (want + 3) /\ m2[r + 1] = KMALLOC_MAGIC
        /\ m2[r + 2] = 1
        /\ \A a \in Addr : (a < ptr \/ a >= ptr + size(ptr)) => m2[a] = mem[a]
    BY <1>2, <1>3, <2>2, <2>3
  <2> HIDE DEF m, m2
  <2>8. \A a \in Addr : mem'[a] = IF a \in (ptr + 3) .. (ptr + 3 + want - 1) THEN 0 ELSE m2[a]
    BY <2>5 DEF Zero
  <2>9. mem' \in [Addr -> Nat]  BY <2>5, <2>6 DEF Zero
  <2>10. \A a \in Addr : (a < ptr + 3 \/ a >= r) => mem'[a] = m2[a]
    BY <2>8, <1>2, <1>3 DEF Addr
  <2>11. \A a \in Addr : (a < ptr \/ a >= ptr + size(ptr)) => mem'[a] = mem[a]
    <3> SUFFICES ASSUME NEW a \in Addr, a < ptr \/ a >= ptr + size(ptr)
                 PROVE  mem'[a] = mem[a]
      OBVIOUS
    <3>1. a \in Nat  BY <1>3 DEF Addr
    <3>2. a < ptr + 3 \/ a >= r  BY <3>1, <1>2, <1>3, <2>2
    <3> QED  BY <3>2, <2>10, <2>7
  <2>12. /\ mem'[ptr] = want + 3 /\ mem'[ptr + 1] = mem[ptr + 1] /\ mem'[ptr + 2] = 0
         /\ mem'[r] = size(ptr) - (want + 3) /\ mem'[r + 1] = KMALLOC_MAGIC
         /\ mem'[r + 2] = 1
    BY <2>10, <2>7, <2>3, <1>2, <1>3, <2>2
  <2> QED  BY <1>1, <1>2, <2>1, <2>2, <2>3, <2>4, <2>9, <2>11, <2>12
<1>6. CASE size(ptr) = want + 3
  <2>1. {ptr, ptr + 1, ptr + 2} \subseteq Addr  BY <1>2, <1>3, <1>6 DEF Addr
  <2>2. blocks' = blocks /\ mem' = Zero([mem EXCEPT ![ptr + 2] = 0], ptr + 3, want)
    <3>1. ~(size(ptr) > want + 3)  BY <1>6, <1>2, <1>3
    <3> QED  BY <3>1 DEF kmalloc_reuse, BLOCK_HEADER_SIZE
  <2>3. mem' \in [Addr -> Nat]  BY <1>3, <2>2 DEF Zero
  <2>4. \A a \in Addr : mem'[a] = IF a \in (ptr + 3) .. (ptr + 3 + want - 1) THEN 0
                                   ELSE IF a = ptr + 2 THEN 0 ELSE mem[a]
    BY <2>2, <1>3 DEF Zero
  <2>5. \A a \in Addr : (a < ptr \/ a >= ptr + size(ptr)) => mem'[a] = mem[a]
    BY <2>4, <1>2, <1>3, <1>6 DEF Addr
  <2>6. mem'[ptr] = want + 3 /\ mem'[ptr + 1] = mem[ptr + 1] /\ mem'[ptr + 2] = 0
    <3>1. mem'[ptr] = mem[ptr]  BY <2>1, <2>4, <1>2, <1>3
    <3>2. mem'[ptr + 1] = mem[ptr + 1]  BY <2>1, <2>4, <1>2, <1>3
    <3>3. mem'[ptr + 2] = 0  BY <2>1, <2>4, <1>2, <1>3
    <3> QED  BY <3>1, <3>2, <3>3, <1>3, <1>6
  <2> QED  BY <1>1, <1>2, <1>6, <2>2, <2>3, <2>5, <2>6
<1> QED  BY <1>1, <1>2, <1>3, <1>5, <1>6

-----------------------------------------------------------------------------
\* A step that keeps every size and leaves valid magics keeps the tiling.
LEMMA FrameTiling ==
  ASSUME IInv, UNCHANGED <<heap_start, heap_used, blocks>>,
         \A b \in blocks : mem'[b] = mem[b] /\ mem'[b + 1] \in {KMALLOC_MAGIC, KMALLOC_FREED_MAGIC}
  PROVE  Tiling'
<1>1. (heap_start \/ heap_used = 0)' /\ (heap_used = 0 \/ 0 \in blocks)'
  BY DEF IInv, Tiling
<1>2. \A b \in blocks : HeaderOK(b)'
  BY DEF IInv, Tiling, HeaderOK, ValidMagic, magic, size
<1>3. \A b, c \in blocks : b < c => b + mem'[b] <= c
  BY DEF IInv, Tiling, size
<1> QED  BY <1>1, <1>2, <1>3 DEF Tiling, size

\* Taking a free block leaves the other headers alone.
LEMMA ReuseHeaders ==
  ASSUME Roomy, IInv, kmalloc_reuse, NEW b \in blocks, b # ptr
  PROVE  mem'[b] = mem[b] /\ mem'[b + 1] = mem[b + 1] /\ mem'[b + 2] = mem[b + 2]
<1>1. /\ ptr \in blocks
      /\ \A a \in Addr : (a < ptr \/ a >= ptr + size(ptr)) => mem'[a] = mem[a]
  BY ReuseMemory
<1>2. /\ b \in Nat /\ size(b) \in Nat /\ size(b) >= 3 /\ b + size(b) <= heap_used
      /\ ptr \in Nat /\ size(ptr) \in Nat
      /\ heap_used \in Nat /\ heap_used <= HEAP_SIZE /\ HEAP_SIZE \in Nat
      /\ b + size(b) <= ptr \/ ptr + size(ptr) <= b
  BY <1>1, BlocksApart, HeapAssumption DEF IInv, TypeOK
<1>3. \A a \in {b, b + 1, b + 2} : a \in Addr /\ (a < ptr \/ a >= ptr + size(ptr))
  BY <1>2 DEF Addr
<1> QED  BY <1>1, <1>3

LEMMA ReuseIInv ==
  ASSUME Roomy, IInv, kmalloc_reuse
  PROVE  IInv'
<1>0. PICK p \in Nat, r \in Nat, total \in Nat :
         p = ptr /\ r = ptr + want + 3 /\ total = want + 3 /\ r = p + total
  BY ReuseMemory DEF IInv, TypeOK
<1>1. /\ want \in Sizes /\ want \in Nat /\ want >= 1
      /\ p \in blocks /\ is_free(p) # 0
      /\ size(p) >= total
      /\ mem' \in [Addr -> Nat]
      /\ \A a \in Addr : (a < p \/ a >= p + size(p)) => mem'[a] = mem[a]
      /\ mem'[p] = total /\ mem'[p + 1] = mem[p + 1] /\ mem'[p + 2] = 0
  BY <1>0, ReuseMemory
<1>2. \/ size(p) = total /\ blocks' = blocks
      \/ /\ blocks' = blocks \cup {r}
         /\ r = p + total /\ r \in Nat /\ r + 3 <= p + size(p) /\ r \in Addr
         /\ mem'[r] = size(p) - total
         /\ mem'[r + 1] = KMALLOC_MAGIC
  BY <1>0, ReuseMemory
<1>3. /\ heap_used' = heap_used /\ heap_start' = heap_start
      /\ want' = 0 /\ ptr' = 0 /\ live' = live \cup {[ptr |-> p + 3, len |-> want]}
  BY <1>0 DEF kmalloc_reuse, Return, BLOCK_HEADER_SIZE
<1>4. /\ \A b \in blocks : b \in Nat /\ size(b) \in Nat /\ size(b) >= 3
                            /\ b + size(b) <= heap_used
      /\ heap_used \in Nat /\ heap_used <= HEAP_SIZE /\ HEAP_SIZE \in Nat
      /\ \A b, c \in blocks : b # c => b + size(b) <= c \/ c + size(c) <= b
  BY BlocksApart, HeapAssumption DEF IInv, TypeOK
<1>5. \A b \in blocks : b # p =>
         mem'[b] = mem[b] /\ mem'[b + 1] = mem[b + 1] /\ mem'[b + 2] = mem[b + 2]
  BY <1>0, ReuseHeaders
<1>6. TypeOK'
  <2>1. heap_start' \in BOOLEAN  BY <1>3 DEF IInv, TypeOK
  <2>2. heap_used' \in 0 .. HEAP_SIZE /\ want' \in Sizes \cup {0} /\ ptr' \in Nat
    BY <1>3 DEF IInv, TypeOK
  <2>3. [ptr |-> p + 3, len |-> want] \in [ptr : Addr, len : Sizes]
    <3>1. p + 3 \in Addr  BY <1>0, <1>1, <1>4 DEF Addr
    <3> QED  BY <3>1, <1>1
  <2>4. live' \subseteq [ptr : Addr, len : Sizes]  BY <2>3, <1>3 DEF IInv, TypeOK
  <2>5. blocks' \subseteq Addr  BY <1>2 DEF IInv, TypeOK
  <2> QED  BY <1>1, <2>1, <2>2, <2>4, <2>5 DEF TypeOK
<1>7. Tiling'
  <2>1. (heap_start \/ heap_used = 0)' /\ (heap_used = 0 \/ 0 \in blocks)'
    BY <1>2, <1>3 DEF IInv, Tiling
  <2>2. \A b \in blocks' : HeaderOK(b)'
    <3>1. ASSUME NEW b \in blocks, b # p PROVE HeaderOK(b)'
      BY <3>1, <1>2, <1>3, <1>5 DEF IInv, Tiling, HeaderOK, ValidMagic, magic, size
    <3>2. HeaderOK(p)'
      <4>1. HeaderOK(p)  BY <1>1 DEF IInv, Tiling
      <4>2. ValidMagic(p)'  BY <4>1, <1>1 DEF HeaderOK, ValidMagic, magic
      <4>3. mem'[p] >= 3 /\ p + mem'[p] <= heap_used
        BY <1>0, <1>1, <1>4
      <4>4. p + total = heap_used \/ p + total \in blocks'
        <5>1. CASE size(p) = total  BY <5>1, <4>1, <1>2 DEF HeaderOK
        <5>2. CASE blocks' = blocks \cup {r}
          <6>1. p + total = r  BY <1>0, <1>1, <1>4
          <6> QED  BY <5>2, <6>1
        <5> QED  BY <5>1, <5>2, <1>2
      <4> QED  BY <1>1, <1>3, <4>2, <4>3, <4>4 DEF HeaderOK, size
    <3>3. ASSUME blocks' # blocks PROVE HeaderOK(r)'
      <4>1. /\ blocks' = blocks \cup {r} /\ mem'[r] = size(p) - total
            /\ r \in Nat /\ r + 3 <= p + size(p)
            /\ mem'[r + 1] = KMALLOC_MAGIC
        BY <3>3, <1>2
      <4>2. ValidMagic(r)'  BY <4>1 DEF ValidMagic, magic
      <4>3. mem'[r] >= 3 /\ r + mem'[r] = p + size(p)  BY <4>1, <1>0, <1>1, <1>4
      <4>4. r + mem'[r] <= heap_used
            /\ (r + mem'[r] = heap_used \/ r + mem'[r] \in blocks)
        BY <4>3, <1>1 DEF IInv, Tiling, HeaderOK
      <4> QED  BY <1>3, <4>1, <4>2, <4>3, <4>4 DEF HeaderOK, size
    <3> QED  BY <3>1, <3>2, <3>3, <1>2
  <2>3. \A b, c \in blocks' : b < c => b + mem'[b] <= c
    <3> SUFFICES ASSUME NEW b \in blocks', NEW c \in blocks', b < c
                 PROVE  b + mem'[b] <= c
      OBVIOUS
    <3>1. CASE b \in blocks /\ c \in blocks
      <4>1. b + size(b) <= c  BY <3>1 DEF IInv, Tiling
      <4> QED  BY <3>1, <4>1, <1>0, <1>1, <1>4, <1>5 DEF size
    <3>2. CASE b \in blocks /\ c \notin blocks
      <4>1. c = r /\ r \in Nat /\ r + 3 <= p + size(p)  BY <3>2, <1>2
      <4>2. CASE b = p  BY <4>1, <4>2, <1>0, <1>1, <1>4
      <4>3. CASE b # p
        <5>1. b + size(b) <= p \/ p + size(p) <= b  BY <3>2, <4>3, <1>0, <1>1, <1>4
        <5>2. b + size(b) <= p  BY <5>1, <4>1, <3>2, <1>0, <1>1, <1>4
        <5>3. mem'[b] = size(b)  BY <4>3, <3>2, <1>5 DEF size
        <5> QED  BY <5>2, <5>3, <4>1, <3>2, <1>0, <1>1, <1>4
      <4> QED  BY <4>2, <4>3
    <3>3. CASE b \notin blocks /\ c \in blocks
      <4>1. /\ b = r /\ r \in Nat /\ r + 3 <= p + size(p)
            /\ mem'[r] = size(p) - total
        BY <3>3, <1>2
      <4>2. c # p  BY <4>1, <1>0, <1>1, <1>4
      <4>3. c + size(c) <= p \/ p + size(p) <= c  BY <3>3, <4>2, <1>0, <1>1, <1>4
      <4>4. p + size(p) <= c  BY <4>3, <4>1, <3>3, <1>0, <1>1, <1>4
      <4> QED  BY <4>1, <4>4, <3>3, <1>0, <1>1, <1>4
    <3>4. CASE b \notin blocks /\ c \notin blocks
      <4>1. b = r /\ c = r /\ r \in Nat  BY <3>4, <1>2
      <4> QED  BY <4>1
    <3> QED  BY <3>1, <3>2, <3>3, <3>4
  <2> QED  BY <2>1, <2>2, <2>3 DEF Tiling, size
<1>8. ScanOK'  BY <1>3 DEF ScanOK
<1>9. Held'
  <2>1. \A l \in live : /\ l.ptr - 3 \in blocks /\ mem[l.ptr - 3 + 2] = 0
                         /\ mem[l.ptr - 3] >= l.len + 3
    BY DEF IInv, Held, HeldIsInUse, is_free, size, BLOCK_HEADER_SIZE
  <2>2. \A l \in live : l.ptr \in Nat /\ l.len \in Nat
    BY HeldTypes DEF IInv
  <2>3. \A l \in live : l.ptr - 3 # p
    BY <2>1, <1>1 DEF is_free
  <2> DEFINE new == [ptr |-> p + 3, len |-> want]
  <2>4. \A l \in live : /\ l.ptr - 3 \in blocks' /\ mem'[l.ptr - 3 + 2] = 0
                         /\ mem'[l.ptr - 3] >= l.len + 3
    BY <2>1, <2>3, <1>2, <1>5
  <2>5. /\ new.ptr - 3 = p /\ new.len = want /\ p \in blocks'
        /\ mem'[p + 2] = 0 /\ mem'[p] >= want + 3
    BY <1>0, <1>1, <1>2, <1>4
  <2>6. HeldIsInUse'
    BY <2>4, <2>5, <1>3 DEF HeldIsInUse, is_free, size, BLOCK_HEADER_SIZE
  <2>7. \A l \in live : l.ptr # new.ptr  BY <2>2, <2>3, <2>5
  <2>8. \A k, l \in live' : k.ptr = l.ptr => k = l
    BY <2>7, <1>3 DEF IInv, Held
  <2> QED  BY <2>6, <2>8 DEF Held
<1> QED  BY <1>6, <1>7, <1>8, <1>9 DEF IInv

-----------------------------------------------------------------------------
\* A block from the end of the region: what the memory holds afterwards.
LEMMA ExtendMemory ==
  ASSUME IInv, kmalloc_extend
  PROVE  /\ want \in Sizes /\ want \in Nat /\ want >= 1
         /\ heap_used \in Nat /\ heap_used + want + 3 < HEAP_SIZE
         /\ mem' \in [Addr -> Nat]
         /\ \A a \in Addr : a < heap_used => mem'[a] = mem[a]
         /\ mem'[heap_used] = want + 3 /\ mem'[heap_used + 1] = KMALLOC_MAGIC
         /\ mem'[heap_used + 2] = 0
<1>1. want \in Sizes /\ heap_used \in Nat /\ mem \in [Addr -> Nat]
  BY DEF kmalloc_extend, IInv, TypeOK
<1>2. want \in Nat /\ want >= 1  BY <1>1, SizesAssumption
<1>3. HEAP_SIZE \in Nat /\ KMALLOC_MAGIC \in Nat  BY HeapAssumption, MagicAssumption
<1>4. heap_used + want + 3 < HEAP_SIZE
  BY <1>1, <1>2, <1>3 DEF kmalloc_extend, HasRoom, BLOCK_HEADER_SIZE
<1> DEFINE m == [mem EXCEPT ![heap_used] = want + 3, ![heap_used + 1] = KMALLOC_MAGIC,
                            ![heap_used + 2] = 0]
<1>5. mem' = Zero(m, heap_used + 3, want)
  BY DEF kmalloc_extend, BLOCK_HEADER_SIZE
<1>6. {heap_used, heap_used + 1, heap_used + 2} \subseteq Addr
  BY <1>1, <1>2, <1>3, <1>4 DEF Addr
<1>7. m \in [Addr -> Nat]
  <2>1. want + 3 \in Nat /\ 0 \in Nat  BY <1>2
  <2> QED  BY <2>1, <1>1, <1>3
<1>8. /\ m[heap_used] = want + 3 /\ m[heap_used + 1] = KMALLOC_MAGIC /\ m[heap_used + 2] = 0
      /\ \A a \in Addr : a < heap_used => m[a] = mem[a]
  BY <1>1, <1>6
<1> HIDE DEF m
<1>9. \A a \in Addr : a < heap_used + 3 => mem'[a] = m[a]
  BY <1>1, <1>2, <1>5 DEF Zero, Addr
<1>10. \A a \in Addr : a < heap_used => mem'[a] = mem[a]
  BY <1>1, <1>3, <1>8, <1>9 DEF Addr
<1>11. /\ mem'[heap_used] = want + 3 /\ mem'[heap_used + 1] = KMALLOC_MAGIC
       /\ mem'[heap_used + 2] = 0
  BY <1>1, <1>6, <1>8, <1>9
<1>12. mem' \in [Addr -> Nat]  BY <1>5, <1>7 DEF Zero
<1> QED  BY <1>1, <1>2, <1>4, <1>10, <1>11, <1>12

\* A new block at the end leaves the other headers alone.
LEMMA ExtendHeaders ==
  ASSUME IInv, kmalloc_extend, NEW b \in blocks
  PROVE  mem'[b] = mem[b] /\ mem'[b + 1] = mem[b + 1] /\ mem'[b + 2] = mem[b + 2]
<1>1. /\ b \in Nat /\ size(b) \in Nat /\ size(b) >= 3 /\ b + size(b) <= heap_used
      /\ heap_used \in Nat /\ heap_used <= HEAP_SIZE /\ HEAP_SIZE \in Nat
  BY BlocksApart, HeapAssumption DEF IInv, TypeOK
<1>2. \A a \in {b, b + 1, b + 2} : a \in Addr /\ a < heap_used
  BY <1>1 DEF Addr
<1> QED  BY <1>2, ExtendMemory

LEMMA ExtendIInv ==
  ASSUME IInv, kmalloc_extend
  PROVE  IInv'
<1>0. PICK h \in Nat, total \in Nat : h = heap_used /\ total = want + 3
  BY ExtendMemory
<1>1. /\ want \in Sizes /\ want \in Nat /\ want >= 1
      /\ h + total < HEAP_SIZE /\ HEAP_SIZE \in Nat
      /\ mem' \in [Addr -> Nat]
      /\ \A a \in Addr : a < h => mem'[a] = mem[a]
      /\ mem'[h] = total /\ mem'[h + 1] = KMALLOC_MAGIC /\ mem'[h + 2] = 0
  BY <1>0, ExtendMemory, HeapAssumption
<1>2. /\ heap_used' = h + total /\ heap_start' = heap_start /\ blocks' = blocks \cup {h}
      /\ want' = 0 /\ ptr' = 0 /\ live' = live \cup {[ptr |-> h + 3, len |-> want]}
  BY <1>0 DEF kmalloc_extend, Return, BLOCK_HEADER_SIZE
<1>3. \A b \in blocks : b \in Nat /\ size(b) \in Nat /\ size(b) >= 3 /\ b + size(b) <= h
  BY <1>0, BlocksApart
<1>4. \A b \in blocks :
         mem'[b] = mem[b] /\ mem'[b + 1] = mem[b + 1] /\ mem'[b + 2] = mem[b + 2]
  BY ExtendHeaders
<1>5. TypeOK'
  <2>1. heap_start' \in BOOLEAN  BY <1>2 DEF IInv, TypeOK
  <2>2. heap_used' \in 0 .. HEAP_SIZE /\ want' \in Sizes \cup {0} /\ ptr' \in Nat
    BY <1>0, <1>1, <1>2
  <2>3. [ptr |-> h + 3, len |-> want] \in [ptr : Addr, len : Sizes]
    <3>1. h + 3 \in Addr  BY <1>0, <1>1 DEF Addr
    <3> QED  BY <3>1, <1>1
  <2>4. live' \subseteq [ptr : Addr, len : Sizes]  BY <2>3, <1>2 DEF IInv, TypeOK
  <2>5. h \in Addr  BY <1>1 DEF Addr
  <2>6. blocks' \subseteq Addr  BY <2>5, <1>2 DEF IInv, TypeOK
  <2> QED  BY <1>1, <2>1, <2>2, <2>4, <2>6 DEF TypeOK
<1>6. Tiling'
  <2>1. heap_start'
    BY <1>2 DEF kmalloc_extend, IInv, ScanOK
  <2>2. (heap_used = 0 \/ 0 \in blocks)'
    BY <1>0, <1>2 DEF IInv, Tiling
  <2>3. \A b \in blocks' : HeaderOK(b)'
    <3>1. ASSUME NEW b \in blocks PROVE HeaderOK(b)'
      <4>1. HeaderOK(b)  BY DEF IInv, Tiling
      <4>2. ValidMagic(b)'  BY <4>1, <1>4 DEF HeaderOK, ValidMagic, magic
      <4>3. b + mem'[b] <= h + total  BY <1>0, <1>1, <1>3, <1>4 DEF size
      <4>4. b + mem'[b] \in blocks'  BY <4>1, <1>0, <1>2, <1>4 DEF HeaderOK, size
      <4> QED  BY <4>1, <4>2, <4>3, <4>4, <1>2, <1>4 DEF HeaderOK, size
    <3>2. HeaderOK(h)'
      <4>1. ValidMagic(h)'  BY <1>1 DEF ValidMagic, magic
      <4>2. mem'[h] >= 3 /\ h + mem'[h] = h + total  BY <1>0, <1>1
      <4> QED  BY <4>1, <4>2, <1>1, <1>2 DEF HeaderOK, size
    <3> QED  BY <3>1, <3>2, <1>2
  <2>4. \A b, c \in blocks' : b < c => b + mem'[b] <= c
    <3> SUFFICES ASSUME NEW b \in blocks', NEW c \in blocks', b < c
                 PROVE  b + mem'[b] <= c
      OBVIOUS
    <3>1. CASE b \in blocks /\ c \in blocks
      <4>1. b + size(b) <= c  BY <3>1 DEF IInv, Tiling
      <4> QED  BY <3>1, <4>1, <1>4 DEF size
    <3>2. CASE b \in blocks /\ c = h  BY <3>2, <1>3, <1>4 DEF size
    <3>3. CASE b = h
      <4>1. c = h \/ c \in blocks  BY <1>2
      <4> QED  BY <4>1, <3>3, <1>3
    <3> QED  BY <3>1, <3>2, <3>3, <1>2
  <2> QED  BY <2>1, <2>2, <2>3, <2>4 DEF Tiling, size
<1>7. ScanOK'  BY <1>2 DEF ScanOK
<1>8. Held'
  <2> DEFINE new == [ptr |-> h + 3, len |-> want]
  <2>1. \A l \in live : /\ l.ptr - 3 \in blocks /\ mem[l.ptr - 3 + 2] = 0
                         /\ mem[l.ptr - 3] >= l.len + 3
    BY DEF IInv, Held, HeldIsInUse, is_free, size, BLOCK_HEADER_SIZE
  <2>2. \A l \in live : l.ptr \in Nat /\ l.ptr - 3 # h
    BY <2>1, <1>3, HeldTypes DEF IInv
  <2>3. \A l \in live : /\ l.ptr - 3 \in blocks' /\ mem'[l.ptr - 3 + 2] = 0
                         /\ mem'[l.ptr - 3] >= l.len + 3
    BY <2>1, <1>2, <1>4
  <2>4. /\ new.ptr - 3 = h /\ new.len = want /\ h \in blocks'
        /\ mem'[h + 2] = 0 /\ mem'[h] >= want + 3
    BY <1>0, <1>1, <1>2
  <2>5. HeldIsInUse'
    BY <2>3, <2>4, <1>2 DEF HeldIsInUse, is_free, size, BLOCK_HEADER_SIZE
  <2>6. \A l \in live : l.ptr # new.ptr  BY <2>2, <2>4
  <2>7. \A k, l \in live' : k.ptr = l.ptr => k = l
    BY <2>6, <1>2 DEF IInv, Held
  <2> QED  BY <2>5, <2>7 DEF Held
<1> QED  BY <1>5, <1>6, <1>7, <1>8 DEF IInv

-----------------------------------------------------------------------------
\* kfree() writes two words of the freed block's header.
LEMMA KfreeMemory ==
  ASSUME IInv, NEW l \in live, kfree(l)
  PROVE  /\ mem' \in [Addr -> Nat]
         /\ \A b \in blocks : mem'[b] = mem[b]
         /\ \A b \in blocks : mem'[b + 1] \in {KMALLOC_MAGIC, KMALLOC_FREED_MAGIC}
         /\ \A b \in blocks : b # l.ptr - 3 => mem'[b + 2] = mem[b + 2]
         /\ \A a \in Addr : a # l.ptr - 2 /\ a # l.ptr - 1 => mem'[a] = mem[a]
<1>0. PICK f \in Nat : f = l.ptr - 3 /\ f \in blocks
  BY HeldInBlock, BlocksApart
<1>1. \/ mem' = mem
      \/ mem' = [mem EXCEPT ![f + 2] = 1, ![f + 1] = KMALLOC_FREED_MAGIC]
  BY <1>0 DEF kfree, BLOCK_HEADER_SIZE
<1>2. mem \in [Addr -> Nat] /\ HEAP_SIZE \in Nat /\ KMALLOC_FREED_MAGIC \in Nat
  BY HeapAssumption, MagicAssumption DEF IInv, TypeOK
<1>3. mem' \in [Addr -> Nat]  BY <1>1, <1>2
<1>4. \A a \in Addr : a # f + 1 /\ a # f + 2 => mem'[a] = mem[a]  BY <1>1, <1>2
<1>5. \A b \in blocks : /\ b \in Nat /\ {b, b + 1, b + 2} \subseteq Addr
                        /\ b # f + 1 /\ b # f + 2
                        /\ b # f => b + 1 # f + 2 /\ b + 2 # f + 1 /\ b + 2 # f + 2
                                    /\ b + 1 # f + 1
  <2> SUFFICES ASSUME NEW b \in blocks
               PROVE  /\ b \in Nat /\ {b, b + 1, b + 2} \subseteq Addr
                      /\ b # f + 1 /\ b # f + 2
                      /\ b # f => b + 1 # f + 2 /\ b + 2 # f + 1 /\ b + 2 # f + 2
                                  /\ b + 1 # f + 1
    OBVIOUS
  <2>1. /\ b \in Nat /\ size(b) \in Nat /\ size(b) >= 3 /\ b + size(b) <= heap_used
        /\ f \in Nat /\ size(f) \in Nat /\ size(f) >= 3 /\ heap_used <= HEAP_SIZE
        /\ heap_used \in Nat
        /\ b # f => b + size(b) <= f \/ f + size(f) <= b
    BY <1>0, BlocksApart DEF IInv, TypeOK
  <2>2. {b, b + 1, b + 2} \subseteq 0 .. HEAP_SIZE  BY <2>1, HeapAssumption
  <2>3. /\ b # f + 1 /\ b # f + 2
        /\ b # f => b + 1 # f + 2 /\ b + 2 # f + 1 /\ b + 2 # f + 2 /\ b + 1 # f + 1
    BY <2>1
  <2> QED  BY <2>1, <2>2, <2>3 DEF Addr
<1>6. \A b \in blocks : mem'[b] = mem[b]  BY <1>4, <1>5
<1>7. \A b \in blocks : mem'[b + 1] \in {KMALLOC_MAGIC, KMALLOC_FREED_MAGIC}
  <2> SUFFICES ASSUME NEW b \in blocks
               PROVE  mem'[b + 1] \in {KMALLOC_MAGIC, KMALLOC_FREED_MAGIC}
    OBVIOUS
  <2>1. mem[b + 1] \in {KMALLOC_MAGIC, KMALLOC_FREED_MAGIC}
    BY DEF IInv, Tiling, HeaderOK, ValidMagic, magic
  <2>2. b + 1 \in Addr  BY <1>5
  <2>3. mem'[b + 1] = mem[b + 1] \/ mem'[b + 1] = KMALLOC_FREED_MAGIC
    BY <2>2, <1>0, <1>1, <1>2, <1>5
  <2> QED  BY <2>1, <2>3
<1>8. \A b \in blocks : b # f => mem'[b + 2] = mem[b + 2]  BY <1>4, <1>5
<1>9. f + 1 = l.ptr - 2 /\ f + 2 = l.ptr - 1
  BY <1>0, HeldInBlock
<1> QED  BY <1>0, <1>3, <1>4, <1>6, <1>7, <1>8, <1>9

LEMMA KfreeIInv ==
  ASSUME IInv, NEW l \in live, kfree(l)
  PROVE  IInv'
<1>1. UNCHANGED <<heap_start, heap_used, want, ptr, blocks>> /\ live' = live \ {l}
  BY DEF kfree
<1>2. TypeOK'
  <2>1. mem' \in [Addr -> Nat]  BY KfreeMemory
  <2>2. live' \subseteq [ptr : Addr, len : Sizes]  BY <1>1 DEF IInv, TypeOK
  <2> QED  BY <1>1, <2>1, <2>2 DEF IInv, TypeOK
<1>3. Tiling'  BY <1>1, KfreeMemory, FrameTiling
<1>4. ScanOK'  BY <1>1 DEF IInv, ScanOK
<1>5. Held'
  <2>1. \A k \in live' : /\ k.ptr - 3 \in blocks /\ mem'[k.ptr - 3 + 2] = 0
                          /\ mem'[k.ptr - 3] >= k.len + 3
    <3> SUFFICES ASSUME NEW k \in live'
                 PROVE  /\ k.ptr - 3 \in blocks /\ mem'[k.ptr - 3 + 2] = 0
                        /\ mem'[k.ptr - 3] >= k.len + 3
      OBVIOUS
    <3>1. k \in live /\ k # l  BY <1>1
    <3>2. k.ptr # l.ptr  BY <3>1 DEF IInv, Held
    <3>3. k.ptr - 3 # l.ptr - 3  BY <3>1, <3>2, HeldTypes DEF IInv
    <3>4. /\ k.ptr - 3 \in blocks /\ mem[k.ptr - 3 + 2] = 0
          /\ mem[k.ptr - 3] >= k.len + 3
      BY <3>1 DEF IInv, Held, HeldIsInUse, is_free, size, BLOCK_HEADER_SIZE
    <3> QED  BY <3>3, <3>4, KfreeMemory
  <2>2. HeldIsInUse'
    BY <2>1, <1>1 DEF HeldIsInUse, is_free, size, BLOCK_HEADER_SIZE
  <2>3. \A j, k \in live' : j.ptr = k.ptr => j = k  BY <1>1 DEF IInv, Held
  <2> QED  BY <2>2, <2>3 DEF Held
<1> QED  BY <1>2, <1>3, <1>4, <1>5 DEF IInv

-----------------------------------------------------------------------------
\* No word of a header lies in held memory.
LEMMA HeadersOutside ==
  ASSUME IInv, NEW l \in live, NEW b \in blocks
  PROVE  /\ b \in Addr /\ b + 1 \in Addr /\ b + 2 \in Addr
         /\ b \notin Payload(l) /\ b + 1 \notin Payload(l) /\ b + 2 \notin Payload(l)
<1>0. PICK f \in Nat : f = l.ptr - 3 /\ f \in blocks
  BY HeldInBlock, BlocksApart
<1>1. /\ b \in Nat /\ size(b) \in Nat /\ size(b) >= 3 /\ b + size(b) <= heap_used
      /\ size(f) \in Nat /\ heap_used <= HEAP_SIZE /\ heap_used \in Nat /\ HEAP_SIZE \in Nat
      /\ b # f => b + size(b) <= f \/ f + size(f) <= b
  BY <1>0, BlocksApart, HeapAssumption DEF IInv, TypeOK
<1>2. l.ptr \in Nat /\ l.len \in Nat /\ l.ptr + l.len <= f + size(f)
  BY <1>0, HeldInBlock
<1> QED  BY <1>0, <1>1, <1>2 DEF Addr, Payload

LEMMA UseIInv ==
  ASSUME IInv, NEW l \in live, NEW d \in Data, use(l, d)
  PROVE  IInv'
<1>1. UNCHANGED <<heap_start, heap_used, want, ptr, live, blocks>>  BY DEF use
<1>2. mem' = [a \in Addr |-> IF a \in Payload(l) THEN d ELSE mem[a]]  BY DEF use
<1>3. d \in Nat  BY DataAssumption
<1>4. mem' \in [Addr -> Nat]  BY <1>2, <1>3 DEF IInv, TypeOK
<1>5. \A b \in blocks : mem'[b] = mem[b] /\ mem'[b + 1] = mem[b + 1] /\ mem'[b + 2] = mem[b + 2]
  BY <1>2, HeadersOutside
<1>6. TypeOK'  BY <1>1, <1>4 DEF IInv, TypeOK
<1>7. Tiling'
  <2>1. \A b \in blocks : mem[b + 1] \in {KMALLOC_MAGIC, KMALLOC_FREED_MAGIC}
    BY DEF IInv, Tiling, HeaderOK, ValidMagic, magic
  <2> QED  BY <1>1, <1>5, <2>1, FrameTiling
<1>8. ScanOK'  BY <1>1 DEF IInv, ScanOK
<1>9. Held'
  BY <1>1, <1>5 DEF IInv, Held, HeldIsInUse, is_free, size, BLOCK_HEADER_SIZE
<1> QED  BY <1>6, <1>7, <1>8, <1>9 DEF IInv

-----------------------------------------------------------------------------
\* The steps that write no memory: calls, scan iterations, a NULL return.
LEMMA QuietIInv ==
  ASSUME IInv,
         \/ kmalloc_init \/ (\E n \in Sizes : kmalloc(n)) \/ find_free_block
         \/ kmalloc_null \/ UNCHANGED vars
  PROVE  IInv'
<1>1. heap_used \in Nat /\ ptr \in Nat /\ mem \in [Addr -> Nat] /\ heap_start \in BOOLEAN
  BY HeapAssumption DEF IInv, TypeOK
<1>2. mem' = mem /\ live' = live /\ blocks' = blocks
  BY DEF kmalloc_init, kmalloc, find_free_block, kmalloc_null, vars
<1>3. heap_used' = heap_used
  <2>1. CASE kmalloc_init  BY <2>1, <1>1 DEF kmalloc_init, IInv, Tiling
  <2>2. CASE \E n \in Sizes : kmalloc(n)  BY <2>2, <1>1 DEF kmalloc, IInv, Tiling
  <2> QED  BY <2>1, <2>2 DEF find_free_block, kmalloc_null, vars
<1>4. heap_start' = heap_start \/ heap_start' = TRUE
  BY DEF kmalloc_init, kmalloc, find_free_block, kmalloc_null, vars
<1>5. ScanOK' /\ ptr' \in Nat
  <2>1. CASE kmalloc_init  BY <2>1, <1>1 DEF kmalloc_init, ScanOK
  <2>2. CASE \E n \in Sizes : kmalloc(n)
    BY <2>2, <1>1, <1>2, <1>3 DEF kmalloc, IInv, Tiling, ScanOK
  <2>3. CASE find_free_block
    <3>1. ptr \in blocks /\ ptr < heap_used
      BY <2>3, <1>1 DEF find_free_block, Scanning, IInv, ScanOK
    <3>2. size(ptr) \in Nat /\ (ptr + size(ptr) = heap_used \/ ptr + size(ptr) \in blocks)
      BY <3>1, BlocksApart DEF IInv, Tiling, HeaderOK
    <3> QED  BY <2>3, <1>1, <1>2, <1>3, <3>2 DEF find_free_block, Stride, IInv, ScanOK, Scanning
  <2>4. CASE kmalloc_null  BY <2>4 DEF kmalloc_null, ScanOK
  <2>5. CASE UNCHANGED vars  BY <2>5, <1>1 DEF vars, IInv, ScanOK
  <2> QED  BY <2>1, <2>2, <2>3, <2>4, <2>5
<1>6. want' \in Sizes \cup {0}
  BY DEF kmalloc_init, kmalloc, find_free_block, kmalloc_null, vars, IInv, TypeOK
<1>7. TypeOK'
  <2>1. heap_start' \in BOOLEAN  BY <1>1, <1>4
  <2> QED  BY <2>1, <1>2, <1>3, <1>5, <1>6 DEF IInv, TypeOK
<1>8. Tiling'
  BY <1>2, <1>3, <1>4 DEF IInv, Tiling, HeaderOK, ValidMagic, magic, size
<1>9. Held'  BY <1>2 DEF IInv, Held, HeldIsInUse, is_free, size
<1> QED  BY <1>5, <1>7, <1>8, <1>9 DEF IInv

LEMMA NextIInv ==
  ASSUME IInv, Roomy, [Next]_vars
  PROVE  IInv'
<1>1. CASE kmalloc_init \/ (\E n \in Sizes : kmalloc(n)) \/ find_free_block
           \/ kmalloc_null \/ UNCHANGED vars
  BY <1>1, QuietIInv
<1>2. CASE kmalloc_reuse  BY <1>2, ReuseIInv
<1>3. CASE kmalloc_extend  BY <1>3, ExtendIInv
<1>4. CASE \E l \in live : kfree(l)  BY <1>4, KfreeIInv
<1>5. CASE \E l \in live, d \in Data : use(l, d)  BY <1>5, UseIInv
<1> QED  BY <1>1, <1>2, <1>3, <1>4, <1>5 DEF Next

\* The tiling, the scan and the holders' blocks survive every sequence of
\* kmalloc(), kfree() and stores into held memory, for every heap size and
\* every request, as long as no split leaves less than a header.
THEOREM Inductive == Spec /\ []Roomy => []IInv
<1>1. Init => IInv  BY InitIInv
<1>2. IInv /\ Roomy /\ [Next]_vars => IInv'  BY NextIInv
<1> QED  BY <1>1, <1>2, PTL DEF Spec

-----------------------------------------------------------------------------
\* The heap's state stays well typed: no header word leaves the region.
THEOREM HeapTypeOK == Spec /\ []Roomy => []TypeOK
<1>1. IInv => TypeOK  BY DEF IInv
<1> QED  BY <1>1, Inductive, PTL

\* find_free_block() never takes its "Heap corruption" return.
THEOREM HeapIsWalkable == Spec /\ []Roomy => []HeapWalkable
<1>1. IInv => HeapWalkable
  BY DEF IInv, TypeOK, ScanOK, Tiling, HeaderOK, HeapWalkable
<1> QED  BY <1>1, Inductive, PTL

\* Memory kmalloc() returned stays marked in use until its holder frees it.
THEOREM HeldStaysInUse == Spec /\ []Roomy => []HeldIsInUse
<1>1. IInv => HeldIsInUse  BY DEF IInv, Held
<1> QED  BY <1>1, Inductive, PTL

\* Two callers of kmalloc() never share a word, nor does one share a word
\* with a header.
THEOREM HeldAreDisjoint == Spec /\ []Roomy => []PayloadsDisjoint
<1>1. IInv => PayloadsDisjoint
  <2> SUFFICES ASSUME IInv PROVE PayloadsDisjoint  OBVIOUS
  <2>1. ASSUME NEW k \in live, NEW l \in live, k # l
        PROVE  Payload(k) \cap Payload(l) = {}
    <3>0. PICK f \in Nat, g \in Nat : /\ f = k.ptr - 3 /\ g = l.ptr - 3
                                      /\ f \in blocks /\ g \in blocks
      BY HeldInBlock, BlocksApart
    <3>1. k.ptr # l.ptr  BY <2>1 DEF IInv, Held
    <3>2. /\ k.ptr \in Nat /\ k.ptr + k.len <= f + size(f) /\ k.len \in Nat
          /\ l.ptr \in Nat /\ l.ptr + l.len <= g + size(g) /\ l.len \in Nat
      BY <3>0, HeldInBlock
    <3>3. f # g  BY <3>0, <3>1, <3>2
    <3>4. (f + size(f) <= g \/ g + size(g) <= f) /\ size(f) \in Nat /\ size(g) \in Nat
      BY <3>0, <3>3, BlocksApart
    <3> QED  BY <3>0, <3>2, <3>4 DEF Payload
  <2>2. ASSUME NEW l \in live, NEW b \in blocks
        PROVE  {b, b + 1, b + 2} \cap Payload(l) = {}
    BY HeadersOutside
  <2> QED  BY <2>1, <2>2 DEF PayloadsDisjoint
<1> QED  BY <1>1, Inductive, PTL

\* kmalloc() and kfree() leave alone every word another caller holds.
THEOREM HeldKeepsItsData == Spec /\ []Roomy => HeldIsStable
<1> DEFINE Stable == (want # 0 \/ live' # live) =>
                       \A l \in live : \A a \in Payload(l) : mem'[a] = mem[a]
<1>1. IInv /\ Roomy /\ [Next]_vars => [Stable]_vars
  <2> SUFFICES ASSUME IInv, Roomy, Next PROVE Stable  OBVIOUS
  <2>1. CASE kmalloc_init \/ (\E n \in Sizes : kmalloc(n)) \/ find_free_block \/ kmalloc_null
    BY <2>1 DEF kmalloc_init, kmalloc, find_free_block, kmalloc_null
  <2>2. CASE kmalloc_reuse
    <3> SUFFICES ASSUME NEW l \in live, NEW a \in Payload(l) PROVE mem'[a] = mem[a]
      OBVIOUS
    <3>0. PICK f \in Nat, p \in Nat : /\ f = l.ptr - 3 /\ p = ptr
                                      /\ f \in blocks /\ p \in blocks
      BY <2>2, HeldInBlock, BlocksApart, ReuseMemory
    <3>1. /\ l.ptr \in Nat /\ l.ptr + l.len <= f + size(f) /\ l.len \in Nat
          /\ a \in Nat /\ l.ptr <= a /\ a < l.ptr + l.len /\ a \in Addr
          /\ mem[l.ptr - 1] = 0
      BY <3>0, HeldInBlock
    <3>2. mem[p + 2] # 0  BY <2>2, <3>0, ReuseMemory DEF is_free
    <3>3. f # p
      <4>1. f + 2 = l.ptr - 1  BY <3>0, <3>1
      <4> QED  BY <4>1, <3>1, <3>2
    <3>4. (f + size(f) <= p \/ p + size(p) <= f) /\ size(f) \in Nat /\ size(p) \in Nat
      BY <3>0, <3>3, BlocksApart
    <3>5. a < p \/ a >= p + size(p)  BY <3>0, <3>1, <3>4
    <3> QED  BY <3>5, <3>1, <3>0, <2>2, ReuseMemory
  <2>3. CASE kmalloc_extend
    <3> SUFFICES ASSUME NEW l \in live, NEW a \in Payload(l) PROVE mem'[a] = mem[a]
      OBVIOUS
    <3>0. PICK f \in Nat : f = l.ptr - 3 /\ f \in blocks
      BY HeldInBlock, BlocksApart
    <3>1. /\ a \in Nat /\ a < f + size(f) /\ a \in Addr /\ size(f) \in Nat
      <4>1. /\ l.ptr \in Nat /\ l.len \in Nat /\ l.ptr + l.len <= f + size(f)
            /\ a \in Nat /\ a < l.ptr + l.len /\ a \in Addr /\ size(f) \in Nat
        BY <3>0, HeldInBlock
      <4> QED  BY <4>1
    <3>2. f + size(f) <= heap_used /\ heap_used \in Nat
      BY <3>0, BlocksApart DEF IInv, TypeOK
    <3>3. a < heap_used  BY <3>1, <3>2
    <3> QED  BY <3>1, <3>3, <2>3, ExtendMemory
  <2>4. CASE \E l \in live : kfree(l)
    <3> SUFFICES ASSUME NEW k \in live, kfree(k), NEW l \in live, NEW a \in Payload(l)
                 PROVE  mem'[a] = mem[a]
      BY <2>4
    <3>0. PICK f \in Nat : f = k.ptr - 3 /\ f \in blocks
      BY HeldInBlock, BlocksApart
    <3>1. a # f + 1 /\ a # f + 2  BY <3>0, HeadersOutside
    <3>2. f + 1 = k.ptr - 2 /\ f + 2 = k.ptr - 1 /\ a \in Addr  BY <3>0, HeldInBlock
    <3> QED  BY <3>1, <3>2, KfreeMemory
  <2>5. CASE \E l \in live, d \in Data : use(l, d)
    BY <2>5 DEF use
  <2> QED  BY <2>1, <2>2, <2>3, <2>4, <2>5 DEF Next
<1> QED  BY <1>1, Inductive, PTL DEF Spec, HeldIsStable

\* kfree() loses only memory that was reused before it: a block marked in use
\* that nobody holds carries KMALLOC_FREED_MAGIC.
THEOREM OnlyReusedIsLost == Spec /\ []Roomy => []LostOnlyIfReused
<1>1. Init => LostOnlyIfReused  BY DEF Init, LostOnlyIfReused
<1>2. IInv /\ Roomy /\ LostOnlyIfReused /\ [Next]_vars => LostOnlyIfReused'
  <2> SUFFICES ASSUME IInv, Roomy, LostOnlyIfReused, [Next]_vars, NEW b \in blocks', mem'[b + 2] = 0
               PROVE  \/ mem'[b + 1] = KMALLOC_FREED_MAGIC
                      \/ \E l \in live' : l.ptr = b + 3
    BY DEF LostOnlyIfReused, is_free, magic, BLOCK_HEADER_SIZE
  <2>1. ASSUME b \in blocks, mem[b + 2] = 0
        PROVE  mem[b + 1] = KMALLOC_FREED_MAGIC \/ \E l \in live : l.ptr = b + 3
    BY <2>1 DEF LostOnlyIfReused, is_free, magic, BLOCK_HEADER_SIZE
  <2>2. CASE kmalloc_init \/ (\E n \in Sizes : kmalloc(n)) \/ find_free_block
             \/ kmalloc_null \/ UNCHANGED vars
    <3>1. mem' = mem /\ live' = live /\ blocks' = blocks
      BY <2>2 DEF kmalloc_init, kmalloc, find_free_block, kmalloc_null, vars
    <3> QED  BY <3>1, <2>1
  <2>3. CASE kmalloc_reuse
    <3>1. live' = live \cup {[ptr |-> ptr + 3, len |-> want]}
      BY <2>3 DEF kmalloc_reuse, Return, BLOCK_HEADER_SIZE
    <3>2. \/ blocks' = blocks
          \/ blocks' = blocks \cup {ptr + want + 3} /\ mem'[ptr + want + 3 + 2] = 1
      BY <2>3, ReuseMemory
    <3>3. b \in blocks  BY <3>2
    <3>4. CASE b = ptr
      <4>1. [ptr |-> ptr + 3, len |-> want].ptr = b + 3  BY <3>4
      <4> QED  BY <4>1, <3>1
    <3>5. CASE b # ptr
      <4>1. mem'[b + 1] = mem[b + 1] /\ mem'[b + 2] = mem[b + 2]
        BY <3>3, <3>5, <2>3, ReuseHeaders
      <4> QED  BY <4>1, <3>1, <3>3, <2>1
    <3> QED  BY <3>4, <3>5
  <2>4. CASE kmalloc_extend
    <3>1. /\ live' = live \cup {[ptr |-> heap_used + 3, len |-> want]}
          /\ blocks' = blocks \cup {heap_used}
      BY <2>4 DEF kmalloc_extend, Return, BLOCK_HEADER_SIZE
    <3>2. CASE b = heap_used
      <4>1. [ptr |-> heap_used + 3, len |-> want].ptr = b + 3  BY <3>2
      <4> QED  BY <4>1, <3>1
    <3>3. CASE b # heap_used
      <4>1. b \in blocks  BY <3>1, <3>3
      <4>2. mem'[b + 1] = mem[b + 1] /\ mem'[b + 2] = mem[b + 2]
        BY <4>1, <2>4, ExtendHeaders
      <4> QED  BY <4>1, <4>2, <3>1, <2>1
    <3> QED  BY <3>2, <3>3
  <2>5. CASE \E l \in live : kfree(l)
    <3>1. PICK l \in live : kfree(l)  BY <2>5
    <3>2. blocks' = blocks /\ live' = live \ {l}  BY <3>1 DEF kfree
    <3>3. PICK f \in Nat : f = l.ptr - 3 /\ f \in blocks
      BY HeldInBlock, BlocksApart
    <3>4. /\ {b, b + 1, b + 2} \subseteq Addr /\ b \in Nat
          /\ {f + 1, f + 2} \subseteq Addr /\ l.ptr \in Nat
      BY <3>2, <3>3, HeadersOutside, BlocksApart, HeldInBlock
    <3>5. CASE b = f
      <4>1. mem[b + 2] = 0 /\ mem[b + 1] \in {KMALLOC_MAGIC, KMALLOC_FREED_MAGIC}
        <5>1. HeaderOK(b)  BY <3>3, <3>5 DEF IInv, Tiling
        <5>2. is_free(l.ptr - 3) = 0  BY DEF IInv, Held, HeldIsInUse, BLOCK_HEADER_SIZE
        <5> QED  BY <5>1, <5>2, <3>3, <3>5 DEF HeaderOK, ValidMagic, magic, is_free
      <4>2. CASE mem[b + 1] = KMALLOC_MAGIC
        <5>1. mem' = [mem EXCEPT ![b + 2] = 1, ![b + 1] = KMALLOC_FREED_MAGIC]
          BY <4>1, <4>2, <3>1, <3>3, <3>5 DEF kfree, magic, is_free, BLOCK_HEADER_SIZE
        <5>2. mem'[b + 1] = KMALLOC_FREED_MAGIC
          BY <5>1, <3>4 DEF IInv, TypeOK
        <5> QED  BY <5>2
      <4>3. CASE mem[b + 1] # KMALLOC_MAGIC
        <5>1. mem' = mem
          BY <4>3, <3>1, <3>3, <3>5 DEF kfree, magic, is_free, BLOCK_HEADER_SIZE
        <5> QED  BY <5>1, <4>1, <4>3
      <4> QED  BY <4>2, <4>3
    <3>6. CASE b # f
      <4>1. mem'[b + 2] = mem[b + 2]  BY <3>1, <3>2, <3>3, <3>6, KfreeMemory
      <4>2. mem'[b + 1] = mem[b + 1] \/ mem'[b + 1] = KMALLOC_FREED_MAGIC
        <5>1. \/ mem' = mem
              \/ mem' = [mem EXCEPT ![f + 2] = 1, ![f + 1] = KMALLOC_FREED_MAGIC]
          BY <3>1, <3>3 DEF kfree, BLOCK_HEADER_SIZE
        <5>2. b + 1 # f + 2
          <6>1. /\ size(b) \in Nat /\ size(b) >= 3 /\ size(f) \in Nat /\ size(f) >= 3
                /\ b + size(b) <= f \/ f + size(f) <= b
            BY <3>2, <3>3, <3>6, BlocksApart
          <6> QED  BY <6>1, <3>3, <3>4
        <5> QED  BY <5>1, <5>2, <3>4 DEF IInv, TypeOK
      <4>3. \A k \in live : k.ptr = b + 3 => k # l  BY <3>3, <3>4, <3>6
      <4> QED  BY <4>1, <4>2, <4>3, <3>2, <2>1
    <3> QED  BY <3>5, <3>6
  <2>6. CASE \E l \in live, d \in Data : use(l, d)
    <3>1. PICK l \in live, d \in Data : use(l, d)  BY <2>6
    <3>2. /\ mem' = [a \in Addr |-> IF a \in Payload(l) THEN d ELSE mem[a]]
          /\ live' = live /\ blocks' = blocks
      BY <3>1 DEF use
    <3>3. mem'[b + 1] = mem[b + 1] /\ mem'[b + 2] = mem[b + 2]
      BY <3>2, HeadersOutside
    <3> QED  BY <3>2, <3>3, <2>1
  <2> QED  BY <2>2, <2>3, <2>4, <2>5, <2>6 DEF Next
<1> QED  BY <1>1, <1>2, Inductive, PTL DEF Spec

-----------------------------------------------------------------------------
(***************************************************************************)
(* Callers that ask for whole numbers of headers keep Roomy: every block's *)
(* size is a whole number of headers, so what a split leaves is one too.   *)
(***************************************************************************)
WholeSizes == \A b \in blocks : Whole(size(b))

\* What is left of a whole size is whole, and holds a header.
LEMMA WholeDifference ==
  ASSUME NEW a \in Nat, NEW b \in Nat, Whole(a), Whole(b), a > b
  PROVE  Whole(a - b) /\ a - b >= 3
<1>1. PICK j \in Nat : a = 3 * j  BY DEF Whole
<1>2. PICK k \in Nat : b = 3 * k  BY DEF Whole
<1>3. j - k \in Nat /\ a - b = 3 * (j - k) /\ j - k >= 1  BY <1>1, <1>2
<1> QED  BY <1>3 DEF Whole

\* What a request of kmalloc() takes from the heap, under Granular.
LEMMA TotalWhole ==
  ASSUME Granular, NEW n \in Sizes
  PROVE  n \in Nat /\ n >= 3 /\ Whole(n + 3)
<1>1. n \in Nat /\ n # 0  BY SizesAssumption
<1>2. PICK k \in Nat : n = 3 * k  BY DEF Granular, Whole
<1>3. k + 1 \in Nat /\ n + 3 = 3 * (k + 1) /\ n >= 3  BY <1>1, <1>2
<1> QED  BY <1>1, <1>3 DEF Whole

LEMMA WholeIsRoomy ==
  ASSUME Granular, IInv, WholeSizes
  PROVE  Roomy
<1> SUFFICES ASSUME Scanning, Fits(ptr, want)
             PROVE  size(ptr) = want + 3 \/ size(ptr) >= want + 2 * 3
  BY DEF Roomy, BLOCK_HEADER_SIZE
<1>1. /\ want \in Sizes /\ ptr \in blocks /\ ptr \in Nat /\ want \in Nat
      /\ size(ptr) >= want + 3
  BY SizesAssumption DEF IInv, TypeOK, ScanOK, Scanning, Fits, BLOCK_HEADER_SIZE
<1>2. size(ptr) \in Nat /\ Whole(size(ptr))  BY <1>1, BlocksApart DEF WholeSizes
<1>3. want + 3 \in Nat /\ Whole(want + 3)  BY <1>1, TotalWhole
<1>4. CASE size(ptr) > want + 3
  <2>1. size(ptr) - (want + 3) >= 3  BY <1>2, <1>3, <1>4, WholeDifference
  <2> QED  BY <2>1, <1>1, <1>2
<1> QED  BY <1>1, <1>2, <1>4

LEMMA NextWhole ==
  ASSUME Granular, IInv, WholeSizes, [Next]_vars
  PROVE  WholeSizes'
<1> SUFFICES ASSUME NEW b \in blocks' PROVE Whole(mem'[b])
  BY DEF WholeSizes, size
<1>0. Roomy  BY WholeIsRoomy
<1>1. \A c \in blocks : Whole(mem[c])  BY DEF WholeSizes, size
<1>2. CASE kmalloc_init \/ (\E n \in Sizes : kmalloc(n)) \/ find_free_block
           \/ kmalloc_null \/ UNCHANGED vars
  <2>1. mem' = mem /\ blocks' = blocks
    BY <1>2 DEF kmalloc_init, kmalloc, find_free_block, kmalloc_null, vars
  <2> QED  BY <2>1, <1>1
<1>3. CASE kmalloc_reuse
  <2>1. PICK p \in Nat, total \in Nat : p = ptr /\ total = want + 3
    BY <1>0, <1>3, ReuseMemory DEF IInv, TypeOK
  <2>2. /\ want \in Sizes /\ p \in blocks /\ mem[p] >= total /\ mem'[p] = total
        /\ \/ blocks' = blocks
           \/ blocks' = blocks \cup {p + want + 3} /\ mem'[p + want + 3] = mem[p] - total
    BY <2>1, <1>0, <1>3, ReuseMemory DEF size
  <2>3. Whole(total)  BY <2>1, <2>2, TotalWhole
  <2>4. CASE b = p  BY <2>2, <2>3, <2>4
  <2>5. CASE b \in blocks /\ b # p
    BY <2>1, <2>5, <1>0, <1>1, <1>3, ReuseHeaders
  <2>6. CASE b \notin blocks
    <3>1. mem'[b] = mem[p] - total  BY <2>2, <2>6
    <3>2. mem[p] \in Nat /\ Whole(mem[p])  BY <2>2, <1>1, BlocksApart DEF size
    <3>3. mem[p] # total
      <4>1. ~(size(ptr) > want + BLOCK_HEADER_SIZE) => blocks' = blocks
        BY <1>3 DEF kmalloc_reuse
      <4> QED  BY <4>1, <2>1, <2>6 DEF size, BLOCK_HEADER_SIZE
    <3> QED  BY <3>1, <3>2, <3>3, <2>1, <2>2, <2>3, WholeDifference
  <2> QED  BY <2>4, <2>5, <2>6
<1>4. CASE kmalloc_extend
  <2>1. /\ want \in Sizes /\ mem'[heap_used] = want + 3
        /\ blocks' = blocks \cup {heap_used}
    BY <1>4, ExtendMemory DEF kmalloc_extend
  <2>2. Whole(want + 3)  BY <2>1, TotalWhole
  <2> QED  BY <2>1, <2>2, <1>1, <1>4, ExtendHeaders
<1>5. CASE \E l \in live : kfree(l)
  <2>1. blocks' = blocks  BY <1>5 DEF kfree
  <2> QED  BY <2>1, <1>1, <1>5, KfreeMemory
<1>6. CASE \E l \in live, d \in Data : use(l, d)
  <2>1. PICK l \in live, d \in Data : use(l, d)  BY <1>6
  <2>2. /\ mem' = [a \in Addr |-> IF a \in Payload(l) THEN d ELSE mem[a]]
        /\ blocks' = blocks
    BY <2>1 DEF use
  <2>3. mem'[b] = mem[b]  BY <2>2, HeadersOutside
  <2> QED  BY <2>2, <2>3, <1>1
<1> QED  BY <1>2, <1>3, <1>4, <1>5, <1>6 DEF Next

\* Callers that ask for whole numbers of headers never make split_block()
\* leave less than a header, so everything above holds of them.
THEOREM GranularIsRoomy == Granular => (Spec => [](IInv /\ Roomy))
<1> SUFFICES ASSUME Granular PROVE Spec => [](IInv /\ Roomy)  OBVIOUS
<1>1. Init => IInv /\ WholeSizes  BY InitIInv DEF Init, WholeSizes
<1>2. IInv /\ WholeSizes => Roomy  BY WholeIsRoomy
<1>3. IInv /\ WholeSizes /\ [Next]_vars => IInv' /\ WholeSizes'
  BY <1>2, NextIInv, NextWhole
<1> QED  BY <1>1, <1>2, <1>3, PTL DEF Spec

=============================================================================
