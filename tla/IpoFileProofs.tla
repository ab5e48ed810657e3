---------------------------- MODULE IpoFileProofs ----------------------------
(***************************************************************************)
(* Proofs about IpoFile, for every disk, block and file size: the pointer  *)
(* tree of the files never reaches a free block nor a block twice, blocks  *)
(* leak in the two known ways only, and a read finds what a write stored.  *)
(*                                                                         *)
(* The pointers of a file are the values of its `places': the slots of the *)
(* inode and those of its pointer blocks.  Every slot operator of the      *)
(* module gives at most one empty place a block that was free; that is     *)
(* relation Grown, which is transitive, and what a whole call does.        *)
(***************************************************************************)
EXTENDS IpoFile, FiniteSetTheorems, TLAPS

\* Slots of an inode and of a pointer block.
D == 0 .. (DIRECT_BLOCKS - 1)
K == 0 .. (PER_BLOCK - 1)
Tables == [Blocks -> [K -> Blocks \cup {0}]]
Views == [Inodes -> Inode]
With(v, i, n) == [v EXCEPT ![i] = n]
SetDirect(n, s, p) == [n EXCEPT !.direct[s] = p]
SetIndirect(n, p) == [n EXCEPT !.indirect = p]
SetDouble(n, p) == [n EXCEPT !.double_indirect = p]

\* Where a file keeps its pointers: <<part, outer slot, slot>>.
Places ==
  {<<"direct", 0, k>> : k \in D} \cup {<<"indirect", 0, 0>>, <<"double", 0, 0>>}
  \cup {<<"single", 0, k>> : k \in K} \cup {<<"outer", 0, k>> : k \in K}
  \cup {<<"inner", j, k>> : j \in K, k \in K}

Entry(tb, t, k) == IF t = 0 THEN 0 ELSE tb[t][k]

\* The pointer at place a of inode n, 0 for none.
Value(tb, n, a) ==
  CASE a[1] = "direct"   -> n.direct[a[3]]
    [] a[1] = "indirect" -> n.indirect
    [] a[1] = "double"   -> n.double_indirect
    [] a[1] = "single"   -> Entry(tb, n.indirect, a[3])
    [] a[1] = "outer"    -> Entry(tb, n.double_indirect, a[3])
    [] a[1] = "inner"    -> Entry(tb, Entry(tb, n.double_indirect, a[2]), a[3])

\* No pointer to a free block, and no two pointers to one block.
Owned(bits, tb, v) ==
  /\ \A i \in Inodes, a \in Places : Value(tb, v[i], a) # 0 => Value(tb, v[i], a) \in bits
  /\ \A i, j \in Inodes, a, c \in Places :
       Value(tb, v[i], a) = Value(tb, v[j], c) /\ Value(tb, v[i], a) # 0 => i = j /\ a = c

\* From the first disk to the second, blocks were allocated and put at empty
\* places, and nothing else happened.
Grown(bits, tb, v, bits2, tb2, v2) ==
  /\ bits \subseteq bits2
  /\ Owned(bits2, tb2, v2)
  /\ \A i \in Inodes, a \in Places : Value(tb, v[i], a) \in {0, Value(tb2, v2[i], a)}
  /\ \A i \in Inodes, a \in Places :
       Value(tb2, v2[i], a) \in bits => Value(tb, v[i], a) = Value(tb2, v2[i], a)
  /\ \A b \in bits2 \ bits : \E i \in Inodes, a \in Places : Value(tb2, v2[i], a) = b

\* The pointers differ in one place, which holds p.
Put(tb, v, tb2, v2, i, a, p) ==
  \A j \in Inodes, c \in Places :
    Value(tb2, v2[j], c) = IF j = i /\ c = a THEN p ELSE Value(tb, v[j], c)

\* The pointer blocks after allocate_block() cleared block p.
Wiped(tb, p) == [tb EXCEPT ![p] = NoTable]

\* And after slot s of pointer block t was set to it.
Linked(tb, p, t, s) == [Wiped(tb, p) EXCEPT ![t][s] = p]

\* Pointer block t is the one place a is a slot of, in inode n.
Holds(tb, n, t, a) ==
  \/ \E k \in K : a = <<"single", 0, k>> /\ t = n.indirect
  \/ \E k \in K : a = <<"outer", 0, k>> /\ t = n.double_indirect
  \/ \E j, k \in K : a = <<"inner", j, k>> /\ t = Entry(tb, n.double_indirect, j)

\* What the slot operators work on, and the views with its inode copy.
G == [bits : SUBSET Blocks, tab : Tables, in : Inode, phys : Blocks \cup {0}]
GOwned(v, i, g) == Owned(g.bits, g.tab, With(v, i, g.in))
GGrown(v, i, g, h) == Grown(g.bits, g.tab, With(v, i, g.in), h.bits, h.tab, With(v, i, h.in))

\* Blocks a file can have, and the place of the pointer to each.
MaxBlocks == DIRECT_BLOCKS + PER_BLOCK + PER_BLOCK * PER_BLOCK
DataPlace(l) ==
  IF l < DIRECT_BLOCKS THEN <<"direct", 0, l>>
  ELSE IF l < DIRECT_BLOCKS + PER_BLOCK THEN <<"single", 0, l - DIRECT_BLOCKS>>
  ELSE <<"inner", (l - DIRECT_BLOCKS - PER_BLOCK) \div PER_BLOCK,
                  (l - DIRECT_BLOCKS - PER_BLOCK) % PER_BLOCK>>

\* Replacing inode n by m takes exactly the pointers to the blocks F away.
Drops(tb, n, m, F) ==
  /\ \A a \in Places : Value(tb, m, a) \in {0, Value(tb, n, a)}
  /\ \A a \in Places : Value(tb, m, a) = 0 /\ Value(tb, n, a) # 0 => Value(tb, n, a) \in F
  /\ \A b \in F : b # 0 /\ \E a \in Places : Value(tb, n, a) = b /\ Value(tb, m, a) = 0

\* The inductive invariant: ownership, and every allocated block is either
\* lost or pointed to, and never both.
Good(bits, tb, v, ls) ==
  /\ Owned(bits, tb, v)
  /\ ls \subseteq bits
  /\ \A i \in Inodes, a \in Places : Value(tb, v[i], a) \notin ls
  /\ \A b \in bits \ ls : \E i \in Inodes, a \in Places : Value(tb, v[i], a) = b

V == [i \in Inodes |-> View(i)]

\* A write never gets more than a block ahead of the offset it computes, so
\* its offset stays a word: blocks beyond the largest file are not found.
Calls ==
  /\ call.at < WORD /\ call.at < (call.b + 1) * BLOCK_SIZE
  /\ call.last < WORD

\* The bytes one iteration of the loop writes, from offset `at'.
Chunk(at, left) ==
  LET room == BLOCK_SIZE - (at % BLOCK_SIZE) IN IF room < left THEN room ELSE left

IInv == TypeOK /\ Calls /\ Good(bbit, tab, V, lost)

-----------------------------------------------------------------------------
(***************************************************************************)
(* Places and their values.                                                *)
(***************************************************************************)
\* A nonempty set of naturals has a least element, so First() finds one.
LEMMA LeastElement ==
  ASSUME NEW S \in SUBSET Nat, S # {}
  PROVE  \E n \in S : \A m \in S : n <= m
<1>1. PICK n \in S : TRUE
  OBVIOUS
<1> DEFINE T == {0 .. m : m \in {k \in S : k <= n}}
<1>2. T \subseteq FiniteSubsetsOf(0 .. n) /\ T # {}
  <2>1. IsFiniteSet(0 .. n)
    BY <1>1, FS_Interval
  <2>2. \A m \in S : IsFiniteSet(0 .. m)
    BY FS_Interval
  <2> QED
    BY <2>2, <1>1 DEF FiniteSubsetsOf
<1>3. IsWellFoundedOn(StrictSubsetOrdering(0 .. n), FiniteSubsetsOf(0 .. n))
  BY FS_StrictSubsetOrderingWellFounded
<1>4. PICK x \in T : \A y \in T : ~(<<y, x>> \in StrictSubsetOrdering(0 .. n))
  <2> HIDE DEF T
  <2> QED BY <1>2, <1>3, WFMin
<1>5. PICK m \in S : m <= n /\ x = 0 .. m
  BY <1>4
<1>6. \A k \in S : k < m => FALSE
  <2> SUFFICES ASSUME NEW k \in S, k < m PROVE FALSE
    OBVIOUS
  <2>1. 0 .. k \in T
    BY <1>1, <1>5
  <2>2. 0 .. k \subseteq 0 .. m /\ 0 .. k # 0 .. m
    BY <1>5
  <2>3. <<0 .. k, x>> \in StrictSubsetOrdering(0 .. n)
    BY <2>2, <1>5, <1>1 DEF StrictSubsetOrdering
  <2> QED BY <1>4, <2>1, <2>3
<1> QED
  BY <1>5, <1>6

\* First(), the search for a free inode, block or descriptor, finds one.
LEMMA FirstInSet ==
  ASSUME NEW S \in SUBSET Nat, S # {}
  PROVE  First(S) \in S
BY LeastElement DEF First

\* The six kinds of places.
LEMMA PlaceCases ==
  ASSUME NEW a \in Places
  PROVE  \/ \E k \in D : a = <<"direct", 0, k>>
         \/ a = <<"indirect", 0, 0>>
         \/ a = <<"double", 0, 0>>
         \/ \E k \in K : a = <<"single", 0, k>>
         \/ \E k \in K : a = <<"outer", 0, k>>
         \/ \E j, k \in K : a = <<"inner", j, k>>
BY DEF Places

LEMMA PlacesExist ==
  /\ \A k \in D : <<"direct", 0, k>> \in Places
  /\ <<"indirect", 0, 0>> \in Places
  /\ <<"double", 0, 0>> \in Places
  /\ \A k \in K : <<"single", 0, k>> \in Places
  /\ \A k \in K : <<"outer", 0, k>> \in Places
  /\ \A j, k \in K : <<"inner", j, k>> \in Places
BY DEF Places

\* A place holds a block or 0.
LEMMA ValueTyped ==
  ASSUME NEW tb \in Tables, NEW n \in Inode, NEW a \in Places
  PROVE  Value(tb, n, a) \in Blocks \cup {0}
<1>1. /\ \A k \in D : n.direct[k] \in Blocks \cup {0}
      /\ n.indirect \in Blocks \cup {0} /\ n.double_indirect \in Blocks \cup {0}
  BY DEF Inode, D
<1>2. \A t \in Blocks \cup {0}, k \in K : Entry(tb, t, k) \in Blocks \cup {0}
  BY DEF Entry, Tables
<1>3. \A j, k \in K : Entry(tb, Entry(tb, n.double_indirect, j), k) \in Blocks \cup {0}
  BY <1>1, <1>2
<1>4. CASE \E k \in D : a = <<"direct", 0, k>>
  BY <1>1, <1>4 DEF Value
<1>5. CASE a = <<"indirect", 0, 0>> \/ a = <<"double", 0, 0>>
  BY <1>1, <1>5 DEF Value
<1>6. CASE \E k \in K : a = <<"single", 0, k>> \/ a = <<"outer", 0, k>>
  BY <1>1, <1>2, <1>6 DEF Value
<1>7. CASE \E j, k \in K : a = <<"inner", j, k>>
  BY <1>3, <1>7 DEF Value
<1> QED
  BY <1>4, <1>5, <1>6, <1>7, PlaceCases

-----------------------------------------------------------------------------
(***************************************************************************)
(* Growth.                                                                 *)
(***************************************************************************)
\* Nothing happened.
LEMMA GrownRefl ==
  ASSUME NEW bits, NEW tb, NEW v, Owned(bits, tb, v)
  PROVE  Grown(bits, tb, v, bits, tb, v)
BY DEF Grown

LEMMA GrownTrans ==
  ASSUME NEW b1, NEW t1, NEW v1, NEW b2, NEW t2, NEW v2, NEW b3, NEW t3, NEW v3,
         0 \notin b3,
         Grown(b1, t1, v1, b2, t2, v2), Grown(b2, t2, v2, b3, t3, v3)
  PROVE  Grown(b1, t1, v1, b3, t3, v3)
<1> DEFINE x1(i, a) == Value(t1, v1[i], a)
           x2(i, a) == Value(t2, v2[i], a)
           x3(i, a) == Value(t3, v3[i], a)
<1>1. /\ b1 \subseteq b2 /\ b2 \subseteq b3 /\ Owned(b3, t3, v3)
      /\ \A i \in Inodes, a \in Places : x1(i, a) \in {0, x2(i, a)} /\ x2(i, a) \in {0, x3(i, a)}
      /\ \A i \in Inodes, a \in Places : x2(i, a) \in b1 => x1(i, a) = x2(i, a)
      /\ \A i \in Inodes, a \in Places : x3(i, a) \in b2 => x2(i, a) = x3(i, a)
      /\ \A b \in b2 \ b1 : \E i \in Inodes, a \in Places : x2(i, a) = b
      /\ \A b \in b3 \ b2 : \E i \in Inodes, a \in Places : x3(i, a) = b
  BY DEF Grown
<1> HIDE DEF x1, x2, x3
<1>2. /\ b1 \subseteq b3
      /\ \A i \in Inodes, a \in Places : x1(i, a) \in {0, x3(i, a)}
      /\ \A i \in Inodes, a \in Places : x3(i, a) \in b1 => x1(i, a) = x3(i, a)
  BY <1>1
<1>3. \A b \in b3 \ b1 : \E i \in Inodes, a \in Places : x3(i, a) = b
  BY <1>1
<1> QED
  BY <1>1, <1>2, <1>3 DEF Grown, x1, x2, x3

\* A free block put at an empty place.
LEMMA GrownAdd ==
  ASSUME NEW bits \in SUBSET Blocks, NEW tb, NEW v, NEW tb2, NEW v2,
         Owned(bits, tb, v),
         NEW i \in Inodes, NEW a \in Places, NEW p \in Blocks \ bits,
         Value(tb, v[i], a) = 0,
         Put(tb, v, tb2, v2, i, a, p)
  PROVE  Grown(bits, tb, v, bits \cup {p}, tb2, v2)
<1> DEFINE x(j, c) == Value(tb, v[j], c)
           y(j, c) == Value(tb2, v2[j], c)
<1>1. /\ \A j \in Inodes, c \in Places : y(j, c) = IF j = i /\ c = a THEN p ELSE x(j, c)
      /\ \A j \in Inodes, c \in Places : x(j, c) # 0 => x(j, c) \in bits
      /\ \A j, l \in Inodes, c, d \in Places : x(j, c) = x(l, d) /\ x(j, c) # 0 => j = l /\ c = d
      /\ x(i, a) = 0 /\ p \notin bits
  BY DEF Owned, Put
<1> HIDE DEF x, y
<1>2. \A j \in Inodes, c \in Places : y(j, c) # 0 => y(j, c) \in bits \cup {p}
  BY <1>1
<1>3. \A j, l \in Inodes, c, d \in Places : y(j, c) = y(l, d) /\ y(j, c) # 0 => j = l /\ c = d
  BY <1>1
<1>4. /\ \A j \in Inodes, c \in Places : x(j, c) \in {0, y(j, c)}
      /\ \A j \in Inodes, c \in Places : y(j, c) \in bits => x(j, c) = y(j, c)
      /\ y(i, a) = p
  BY <1>1
<1> QED
  BY <1>2, <1>3, <1>4 DEF Grown, Owned, x, y

-----------------------------------------------------------------------------
(***************************************************************************)
(* One block allocated and put at one place.  The new block is cleared, so *)
(* as a pointer block it points nowhere; as it was free, no file reaches   *)
(* it through another place.                                               *)
(***************************************************************************)
\* Clearing a free block changes no pointer.
LEMMA ClearValues ==
  ASSUME NEW bits \in SUBSET Blocks, NEW tb \in Tables, NEW v \in Views, Owned(bits, tb, v),
         NEW p \in Blocks \ bits
  PROVE  \A j \in Inodes, c \in Places : Value(Wiped(tb, p), v[j], c) = Value(tb, v[j], c)
<1> SUFFICES ASSUME NEW j \in Inodes, NEW c \in Places
             PROVE  Value(Wiped(tb, p), v[j], c) = Value(tb, v[j], c)
  OBVIOUS
<1> DEFINE n == v[j]
<1>1. p # 0 /\ 0 \notin bits
  BY DEF Blocks
<1>2. \A t, k : t # p /\ t \in Blocks \cup {0} => Entry(Wiped(tb, p), t, k) = Entry(tb, t, k)
  BY DEF Entry, Tables, Wiped
<1>3. \A d \in Places : Value(tb, n, d) # p /\ Value(tb, n, d) \in Blocks \cup {0}
  BY ValueTyped, <1>1 DEF Owned, Views
<1>4. n.indirect # p /\ n.indirect \in Blocks \cup {0}
  BY <1>3, PlacesExist DEF Value
<1>5. n.double_indirect # p /\ n.double_indirect \in Blocks \cup {0}
  BY <1>3, PlacesExist DEF Value
<1>6. \A k \in K : /\ Entry(tb, n.double_indirect, k) # p
                   /\ Entry(tb, n.double_indirect, k) \in Blocks \cup {0}
  BY <1>3, PlacesExist DEF Value
<1> HIDE DEF n
<1>7. CASE \E k \in D : c = <<"direct", 0, k>>
  BY <1>7 DEF Value
<1>8. CASE c = <<"indirect", 0, 0>> \/ c = <<"double", 0, 0>>
  BY <1>8 DEF Value
<1>9. CASE \E k \in K : c = <<"single", 0, k>> \/ c = <<"outer", 0, k>>
  BY <1>2, <1>4, <1>5, <1>9 DEF Value
<1>10. CASE \E l, k \in K : c = <<"inner", l, k>>
  BY <1>2, <1>5, <1>6, <1>10 DEF Value
<1> QED
  BY <1>7, <1>8, <1>9, <1>10, PlaceCases DEF n

\* The cleared block points nowhere.
LEMMA ClearedEntry ==
  ASSUME NEW tb \in Tables, NEW p \in Blocks
  PROVE  /\ Wiped(tb, p) \in Tables
         /\ \A k \in K : Entry(Wiped(tb, p), p, k) = 0
<1>1. NoTable \in [K -> Blocks \cup {0}]
  BY DEF NoTable, K
<1> QED
  BY <1>1 DEF Tables, Entry, NoTable, K, Blocks, Wiped

\* A direct pointer.
LEMMA PutDirect ==
  ASSUME NEW bits \in SUBSET Blocks, NEW tb \in Tables, NEW v \in Views, Owned(bits, tb, v),
         NEW p \in Blocks \ bits,
         NEW i \in Inodes, NEW s \in D, v[i].direct[s] = 0
  PROVE  /\ Grown(bits, tb, v, bits \cup {p}, Wiped(tb, p), With(v, i, SetDirect(v[i], s, p)))
         /\ SetDirect(v[i], s, p) \in Inode
<1> DEFINE n == v[i]
           m == SetDirect(v[i], s, p)
<1>1. n \in Inode
  BY DEF Views
<1>2. m \in Inode /\ m.indirect = n.indirect /\ m.double_indirect = n.double_indirect
      /\ \A k \in D : m.direct[k] = IF k = s THEN p ELSE n.direct[k]
  BY <1>1 DEF SetDirect, Inode, D
<1>3. \A c \in Places : Value(Wiped(tb, p), m, c) = IF c = <<"direct", 0, s>> THEN p ELSE Value(Wiped(tb, p), n, c)
  <2> HIDE DEF n, m
  <2> SUFFICES ASSUME NEW c \in Places
               PROVE  Value(Wiped(tb, p), m, c) = IF c = <<"direct", 0, s>> THEN p ELSE Value(Wiped(tb, p), n, c)
    OBVIOUS
  <2>1. CASE \E k \in D : c = <<"direct", 0, k>>
    BY <1>2, <2>1 DEF Value
  <2>2. CASE c = <<"indirect", 0, 0>> \/ c = <<"double", 0, 0>>
    BY <1>2, <2>2 DEF Value
  <2>3. CASE \E k \in K : c = <<"single", 0, k>> \/ c = <<"outer", 0, k>>
    BY <1>2, <2>3 DEF Value
  <2>4. CASE \E l, k \in K : c = <<"inner", l, k>>
    BY <1>2, <2>4 DEF Value
  <2> QED
    BY <2>1, <2>2, <2>3, <2>4, PlaceCases
<1>4. \A j \in Inodes : With(v, i, m)[j] = IF j = i THEN m ELSE v[j]
  BY DEF Views, With
<1>5. \A j \in Inodes, c \in Places : Value(Wiped(tb, p), v[j], c) = Value(tb, v[j], c)
  BY ClearValues
<1>6. Put(tb, v, Wiped(tb, p), With(v, i, m), i, <<"direct", 0, s>>, p)
  <2> SUFFICES ASSUME NEW j \in Inodes, NEW c \in Places
               PROVE  Value(Wiped(tb, p), With(v, i, m)[j], c) =
                        IF j = i /\ c = <<"direct", 0, s>> THEN p ELSE Value(tb, v[j], c)
    BY DEF Put
  <2>1. CASE j = i
    BY <1>3, <1>4, <1>5, <2>1
  <2>2. CASE j # i
    BY <1>4, <1>5, <2>2
  <2> QED
    BY <2>1, <2>2
<1>7. Value(tb, v[i], <<"direct", 0, s>>) = 0
  BY DEF Value
<1>8. <<"direct", 0, s>> \in Places
  BY PlacesExist
<1>9. Grown(bits, tb, v, bits \cup {p}, Wiped(tb, p), With(v, i, m))
  BY <1>6, <1>7, <1>8, GrownAdd
<1> QED
  BY <1>2, <1>9

\* The pointer to the indirect block.
LEMMA PutIndirect ==
  ASSUME NEW bits \in SUBSET Blocks, NEW tb \in Tables, NEW v \in Views, Owned(bits, tb, v),
         NEW p \in Blocks \ bits,
         NEW i \in Inodes, v[i].indirect = 0
  PROVE  Grown(bits, tb, v, bits \cup {p}, Wiped(tb, p), With(v, i, SetIndirect(v[i], p))) /\ SetIndirect(v[i], p) \in Inode
<1> DEFINE n == v[i]
           m == SetIndirect(v[i], p)
<1>1. n \in Inode
  BY DEF Views
<1>2. m \in Inode /\ m.indirect = p /\ m.double_indirect = n.double_indirect
      /\ m.direct = n.direct /\ n.indirect = 0
  BY <1>1 DEF SetIndirect, Inode
<1>3. \A c \in Places : Value(Wiped(tb, p), m, c) = IF c = <<"indirect", 0, 0>> THEN p ELSE Value(Wiped(tb, p), n, c)
  <2> HIDE DEF n, m
  <2> SUFFICES ASSUME NEW c \in Places
               PROVE  Value(Wiped(tb, p), m, c) = IF c = <<"indirect", 0, 0>> THEN p ELSE Value(Wiped(tb, p), n, c)
    OBVIOUS
  <2>1. CASE \E k \in D : c = <<"direct", 0, k>>
    BY <1>2, <2>1 DEF Value
  <2>2. CASE c = <<"indirect", 0, 0>> \/ c = <<"double", 0, 0>>
    BY <1>2, <2>2 DEF Value
  <2>3. CASE \E k \in K : c = <<"single", 0, k>>
    <3>1. \A k \in K : Entry(Wiped(tb, p), p, k) = 0 /\ Entry(Wiped(tb, p), 0, k) = 0
      BY ClearedEntry DEF Entry
    <3>2. PICK k \in K : c = <<"single", 0, k>>
      BY <2>3
    <3> QED
      BY <1>2, <3>2, <3>1 DEF Value
  <2>4. CASE \E k \in K : c = <<"outer", 0, k>>
    BY <1>2, <2>4 DEF Value
  <2>5. CASE \E l, k \in K : c = <<"inner", l, k>>
    BY <1>2, <2>5 DEF Value
  <2> QED
    BY <2>1, <2>2, <2>3, <2>4, <2>5, PlaceCases
<1>4. \A j \in Inodes : With(v, i, m)[j] = IF j = i THEN m ELSE v[j]
  BY DEF Views, With
<1>5. \A j \in Inodes, c \in Places : Value(Wiped(tb, p), v[j], c) = Value(tb, v[j], c)
  BY ClearValues
<1>6. Put(tb, v, Wiped(tb, p), With(v, i, m), i, <<"indirect", 0, 0>>, p)
  <2> SUFFICES ASSUME NEW j \in Inodes, NEW c \in Places
               PROVE  Value(Wiped(tb, p), With(v, i, m)[j], c) =
                        IF j = i /\ c = <<"indirect", 0, 0>> THEN p ELSE Value(tb, v[j], c)
    BY DEF Put
  <2>1. CASE j = i
    BY <1>3, <1>4, <1>5, <2>1
  <2>2. CASE j # i
    BY <1>4, <1>5, <2>2
  <2> QED
    BY <2>1, <2>2
<1>7. Value(tb, v[i], <<"indirect", 0, 0>>) = 0
  BY DEF Value
<1>8. <<"indirect", 0, 0>> \in Places
  BY PlacesExist
<1>9. Grown(bits, tb, v, bits \cup {p}, Wiped(tb, p), With(v, i, m))
  BY <1>6, <1>7, <1>8, GrownAdd
<1> QED
  BY <1>2, <1>9

\* The pointer to the double indirect block.
LEMMA PutDouble ==
  ASSUME NEW bits \in SUBSET Blocks, NEW tb \in Tables, NEW v \in Views, Owned(bits, tb, v),
         NEW p \in Blocks \ bits,
         NEW i \in Inodes, v[i].double_indirect = 0
  PROVE  Grown(bits, tb, v, bits \cup {p}, Wiped(tb, p), With(v, i, SetDouble(v[i], p))) /\ SetDouble(v[i], p) \in Inode
<1> DEFINE n == v[i]
           m == SetDouble(v[i], p)
<1>1. n \in Inode
  BY DEF Views
<1>2. m \in Inode /\ m.indirect = n.indirect /\ m.double_indirect = p
      /\ m.direct = n.direct /\ n.double_indirect = 0
  BY <1>1 DEF SetDouble, Inode
<1>0. \A k \in K : Entry(Wiped(tb, p), p, k) = 0 /\ Entry(Wiped(tb, p), 0, k) = 0
  BY ClearedEntry DEF Entry
<1>3. \A c \in Places : Value(Wiped(tb, p), m, c) = IF c = <<"double", 0, 0>> THEN p ELSE Value(Wiped(tb, p), n, c)
  <2> HIDE DEF n, m
  <2> SUFFICES ASSUME NEW c \in Places
               PROVE  Value(Wiped(tb, p), m, c) = IF c = <<"double", 0, 0>> THEN p ELSE Value(Wiped(tb, p), n, c)
    OBVIOUS
  <2>1. CASE \E k \in D : c = <<"direct", 0, k>>
    BY <1>2, <2>1 DEF Value
  <2>2. CASE c = <<"indirect", 0, 0>> \/ c = <<"double", 0, 0>>
    BY <1>2, <2>2 DEF Value
  <2>3. CASE \E k \in K : c = <<"single", 0, k>>
    BY <1>2, <2>3 DEF Value
  <2>4. CASE \E k \in K : c = <<"outer", 0, k>>
    <3>1. PICK k \in K : c = <<"outer", 0, k>>
      BY <2>4
    <3> QED
      BY <1>0, <1>2, <3>1 DEF Value
  <2>5. CASE \E l, k \in K : c = <<"inner", l, k>>
    <3>1. PICK l \in K, k \in K : c = <<"inner", l, k>>
      BY <2>5
    <3> QED
      BY <1>0, <1>2, <3>1 DEF Value
  <2> QED
    BY <2>1, <2>2, <2>3, <2>4, <2>5, PlaceCases
<1>4. \A j \in Inodes : With(v, i, m)[j] = IF j = i THEN m ELSE v[j]
  BY DEF Views, With
<1>5. \A j \in Inodes, c \in Places : Value(Wiped(tb, p), v[j], c) = Value(tb, v[j], c)
  BY ClearValues
<1>6. Put(tb, v, Wiped(tb, p), With(v, i, m), i, <<"double", 0, 0>>, p)
  <2> SUFFICES ASSUME NEW j \in Inodes, NEW c \in Places
               PROVE  Value(Wiped(tb, p), With(v, i, m)[j], c) =
                        IF j = i /\ c = <<"double", 0, 0>> THEN p ELSE Value(tb, v[j], c)
    BY DEF Put
  <2>1. CASE j = i
    BY <1>3, <1>4, <1>5, <2>1
  <2>2. CASE j # i
    BY <1>4, <1>5, <2>2
  <2> QED
    BY <2>1, <2>2
<1>7. Value(tb, v[i], <<"double", 0, 0>>) = 0
  BY DEF Value
<1>8. <<"double", 0, 0>> \in Places
  BY PlacesExist
<1>9. Grown(bits, tb, v, bits \cup {p}, Wiped(tb, p), With(v, i, m))
  BY <1>6, <1>7, <1>8, GrownAdd
<1> QED
  BY <1>2, <1>9

\* A slot of a pointer block.
LEMMA PutSlot ==
  ASSUME NEW bits \in SUBSET Blocks, NEW tb \in Tables, NEW v \in Views, Owned(bits, tb, v),
         NEW p \in Blocks \ bits,
         NEW i \in Inodes, NEW a \in Places, NEW t \in Blocks, Holds(tb, v[i], t, a),
         NEW s \in K, s = a[3], tb[t][s] = 0
  PROVE  /\ Grown(bits, tb, v, bits \cup {p}, Linked(tb, p, t, s), v)
         /\ Linked(tb, p, t, s) \in Tables
         /\ Value(Linked(tb, p, t, s), v[i], a) \in {p}
<1> DEFINE tb2 == Linked(tb, p, t, s)
<1>0. p # 0 /\ t # 0 /\ 0 \notin bits
  BY DEF Blocks
<1>1. tb2 \in Tables
  <2>1. Wiped(tb, p) \in Tables
    BY ClearedEntry
  <2> QED
    BY <2>1 DEF Linked, Tables
<1>2. PICK q \in Places : Value(tb, v[i], q) = t /\
         \/ q = <<"indirect", 0, 0>> /\ a = <<"single", 0, s>>
         \/ q = <<"double", 0, 0>> /\ a = <<"outer", 0, s>>
         \/ \E j \in K : q = <<"outer", 0, j>> /\ a = <<"inner", j, s>>
  <2>1. CASE \E k \in K : a = <<"single", 0, k>> /\ t = v[i].indirect
    <3>1. Value(tb, v[i], <<"indirect", 0, 0>>) = t /\ a = <<"single", 0, s>>
      BY <2>1 DEF Value
    <3> QED
      BY <3>1, PlacesExist
  <2>2. CASE \E k \in K : a = <<"outer", 0, k>> /\ t = v[i].double_indirect
    <3>1. Value(tb, v[i], <<"double", 0, 0>>) = t /\ a = <<"outer", 0, s>>
      BY <2>2 DEF Value
    <3> QED
      BY <3>1, PlacesExist
  <2>3. CASE \E j, k \in K : a = <<"inner", j, k>> /\ t = Entry(tb, v[i].double_indirect, j)
    <3>1. PICK j \in K : a = <<"inner", j, s>> /\ t = Entry(tb, v[i].double_indirect, j)
      BY <2>3
    <3>2. Value(tb, v[i], <<"outer", 0, j>>) = t
      BY <3>1 DEF Value
    <3> QED
      BY <3>1, <3>2, PlacesExist
  <2> QED
    BY <2>1, <2>2, <2>3 DEF Holds
<1>3. t \in bits /\ t # p
  BY <1>0, <1>2 DEF Owned
<1>4. \A j \in Inodes, c \in Places : Value(tb, v[j], c) = t => j = i /\ c = q
  BY <1>0, <1>2 DEF Owned
<1>5. \A j \in Inodes, c \in Places : Value(tb, v[j], c) # p
  BY <1>0 DEF Owned
<1>6. /\ \A u \in Blocks \cup {0}, k \in K :
           u # p => Entry(tb2, u, k) = IF u = t /\ k = s THEN p ELSE Entry(tb, u, k)
      /\ \A k \in K : Entry(tb2, p, k) = 0 /\ Entry(tb2, 0, k) = 0 /\ Entry(tb, 0, k) = 0
  <2>1. \A u \in Blocks, k \in K : u # p => tb2[u][k] = IF u = t /\ k = s THEN p ELSE tb[u][k]
    BY <1>3 DEF Linked, Wiped, Tables
  <2>2. \A k \in K : tb2[p][k] = 0
    BY <1>3 DEF Linked, Wiped, Tables, NoTable, K
  <2> HIDE DEF tb2
  <2> QED
    BY <1>0, <2>1, <2>2 DEF Entry
<1>7. Value(tb, v[i], a) = 0
  BY <1>0, <1>2 DEF Value, Entry
<1> HIDE DEF tb2
<1>8. Put(tb, v, tb2, v, i, a, p)
  <2> SUFFICES ASSUME NEW j \in Inodes, NEW c \in Places
               PROVE  Value(tb2, v[j], c) = IF j = i /\ c = a THEN p ELSE Value(tb, v[j], c)
    BY DEF Put
  <2> DEFINE n == v[j]
             e == n.double_indirect
  <2>1. n.indirect \in Blocks \cup {0} /\ e \in Blocks \cup {0}
    BY DEF Inode, Views
  <2>2. /\ n.indirect # p /\ (n.indirect = t => j = i /\ q = <<"indirect", 0, 0>>)
        /\ e # p /\ (e = t => j = i /\ q = <<"double", 0, 0>>)
    <3>1. Value(tb, n, <<"indirect", 0, 0>>) = n.indirect /\ Value(tb, n, <<"double", 0, 0>>) = e
      BY DEF Value
    <3> QED
      BY <1>4, <1>5, <3>1, PlacesExist
  <2>3. \A k \in K : /\ Entry(tb, e, k) \in Blocks \cup {0} /\ Entry(tb, e, k) # p
                     /\ Entry(tb, e, k) = t => j = i /\ q = <<"outer", 0, k>>
    <3> SUFFICES ASSUME NEW k \in K
                 PROVE  /\ Entry(tb, e, k) \in Blocks \cup {0} /\ Entry(tb, e, k) # p
                        /\ Entry(tb, e, k) = t => j = i /\ q = <<"outer", 0, k>>
      OBVIOUS
    <3>1. Value(tb, n, <<"outer", 0, k>>) = Entry(tb, e, k)
      BY DEF Value
    <3>2. Entry(tb, e, k) \in Blocks \cup {0}
      BY <2>1 DEF Tables, Entry
    <3> QED
      BY <1>4, <1>5, <3>1, <3>2, PlacesExist
  <2> HIDE DEF n, e
  <2>4. CASE (\E k \in D : c = <<"direct", 0, k>>) \/ c = <<"indirect", 0, 0>> \/ c = <<"double", 0, 0>>
    <3>1. c # a
      BY <1>2, <2>4
    <3> QED
      BY <2>4, <3>1 DEF Value, n
  <2>5. CASE \E k \in K : c = <<"single", 0, k>>
    <3>1. PICK k \in K : c = <<"single", 0, k>>
      BY <2>5
    <3>2. Value(tb2, n, c) = Entry(tb2, n.indirect, k) /\ Value(tb, n, c) = Entry(tb, n.indirect, k)
      BY <3>1 DEF Value
    <3>3. n.indirect = t /\ k = s => j = i /\ c = a
      BY <1>2, <2>2, <3>1
    <3>4. j = i /\ c = a => n.indirect = t /\ k = s
      BY <1>2, <3>1 DEF Value, n
    <3>5. Entry(tb2, n.indirect, k) = IF n.indirect = t /\ k = s THEN p ELSE Entry(tb, n.indirect, k)
      BY <1>6, <2>1, <2>2
    <3> QED
      BY <3>2, <3>3, <3>4, <3>5 DEF n
  <2>6. CASE \E k \in K : c = <<"outer", 0, k>>
    <3>1. PICK k \in K : c = <<"outer", 0, k>>
      BY <2>6
    <3>2. Value(tb2, n, c) = Entry(tb2, e, k) /\ Value(tb, n, c) = Entry(tb, e, k)
      BY <3>1 DEF Value, e
    <3>3. e = t /\ k = s => j = i /\ c = a
      BY <1>2, <2>2, <3>1
    <3>4. j = i /\ c = a => e = t /\ k = s
      BY <1>2, <3>1 DEF Value, n, e
    <3>5. Entry(tb2, e, k) = IF e = t /\ k = s THEN p ELSE Entry(tb, e, k)
      BY <1>6, <2>1, <2>2
    <3> QED
      BY <3>2, <3>3, <3>4, <3>5 DEF n
  <2>7. CASE \E l, k \in K : c = <<"inner", l, k>>
    <3>1. PICK l \in K, k \in K : c = <<"inner", l, k>>
      BY <2>7
    <3> DEFINE w == Entry(tb, e, l)
               w2 == Entry(tb2, e, l)
    <3>2. Value(tb2, n, c) = Entry(tb2, w2, k) /\ Value(tb, n, c) = Entry(tb, w, k)
      BY <3>1 DEF Value, e
    <3>3. w \in Blocks \cup {0} /\ w # p /\ (w = t => j = i /\ q = <<"outer", 0, l>>)
      BY <2>3
    <3>4. w2 = IF e = t /\ l = s THEN p ELSE w
      BY <1>6, <2>1, <2>2
    <3> HIDE DEF w, w2
    <3>5. CASE e = t /\ l = s
      <4>1. q = <<"double", 0, 0>> /\ j = i
        BY <2>2, <3>5
      <4>2. c # a
        BY <1>2, <3>1, <4>1
      <4>3. w = 0
        BY <1>0, <3>5 DEF w, Entry
      <4>4. Entry(tb2, w2, k) = 0 /\ Entry(tb, w, k) = 0
        BY <1>6, <3>4, <3>5, <4>3
      <4> QED
        BY <3>2, <4>2, <4>4 DEF n
    <3>6. CASE ~(e = t /\ l = s)
      <4>1. w2 = w
        BY <3>4, <3>6
      <4>2. Entry(tb2, w, k) = IF w = t /\ k = s THEN p ELSE Entry(tb, w, k)
        BY <1>6, <3>3
      <4>3. w = t /\ k = s => j = i /\ c = a
        BY <1>2, <3>1, <3>3
      <4>4. j = i /\ c = a => w = t /\ k = s
        <5> SUFFICES ASSUME j = i, c = a PROVE w = t /\ k = s
          OBVIOUS
        <5>1. k = s /\ q = <<"outer", 0, l>>
          BY <1>2, <3>1
        <5>2. Value(tb, v[i], q) = w
          BY <5>1 DEF Value, n, e, w
        <5> QED
          BY <1>2, <5>1, <5>2
      <4> QED
        BY <3>2, <4>1, <4>2, <4>3, <4>4 DEF n
    <3> QED
      BY <3>5, <3>6
  <2> QED
    BY <2>4, <2>5, <2>6, <2>7, PlaceCases
<1>9. Value(tb2, v[i], a) = p
  BY <1>8 DEF Put
<1>10. Grown(bits, tb, v, bits \cup {p}, tb2, v)
  BY <1>7, <1>8, GrownAdd
<1> QED
  BY <1>1, <1>9, <1>10 DEF tb2

-----------------------------------------------------------------------------
(***************************************************************************)
(* The slot operators.                                                     *)
(***************************************************************************)
\* allocate_block() fails on a full disk, or takes a free block and clears it.
LEMMA Allocated ==
  ASSUME NEW g \in G, NEW h, h = allocate_block(g)
  PROVE  \/ h = [g EXCEPT !.phys = 0]
         \/ \E p \in Blocks \ g.bits :
              h = [bits |-> g.bits \cup {p}, tab |-> Wiped(g.tab, p), in |-> g.in, phys |-> p]
<1>1. CASE Blocks \subseteq g.bits
  BY <1>1 DEF allocate_block
<1>2. CASE ~(Blocks \subseteq g.bits)
  <2> DEFINE S == Blocks \ g.bits
  <2>1. S \in SUBSET Nat /\ S # {}
    BY <1>2 DEF Blocks
  <2>2. PICK p \in S : p = First(S)
    BY <2>1, FirstInSet
  <2>3. h = [g EXCEPT !.bits = @ \cup {p}, !.tab[p] = NoTable, !.phys = p]
    BY <1>2, <2>2 DEF allocate_block
  <2>4. h = [bits |-> g.bits \cup {p}, tab |-> Wiped(g.tab, p), in |-> g.in, phys |-> p]
    BY <2>3 DEF G, Wiped
  <2> QED
    BY <2>4
<1> QED
  BY <1>1, <1>2

LEMMA WithViews ==
  ASSUME NEW v \in Views, NEW i \in Inodes, NEW n \in Inode, NEW m
  PROVE  /\ With(v, i, n) \in Views
         /\ With(v, i, n)[i] = n
         /\ With(With(v, i, n), i, m) = With(v, i, m)
BY DEF With, Views

\* The block of a direct pointer.
LEMMA DirectSlotGrows ==
  ASSUME NEW v \in Views, NEW i \in Inodes, NEW g \in G, GOwned(v, i, g),
         NEW k \in D, NEW h, h = DirectSlot(g, k)
  PROVE  /\ h \in G /\ GGrown(v, i, g, h)
         /\ h.phys = Value(h.tab, h.in, <<"direct", 0, k>>)
<1>0. g.in \in Inode /\ g.in.direct[k] \in Blocks \cup {0} /\ g.tab \in Tables /\ g.bits \in SUBSET Blocks
  BY DEF G, Inode, D
<1>1. CASE g.in.direct[k] # 0
  <2>1. h = [g EXCEPT !.phys = g.in.direct[k]]
    BY <1>1 DEF DirectSlot
  <2>2. h \in G /\ h.bits = g.bits /\ h.tab = g.tab /\ h.in = g.in /\ h.phys = g.in.direct[k]
    BY <1>0, <2>1 DEF G
  <2>3. GGrown(v, i, g, h)
    BY <2>2, GrownRefl DEF GGrown, GOwned, With
  <2> QED
    BY <2>2, <2>3 DEF Value
<1>2. CASE g.in.direct[k] = 0
  <2>1. PICK a : a = allocate_block(g)
    OBVIOUS
  <2>2. h = IF a.phys = 0 THEN a ELSE [a EXCEPT !.in.direct[k] = a.phys]
    BY <1>2, <2>1 DEF DirectSlot
  <2>3. CASE a = [g EXCEPT !.phys = 0]
    <3>1. h \in G /\ h.bits = g.bits /\ h.tab = g.tab /\ h.in = g.in /\ h.phys = 0
      BY <2>2, <2>3 DEF G
    <3>2. GGrown(v, i, g, h)
      BY <3>1, GrownRefl DEF GGrown, GOwned, With
    <3> QED
      BY <1>2, <3>1, <3>2 DEF Value
  <2>4. ASSUME NEW p \in Blocks \ g.bits,
               a = [bits |-> g.bits \cup {p}, tab |-> Wiped(g.tab, p), in |-> g.in, phys |-> p]
        PROVE  /\ h \in G /\ GGrown(v, i, g, h)
               /\ h.phys = Value(h.tab, h.in, <<"direct", 0, k>>)
    <3>1. p # 0
      BY DEF Blocks
    <3>2. PICK m : m = SetDirect(g.in, k, p)
      OBVIOUS
    <3>3. h = [bits |-> g.bits \cup {p}, tab |-> Wiped(g.tab, p), in |-> m, phys |-> p]
      BY <2>2, <2>4, <3>1, <3>2 DEF SetDirect
    <3>4. h.bits = g.bits \cup {p} /\ h.tab = Wiped(g.tab, p) /\ h.in = m /\ h.phys = p
      BY <3>3
    <3>5. PICK u \in Views : u = With(v, i, g.in) /\ u[i] = g.in /\ With(u, i, m) = With(v, i, m)
      BY <1>0, WithViews
    <3>6. Owned(g.bits, g.tab, u) /\ u[i].direct[k] = 0
      BY <1>2, <3>5 DEF GOwned
    <3>7. Grown(g.bits, g.tab, u, g.bits \cup {p}, Wiped(g.tab, p), With(u, i, SetDirect(u[i], k, p)))
      BY <1>0, <3>6, PutDirect, Zenon
    <3>9. SetDirect(u[i], k, p) \in Inode
      BY <1>0, <3>6, PutDirect, Zenon
    <3>10. Value(Wiped(g.tab, p), m, <<"direct", 0, k>>) = p
      BY <1>0, <3>2 DEF Value, SetDirect, Inode, D
    <3>8. Wiped(g.tab, p) \in Tables
      BY <1>0, ClearedEntry
    <3> QED
      BY <1>0, <3>2, <3>3, <3>4, <3>5, <3>7, <3>8, <3>9, <3>10 DEF GGrown, G
  <2> QED
    BY <2>1, <2>3, <2>4, Allocated
<1> QED
  BY <1>0, <1>1, <1>2

\* The indirect block.
LEMMA IndirectBlockGrows ==
  ASSUME NEW v \in Views, NEW i \in Inodes, NEW g \in G, GOwned(v, i, g),
         NEW h, h = IndirectBlock(g)
  PROVE  h \in G /\ GGrown(v, i, g, h) /\ h.phys = h.in.indirect
<1>0. g.in \in Inode /\ g.in.indirect \in Blocks \cup {0} /\ g.tab \in Tables /\ g.bits \in SUBSET Blocks
  BY DEF G, Inode
<1>1. CASE g.in.indirect # 0
  <2>1. h = [g EXCEPT !.phys = g.in.indirect]
    BY <1>1 DEF IndirectBlock
  <2>2. h \in G /\ h.bits = g.bits /\ h.tab = g.tab /\ h.in = g.in /\ h.phys = g.in.indirect
    BY <1>0, <2>1 DEF G
  <2>3. GGrown(v, i, g, h)
    BY <2>2, GrownRefl DEF GGrown, GOwned, With
  <2> QED
    BY <2>2, <2>3
<1>2. CASE g.in.indirect = 0
  <2>1. PICK a : a = allocate_block(g)
    OBVIOUS
  <2>2. h = [a EXCEPT !.in.indirect = a.phys]
    BY <1>2, <2>1 DEF IndirectBlock
  <2>3. CASE a = [g EXCEPT !.phys = 0]
    <3>1. h = [g EXCEPT !.phys = 0, !.in = [g.in EXCEPT !.indirect = 0]]
      BY <2>2, <2>3 DEF G
    <3>2. [g.in EXCEPT !.indirect = 0] = g.in
      BY <1>0, <1>2 DEF Inode
    <3>3. h \in G /\ h.bits = g.bits /\ h.tab = g.tab /\ h.in = g.in /\ h.phys = 0
      BY <3>1, <3>2 DEF G
    <3>4. GGrown(v, i, g, h)
      BY <3>3, GrownRefl DEF GGrown, GOwned, With
    <3> QED
      BY <1>2, <3>3, <3>4
  <2>4. ASSUME NEW p \in Blocks \ g.bits,
               a = [bits |-> g.bits \cup {p}, tab |-> Wiped(g.tab, p), in |-> g.in, phys |-> p]
        PROVE  h \in G /\ GGrown(v, i, g, h) /\ h.phys = h.in.indirect
    <3>1. PICK m : m = SetIndirect(g.in, p)
      OBVIOUS
    <3>2. h = [bits |-> g.bits \cup {p}, tab |-> Wiped(g.tab, p), in |-> m, phys |-> p]
      BY <2>2, <2>4, <3>1 DEF SetIndirect
    <3>3. h.bits = g.bits \cup {p} /\ h.tab = Wiped(g.tab, p) /\ h.in = m /\ h.phys = p
      BY <3>2
    <3>4. PICK u \in Views : u = With(v, i, g.in) /\ u[i] = g.in /\ With(u, i, m) = With(v, i, m)
      BY <1>0, WithViews
    <3>5. Owned(g.bits, g.tab, u) /\ u[i].indirect = 0
      BY <1>2, <3>4 DEF GOwned
    <3>6. Grown(g.bits, g.tab, u, g.bits \cup {p}, Wiped(g.tab, p), With(u, i, SetIndirect(u[i], p)))
      BY <1>0, <3>5, PutIndirect, Zenon
    <3>7. SetIndirect(u[i], p) \in Inode
      BY <1>0, <3>5, PutIndirect, Zenon
    <3>8. Wiped(g.tab, p) \in Tables
      BY <1>0, ClearedEntry
    <3>9. m.indirect = p
      BY <1>0, <3>1 DEF SetIndirect, Inode
    <3> QED
      BY <1>0, <3>1, <3>2, <3>3, <3>4, <3>6, <3>7, <3>8, <3>9 DEF GGrown, G
  <2> QED
    BY <2>1, <2>3, <2>4, Allocated
<1> QED
  BY <1>0, <1>1, <1>2

\* The double indirect block.
LEMMA DoubleIndirectBlockGrows ==
  ASSUME NEW v \in Views, NEW i \in Inodes, NEW g \in G, GOwned(v, i, g),
         NEW h, h = DoubleIndirectBlock(g)
  PROVE  h \in G /\ GGrown(v, i, g, h) /\ h.phys = h.in.double_indirect
<1>0. g.in \in Inode /\ g.in.double_indirect \in Blocks \cup {0} /\ g.tab \in Tables /\ g.bits \in SUBSET Blocks
  BY DEF G, Inode
<1>1. CASE g.in.double_indirect # 0
  <2>1. h = [g EXCEPT !.phys = g.in.double_indirect]
    BY <1>1 DEF DoubleIndirectBlock
  <2>2. h \in G /\ h.bits = g.bits /\ h.tab = g.tab /\ h.in = g.in /\ h.phys = g.in.double_indirect
    BY <1>0, <2>1 DEF G
  <2>3. GGrown(v, i, g, h)
    BY <2>2, GrownRefl DEF GGrown, GOwned, With
  <2> QED
    BY <2>2, <2>3
<1>2. CASE g.in.double_indirect = 0
  <2>1. PICK a : a = allocate_block(g)
    OBVIOUS
  <2>2. h = [a EXCEPT !.in.double_indirect = a.phys]
    BY <1>2, <2>1 DEF DoubleIndirectBlock
  <2>3. CASE a = [g EXCEPT !.phys = 0]
    <3>1. h = [g EXCEPT !.phys = 0, !.in = [g.in EXCEPT !.double_indirect = 0]]
      BY <2>2, <2>3 DEF G
    <3>2. [g.in EXCEPT !.double_indirect = 0] = g.in
      BY <1>0, <1>2 DEF Inode
    <3>3. h \in G /\ h.bits = g.bits /\ h.tab = g.tab /\ h.in = g.in /\ h.phys = 0
      BY <3>1, <3>2 DEF G
    <3>4. GGrown(v, i, g, h)
      BY <3>3, GrownRefl DEF GGrown, GOwned, With
    <3> QED
      BY <1>2, <3>3, <3>4
  <2>4. ASSUME NEW p \in Blocks \ g.bits,
               a = [bits |-> g.bits \cup {p}, tab |-> Wiped(g.tab, p), in |-> g.in, phys |-> p]
        PROVE  h \in G /\ GGrown(v, i, g, h) /\ h.phys = h.in.double_indirect
    <3>1. PICK m : m = SetDouble(g.in, p)
      OBVIOUS
    <3>2. h = [bits |-> g.bits \cup {p}, tab |-> Wiped(g.tab, p), in |-> m, phys |-> p]
      BY <2>2, <2>4, <3>1 DEF SetDouble
    <3>3. h.bits = g.bits \cup {p} /\ h.tab = Wiped(g.tab, p) /\ h.in = m /\ h.phys = p
      BY <3>2
    <3>4. PICK u \in Views : u = With(v, i, g.in) /\ u[i] = g.in /\ With(u, i, m) = With(v, i, m)
      BY <1>0, WithViews
    <3>5. Owned(g.bits, g.tab, u) /\ u[i].double_indirect = 0
      BY <1>2, <3>4 DEF GOwned
    <3>6. Grown(g.bits, g.tab, u, g.bits \cup {p}, Wiped(g.tab, p), With(u, i, SetDouble(u[i], p)))
      BY <1>0, <3>5, PutDouble, Zenon
    <3>7. SetDouble(u[i], p) \in Inode
      BY <1>0, <3>5, PutDouble, Zenon
    <3>8. Wiped(g.tab, p) \in Tables
      BY <1>0, ClearedEntry
    <3>9. m.double_indirect = p
      BY <1>0, <3>1 DEF SetDouble, Inode
    <3> QED
      BY <1>0, <3>1, <3>2, <3>3, <3>4, <3>6, <3>7, <3>8, <3>9 DEF GGrown, G
  <2> QED
    BY <2>1, <2>3, <2>4, Allocated
<1> QED
  BY <1>0, <1>1, <1>2

\* A slot of a pointer block of the file.
LEMMA TableSlotGrows ==
  ASSUME NEW v \in Views, NEW i \in Inodes, NEW g \in G, GOwned(v, i, g),
         NEW t \in Blocks, NEW a \in Places, Holds(g.tab, g.in, t, a), NEW k \in K, k = a[3],
         NEW h, h = TableSlot(g, t, k)
  PROVE  /\ h \in G /\ GGrown(v, i, g, h) /\ h.in = g.in
         /\ h.phys = Value(h.tab, h.in, a)
<1>0. g.in \in Inode /\ g.tab[t][k] \in Blocks \cup {0} /\ g.tab \in Tables /\ g.bits \in SUBSET Blocks
  BY DEF G, Tables
<1>3. t # 0
  BY DEF Blocks
<1>4. Value(g.tab, g.in, a) = g.tab[t][k]
  BY <1>3 DEF Holds, Value, Entry
<1>1. CASE g.tab[t][k] # 0
  <2>1. h = [g EXCEPT !.phys = g.tab[t][k]]
    BY <1>1 DEF TableSlot
  <2>2. h \in G /\ h.bits = g.bits /\ h.tab = g.tab /\ h.in = g.in /\ h.phys = g.tab[t][k]
    BY <1>0, <2>1 DEF G
  <2>3. GGrown(v, i, g, h)
    BY <2>2, GrownRefl DEF GGrown, GOwned, With
  <2> QED
    BY <1>4, <2>2, <2>3
<1>2. CASE g.tab[t][k] = 0
  <2>1. PICK b : b = allocate_block(g)
    OBVIOUS
  <2>2. h = IF b.phys = 0 THEN b ELSE [b EXCEPT !.tab[t][k] = b.phys]
    BY <1>2, <2>1 DEF TableSlot
  <2>3. CASE b = [g EXCEPT !.phys = 0]
    <3>1. h \in G /\ h.bits = g.bits /\ h.tab = g.tab /\ h.in = g.in /\ h.phys = 0
      BY <2>2, <2>3 DEF G
    <3>2. GGrown(v, i, g, h)
      BY <3>1, GrownRefl DEF GGrown, GOwned, With
    <3> QED
      BY <1>2, <1>4, <3>1, <3>2
  <2>4. ASSUME NEW p \in Blocks \ g.bits,
               b = [bits |-> g.bits \cup {p}, tab |-> Wiped(g.tab, p), in |-> g.in, phys |-> p]
        PROVE  /\ h \in G /\ GGrown(v, i, g, h) /\ h.in = g.in
               /\ h.phys = Value(h.tab, h.in, a)
    <3>1. p # 0
      BY DEF Blocks
    <3>2. h = [bits |-> g.bits \cup {p}, tab |-> Linked(g.tab, p, t, k), in |-> g.in, phys |-> p]
      BY <2>2, <2>4, <3>1 DEF Linked
    <3>3. h.bits = g.bits \cup {p} /\ h.tab = Linked(g.tab, p, t, k) /\ h.in = g.in /\ h.phys = p
      BY <3>2
    <3>4. PICK u \in Views : u = With(v, i, g.in) /\ u[i] = g.in
      BY <1>0, WithViews
    <3>5. Owned(g.bits, g.tab, u) /\ Holds(g.tab, u[i], t, a)
      BY <3>4 DEF GOwned
    <3>6. Grown(g.bits, g.tab, u, g.bits \cup {p}, Linked(g.tab, p, t, k), u)
      BY <1>0, <1>2, <3>5, PutSlot, Zenon
    <3>7. Linked(g.tab, p, t, k) \in Tables
      BY <1>0, <1>2, <3>5, PutSlot, Zenon
    <3>8. Value(Linked(g.tab, p, t, k), u[i], a) \in {p}
      BY <1>0, <1>2, <3>5, PutSlot, Zenon
    <3> QED
      BY <1>0, <3>2, <3>3, <3>4, <3>6, <3>7, <3>8 DEF GGrown, G
  <2> QED
    BY <2>1, <2>3, <2>4, Allocated
<1> QED
  BY <1>0, <1>1, <1>2

-----------------------------------------------------------------------------
(***************************************************************************)
(* get_data_block_for_inode().                                             *)
(***************************************************************************)
\* Block n of the double indirect part has its slot in both levels.
LEMMA Slots ==
  ASSUME NEW n \in Nat, n < PER_BLOCK * PER_BLOCK
  PROVE  n \div PER_BLOCK \in K /\ n % PER_BLOCK \in K
<1> DEFINE q == n \div PER_BLOCK
           r == n % PER_BLOCK
<1>1. PER_BLOCK \in Nat \ {0}
  BY GeometryAssumption
<1>2. q \in Nat /\ r \in 0 .. (PER_BLOCK - 1) /\ n = PER_BLOCK * q + r
  BY <1>1
<1> HIDE DEF q, r
<1>3. ASSUME q >= PER_BLOCK PROVE FALSE
  <2>1. PER_BLOCK * q >= PER_BLOCK * PER_BLOCK
    BY <1>1, <1>2, <1>3
  <2> QED
    BY <1>1, <1>2, <2>1
<1>4. q < PER_BLOCK
  BY <1>1, <1>2, <1>3
<1> QED
  BY <1>1, <1>2, <1>4 DEF K, q, r

LEMMA MaxBlocksNat == MaxBlocks \in Nat /\ PER_BLOCK * PER_BLOCK \in Nat
BY GeometryAssumption DEF MaxBlocks

\* A read looks a block up at its place.
LEMMA LookUp ==
  ASSUME NEW l \in 0 .. (MaxBlocks - 1)
  PROVE  /\ DataPlace(l) \in Places
         /\ \A tb, n : DataBlock(tb, n, l) = Value(tb, n, DataPlace(l))
<1> DEFINE x == l - DIRECT_BLOCKS
           y == x - PER_BLOCK
<1>0. DIRECT_BLOCKS \in Nat /\ PER_BLOCK \in Nat /\ l \in Nat /\ PER_BLOCK * PER_BLOCK \in Nat
      /\ l < MaxBlocks
  BY GeometryAssumption, MaxBlocksNat
<1>1. CASE x < 0
  <2>1. l \in D /\ DataPlace(l) = <<"direct", 0, l>>
    BY <1>0, <1>1 DEF D, DataPlace
  <2>2. \A tb, n : DataBlock(tb, n, l) = n.direct[l]
    BY <1>1 DEF DataBlock
  <2> QED
    BY <2>1, <2>2, PlacesExist DEF Value
<1>2. CASE x >= 0 /\ x < PER_BLOCK
  <2>1. x \in K /\ DataPlace(l) = <<"single", 0, x>> /\ ~(x < 0)
    BY <1>0, <1>2 DEF K, DataPlace
  <2>2. \A tb, n : DataBlock(tb, n, l) = Entry(tb, n.indirect, x)
    BY <1>2, <2>1 DEF DataBlock, Entry
  <2> QED
    BY <2>1, <2>2, PlacesExist DEF Value
<1>3. CASE x >= PER_BLOCK
  <2>1. y \in Nat /\ y < PER_BLOCK * PER_BLOCK
    BY <1>0, <1>3 DEF MaxBlocks
  <2>2. y \div PER_BLOCK \in K /\ y % PER_BLOCK \in K
    BY <2>1, Slots
  <2>3. ~(x < 0) /\ ~(x < PER_BLOCK) /\ ~(y >= PER_BLOCK * PER_BLOCK)
        /\ ~(l < DIRECT_BLOCKS) /\ ~(l < DIRECT_BLOCKS + PER_BLOCK)
    BY <1>0, <1>3, <2>1
  <2>4. DataPlace(l) = <<"inner", y \div PER_BLOCK, y % PER_BLOCK>>
    BY <2>3 DEF DataPlace
  <2>5. \A tb, n : DataBlock(tb, n, l)
                     = Entry(tb, Entry(tb, n.double_indirect, y \div PER_BLOCK), y % PER_BLOCK)
    BY <2>3 DEF DataBlock, Entry
  <2>6. \A tb, n : Value(tb, n, <<"inner", y \div PER_BLOCK, y % PER_BLOCK>>)
                     = Entry(tb, Entry(tb, n.double_indirect, y \div PER_BLOCK), y % PER_BLOCK)
    BY DEF Value
  <2>7. <<"inner", y \div PER_BLOCK, y % PER_BLOCK>> \in Places
    BY <2>2, PlacesExist
  <2> HIDE DEF y
  <2> QED
    BY <2>4, <2>5, <2>6, <2>7
<1> QED
  BY <1>0, <1>1, <1>2, <1>3

LEMMA GGrownTrans ==
  ASSUME NEW v \in Views, NEW i \in Inodes, NEW g \in G, NEW h \in G, NEW s \in G,
         GGrown(v, i, g, h), GGrown(v, i, h, s)
  PROVE  GGrown(v, i, g, s)
<1>1. 0 \notin s.bits
  BY DEF G, Blocks
<1> QED
  BY <1>1, GrownTrans DEF GGrown

LEMMA GGrownOwned ==
  ASSUME NEW v, NEW i, NEW g, NEW h, GGrown(v, i, g, h)
  PROVE  GOwned(v, i, h)
BY DEF GGrown, GOwned, Grown

\* A lookup with allocation gives blocks only to empty places, whether it
\* succeeds or not; when it does, the block is where a read looks for it.
LEMMA GetBlock ==
  ASSUME NEW v \in Views, NEW i \in Inodes, NEW g \in G, GOwned(v, i, g),
         NEW l \in Nat, NEW r, r = get_data_block_for_inode(g, l)
  PROVE  /\ r \in G /\ GGrown(v, i, g, r)
         /\ r.phys # 0 => l < MaxBlocks /\ r.phys = DataBlock(r.tab, r.in, l)
<1> DEFINE x == l - DIRECT_BLOCKS
           y == x - PER_BLOCK
           Goal == /\ r \in G /\ GGrown(v, i, g, r)
                   /\ r.phys # 0 => l < MaxBlocks /\ r.phys = DataBlock(r.tab, r.in, l)
<1>0. DIRECT_BLOCKS \in Nat /\ PER_BLOCK \in Nat /\ l \in Nat /\ PER_BLOCK * PER_BLOCK \in Nat
  BY GeometryAssumption, MaxBlocksNat
<1>1. CASE x < 0
  <2>1. r = DirectSlot(g, l) /\ l \in D
    BY <1>0, <1>1 DEF get_data_block_for_inode, D
  <2>2. r \in G /\ GGrown(v, i, g, r) /\ r.phys = Value(r.tab, r.in, <<"direct", 0, l>>)
    BY <2>1, DirectSlotGrows
  <2>3. l < MaxBlocks
    BY <1>0, <1>1 DEF MaxBlocks
  <2>4. DataBlock(r.tab, r.in, l) = r.in.direct[l]
    BY <1>1 DEF DataBlock
  <2>5. Value(r.tab, r.in, <<"direct", 0, l>>) = r.in.direct[l]
    BY DEF Value
  <2> QED
    BY <2>2, <2>3, <2>4, <2>5
<1>2. CASE x >= 0 /\ x < PER_BLOCK
  <2>1. PICK h : h = IndirectBlock(g)
    OBVIOUS
  <2>2. h \in G /\ GGrown(v, i, g, h) /\ h.phys = h.in.indirect
    BY <2>1, IndirectBlockGrows
  <2>3. ~(x < 0) /\ x \in K /\ l < MaxBlocks
    BY <1>0, <1>2 DEF K, MaxBlocks
  <2>4. r = IF h.phys = 0 THEN h ELSE TableSlot(h, h.phys, x)
    BY <1>2, <2>1, <2>3 DEF get_data_block_for_inode
  <2>5. CASE h.phys = 0
    BY <2>2, <2>4, <2>5
  <2>6. CASE h.phys # 0
    <3> DEFINE a == <<"single", 0, x>>
    <3>1. PICK t \in Blocks : t = h.phys
      BY <2>2, <2>6 DEF G
    <3>2. r = TableSlot(h, t, x)
      BY <2>4, <2>6, <3>1
    <3>3. a \in Places /\ Holds(h.tab, h.in, t, a) /\ x = a[3]
      BY <2>2, <2>3, <3>1, PlacesExist DEF Holds
    <3>4. GOwned(v, i, h)
      BY <2>2, GGrownOwned
    <3>5. r \in G /\ GGrown(v, i, h, r) /\ r.phys = Value(r.tab, r.in, a)
      <4> HIDE DEF a, x
      <4> QED
        BY <2>2, <2>3, <3>2, <3>3, <3>4, TableSlotGrows
    <3>6. GGrown(v, i, g, r)
      BY <2>2, <3>5, GGrownTrans
    <3>7. DataBlock(r.tab, r.in, l) = Entry(r.tab, r.in.indirect, x)
      BY <1>2, <2>3 DEF DataBlock, Entry
    <3>8. Value(r.tab, r.in, a) = Entry(r.tab, r.in.indirect, x)
      BY DEF Value
    <3> QED
      BY <2>3, <3>5, <3>6, <3>7, <3>8
  <2> QED
    BY <2>5, <2>6
<1>3. CASE x >= PER_BLOCK /\ y >= PER_BLOCK * PER_BLOCK
  <2>1. ~(x < 0) /\ ~(x < PER_BLOCK)
    BY <1>0, <1>3
  <2>2. r = [g EXCEPT !.phys = 0]
    BY <1>3, <2>1 DEF get_data_block_for_inode
  <2>3. r \in G /\ r.bits = g.bits /\ r.tab = g.tab /\ r.in = g.in /\ r.phys = 0
    BY <2>2 DEF G
  <2>4. GGrown(v, i, g, r)
    BY <2>3, GrownRefl DEF GGrown, GOwned
  <2> QED
    BY <2>3, <2>4
<1>4. CASE x >= PER_BLOCK /\ ~(y >= PER_BLOCK * PER_BLOCK)
  <2> DEFINE j == y \div PER_BLOCK
             k == y % PER_BLOCK
  <2>1. ~(x < 0) /\ ~(x < PER_BLOCK) /\ l < MaxBlocks /\ y \in Nat /\ y < PER_BLOCK * PER_BLOCK
    BY <1>0, <1>4 DEF MaxBlocks
  <2>2. j \in K /\ k \in K
    BY <2>1, Slots
  <2>3. PICK h : h = DoubleIndirectBlock(g)
    OBVIOUS
  <2>4. h \in G /\ GGrown(v, i, g, h) /\ h.phys = h.in.double_indirect
    BY <2>3, DoubleIndirectBlockGrows
  <2>5. PICK s : s = IF h.phys = 0 THEN h ELSE TableSlot(h, h.phys, j)
    OBVIOUS
  <2>6. r = IF s.phys = 0 THEN s ELSE TableSlot(s, s.phys, k)
    BY <1>4, <2>1, <2>3, <2>5 DEF get_data_block_for_inode
  <2>7. DataBlock(r.tab, r.in, l) = Entry(r.tab, Entry(r.tab, r.in.double_indirect, j), k)
    BY <1>4, <2>1 DEF DataBlock, Entry
  <2> HIDE DEF j, k, y, x
  <2>8. CASE h.phys = 0
    BY <2>4, <2>5, <2>6, <2>8
  <2>9. CASE h.phys # 0
    <3> DEFINE a == <<"outer", 0, j>>
    <3>1. PICK t \in Blocks : t = h.phys
      BY <2>4, <2>9 DEF G
    <3>2. s = TableSlot(h, t, j)
      BY <2>5, <2>9, <3>1
    <3>3. a \in Places /\ Holds(h.tab, h.in, t, a) /\ j = a[3]
      BY <2>2, <2>4, <3>1, PlacesExist DEF Holds
    <3>4. GOwned(v, i, h)
      BY <2>4, GGrownOwned
    <3>5. s \in G /\ GGrown(v, i, h, s) /\ s.phys = Value(s.tab, s.in, a)
      <4> HIDE DEF a
      <4> QED
        BY <2>2, <2>4, <3>2, <3>3, <3>4, TableSlotGrows
    <3>6. GGrown(v, i, g, s) /\ GOwned(v, i, s)
      BY <2>4, <3>5, GGrownTrans, GGrownOwned
    <3>7. s.phys = Entry(s.tab, s.in.double_indirect, j)
      BY <3>5 DEF Value
    <3>8. CASE s.phys = 0
      BY <2>6, <3>5, <3>6, <3>8
    <3>9. CASE s.phys # 0
      <4> DEFINE c == <<"inner", j, k>>
      <4>1. PICK w \in Blocks : w = s.phys
        BY <3>5, <3>9 DEF G
      <4>2. r = TableSlot(s, w, k)
        BY <2>6, <3>9, <4>1
      <4>3. c \in Places /\ Holds(s.tab, s.in, w, c) /\ k = c[3]
        BY <2>2, <3>7, <4>1, PlacesExist DEF Holds
      <4>4. r \in G /\ GGrown(v, i, s, r) /\ r.phys = Value(r.tab, r.in, c)
        <5> HIDE DEF c
        <5> QED
          BY <2>2, <3>5, <3>6, <4>2, <4>3, TableSlotGrows
      <4>5. GGrown(v, i, g, r)
        BY <3>5, <3>6, <4>4, GGrownTrans
      <4>6. Value(r.tab, r.in, c) = Entry(r.tab, Entry(r.tab, r.in.double_indirect, j), k)
        BY DEF Value
      <4> QED
        BY <2>1, <2>7, <4>4, <4>5, <4>6
    <3> QED
      BY <3>8, <3>9
  <2> QED
    BY <2>8, <2>9
<1> QED
  BY <1>0, <1>1, <1>2, <1>3, <1>4

\* What the pieces of get_data_block_for_inode() leave alone: blocks that were
\* allocated before keep what they hold, but for the slot filled last.
LEMMA TableSlotKeeps ==
  ASSUME NEW h \in G, NEW t \in Blocks, NEW k \in K, NEW s, s = TableSlot(h, t, k)
  PROVE  /\ s.in = h.in
         /\ s.phys = 0 => s.tab = h.tab
         /\ \A b \in h.bits \ {t} : s.tab[b] = h.tab[b]
<1>0. h.tab \in Tables /\ h.bits \in SUBSET Blocks
  BY DEF G
<1>1. CASE h.tab[t][k] # 0
  <2>1. s = [h EXCEPT !.phys = h.tab[t][k]]
    BY <1>1 DEF TableSlot
  <2>2. s.in = h.in /\ s.tab = h.tab
    BY <2>1 DEF G
  <2> QED
    BY <2>2
<1>2. CASE h.tab[t][k] = 0
  <2>1. PICK a : a = allocate_block(h)
    OBVIOUS
  <2>2. s = IF a.phys = 0 THEN a ELSE [a EXCEPT !.tab[t][k] = a.phys]
    BY <1>2, <2>1 DEF TableSlot
  <2>3. CASE a = [h EXCEPT !.phys = 0]
    <3>1. s.in = h.in /\ s.tab = h.tab
      BY <2>2, <2>3 DEF G
    <3> QED
      BY <3>1
  <2>4. ASSUME NEW p \in Blocks \ h.bits,
               a = [bits |-> h.bits \cup {p}, tab |-> Wiped(h.tab, p), in |-> h.in, phys |-> p]
        PROVE  /\ s.in = h.in /\ s.phys # 0
               /\ \A b \in h.bits \ {t} : s.tab[b] = h.tab[b]
    <3>1. p # 0
      BY DEF Blocks
    <3>2. s = [bits |-> h.bits \cup {p}, tab |-> Linked(h.tab, p, t, k), in |-> h.in, phys |-> p]
      BY <2>2, <2>4, <3>1 DEF Linked
    <3>3. s.in = h.in /\ s.phys = p /\ s.tab = Linked(h.tab, p, t, k)
      BY <3>2
    <3>4. \A b \in h.bits \ {t} : Linked(h.tab, p, t, k)[b] = h.tab[b]
      BY <1>0 DEF Linked, Wiped, Tables
    <3> QED
      BY <3>1, <3>3, <3>4
  <2> QED
    BY <2>1, <2>3, <2>4, Allocated
<1> QED
  BY <1>1, <1>2

\* A pointer block of the inode itself is new exactly if the inode changes.
PointerBlockKeeps(g, h) ==
  /\ g.bits \subseteq h.bits
  /\ \A b \in g.bits : h.tab[b] = g.tab[b]
  /\ h.in = g.in \/ (h.phys # 0 /\ h.phys \notin g.bits)

LEMMA IndirectBlockKeeps ==
  ASSUME NEW g \in G
  PROVE  PointerBlockKeeps(g, IndirectBlock(g)) /\ PointerBlockKeeps(g, DoubleIndirectBlock(g))
<1>0. g.in \in Inode /\ g.tab \in Tables /\ g.bits \in SUBSET Blocks
  BY DEF G
<1>1. ASSUME NEW w, NEW h, h = [g EXCEPT !.phys = w] PROVE PointerBlockKeeps(g, h)
  <2>1. h.bits = g.bits /\ h.tab = g.tab /\ h.in = g.in
    BY <1>1 DEF G
  <2> QED
    BY <2>1 DEF PointerBlockKeeps
<1>2. PICK a : a = allocate_block(g)
  OBVIOUS
<1>3. ASSUME NEW m, NEW h, a.phys = 0 => m = g.in,
             h.bits = a.bits, h.tab = a.tab, h.in = m, h.phys = a.phys
      PROVE  PointerBlockKeeps(g, h)
  <2>1. CASE a = [g EXCEPT !.phys = 0]
    <3>1. a.bits = g.bits /\ a.tab = g.tab /\ a.phys = 0
      BY <2>1 DEF G
    <3> QED
      BY <1>3, <3>1 DEF PointerBlockKeeps
  <2>2. ASSUME NEW p \in Blocks \ g.bits,
               a = [bits |-> g.bits \cup {p}, tab |-> Wiped(g.tab, p), in |-> g.in, phys |-> p]
        PROVE  PointerBlockKeeps(g, h)
    <3>1. p # 0 /\ a.bits = g.bits \cup {p} /\ a.tab = Wiped(g.tab, p) /\ a.phys = p
      BY <2>2 DEF Blocks
    <3>2. \A b \in g.bits : Wiped(g.tab, p)[b] = g.tab[b]
      BY <1>0 DEF Wiped, Tables
    <3> QED
      BY <1>3, <3>1, <3>2 DEF PointerBlockKeeps
  <2> QED
    BY <1>2, <2>1, <2>2, Allocated
<1>4. a.in = g.in /\ a = [bits |-> a.bits, tab |-> a.tab, in |-> a.in, phys |-> a.phys]
  <2>1. CASE a = [g EXCEPT !.phys = 0]
    BY <2>1 DEF G
  <2>2. ASSUME NEW p \in Blocks \ g.bits,
               a = [bits |-> g.bits \cup {p}, tab |-> Wiped(g.tab, p), in |-> g.in, phys |-> p]
        PROVE  a.in = g.in /\ a = [bits |-> a.bits, tab |-> a.tab, in |-> a.in, phys |-> a.phys]
    BY <2>2
  <2> QED
    BY <1>2, <2>1, <2>2, Allocated
<1>5. PointerBlockKeeps(g, IndirectBlock(g))
  <2>1. CASE g.in.indirect # 0
    BY <1>1, <2>1 DEF IndirectBlock
  <2>2. CASE g.in.indirect = 0
    <3>1. PICK h : h = [a EXCEPT !.in.indirect = a.phys]
      OBVIOUS
    <3>2. /\ h.bits = a.bits /\ h.tab = a.tab /\ h.phys = a.phys
          /\ h.in = SetIndirect(g.in, a.phys)
      BY <1>4, <3>1 DEF SetIndirect
    <3>3. a.phys = 0 => SetIndirect(g.in, a.phys) = g.in
      BY <1>0, <2>2 DEF SetIndirect, Inode
    <3>4. h = IndirectBlock(g)
      BY <1>2, <2>2, <3>1 DEF IndirectBlock
    <3>5. PointerBlockKeeps(g, h)
      BY <1>3, <3>2, <3>3
    <3> QED
      BY <3>4, <3>5
  <2> QED
    BY <2>1, <2>2
<1>6. PointerBlockKeeps(g, DoubleIndirectBlock(g))
  <2>1. CASE g.in.double_indirect # 0
    BY <1>1, <2>1 DEF DoubleIndirectBlock
  <2>2. CASE g.in.double_indirect = 0
    <3>1. PICK h : h = [a EXCEPT !.in.double_indirect = a.phys]
      OBVIOUS
    <3>2. /\ h.bits = a.bits /\ h.tab = a.tab /\ h.phys = a.phys
          /\ h.in = SetDouble(g.in, a.phys)
      BY <1>4, <3>1 DEF SetDouble
    <3>3. a.phys = 0 => SetDouble(g.in, a.phys) = g.in
      BY <1>0, <2>2 DEF SetDouble, Inode
    <3>4. h = DoubleIndirectBlock(g)
      BY <1>2, <2>2, <3>1 DEF DoubleIndirectBlock
    <3>5. PointerBlockKeeps(g, h)
      BY <1>3, <3>2, <3>3
    <3> QED
      BY <3>4, <3>5
  <2> QED
    BY <2>1, <2>2
<1> QED
  BY <1>5, <1>6

\* A lookup that fails left the inode as it was, or put nothing into the
\* blocks that were allocated before.
LEMMA FailedLookUp ==
  ASSUME NEW v \in Views, NEW i \in Inodes, NEW g \in G, GOwned(v, i, g),
         NEW l \in Nat, NEW r, r = get_data_block_for_inode(g, l), r.phys = 0
  PROVE  r.in = g.in \/ \A b \in g.bits : r.tab[b] = g.tab[b]
<1> DEFINE x == l - DIRECT_BLOCKS
           y == x - PER_BLOCK
<1>0. DIRECT_BLOCKS \in Nat /\ PER_BLOCK \in Nat /\ l \in Nat /\ PER_BLOCK * PER_BLOCK \in Nat
  BY GeometryAssumption, MaxBlocksNat
<1>1. CASE x < 0
  <2>1. r = DirectSlot(g, l)
    BY <1>0, <1>1 DEF get_data_block_for_inode
  <2>2. CASE g.in.direct[l] # 0
    <3>1. r = [g EXCEPT !.phys = g.in.direct[l]]
      BY <2>1, <2>2 DEF DirectSlot
    <3> QED
      BY <3>1 DEF G
  <2>3. CASE g.in.direct[l] = 0
    <3>1. PICK a : a = allocate_block(g)
      OBVIOUS
    <3>2. r = IF a.phys = 0 THEN a ELSE [a EXCEPT !.in.direct[l] = a.phys]
      BY <2>1, <2>3, <3>1 DEF DirectSlot
    <3>3. CASE a = [g EXCEPT !.phys = 0]
      BY <3>2, <3>3 DEF G
    <3>4. ASSUME NEW p \in Blocks \ g.bits,
                 a = [bits |-> g.bits \cup {p}, tab |-> Wiped(g.tab, p), in |-> g.in, phys |-> p]
          PROVE  FALSE
      <4>1. p # 0
        BY DEF Blocks
      <4>2. r.phys = p
        BY <3>2, <3>4, <4>1
      <4> QED
        BY <4>1, <4>2
    <3> QED
      BY <3>1, <3>3, <3>4, Allocated
  <2> QED
    BY <2>2, <2>3
<1>2. CASE x >= 0 /\ x < PER_BLOCK
  <2>1. PICK h : h = IndirectBlock(g)
    OBVIOUS
  <2>2. h \in G /\ PointerBlockKeeps(g, h)
    BY <2>1, IndirectBlockGrows, IndirectBlockKeeps
  <2>3. ~(x < 0) /\ x \in K
    BY <1>0, <1>2 DEF K
  <2>4. r = IF h.phys = 0 THEN h ELSE TableSlot(h, h.phys, x)
    BY <1>2, <2>1, <2>3 DEF get_data_block_for_inode
  <2>5. CASE h.phys = 0
    BY <2>2, <2>4, <2>5 DEF PointerBlockKeeps
  <2>6. CASE h.phys # 0
    <3>1. PICK t \in Blocks : t = h.phys
      BY <2>2, <2>6 DEF G
    <3>2. r = TableSlot(h, t, x)
      BY <2>4, <2>6, <3>1
    <3> HIDE DEF x
    <3>3. r.tab = h.tab
      BY <2>2, <2>3, <3>2, TableSlotKeeps
    <3> QED
      BY <2>2, <3>3 DEF PointerBlockKeeps
  <2> QED
    BY <2>5, <2>6
<1>3. CASE x >= PER_BLOCK /\ y >= PER_BLOCK * PER_BLOCK
  <2>1. ~(x < 0) /\ ~(x < PER_BLOCK)
    BY <1>0, <1>3
  <2>2. r = [g EXCEPT !.phys = 0]
    BY <1>3, <2>1 DEF get_data_block_for_inode
  <2> QED
    BY <2>2 DEF G
<1>4. CASE x >= PER_BLOCK /\ ~(y >= PER_BLOCK * PER_BLOCK)
  <2> DEFINE j == y \div PER_BLOCK
             k == y % PER_BLOCK
  <2>1. ~(x < 0) /\ ~(x < PER_BLOCK) /\ y \in Nat /\ y < PER_BLOCK * PER_BLOCK
    BY <1>0, <1>4
  <2>2. j \in K /\ k \in K
    BY <2>1, Slots
  <2>3. PICK h : h = DoubleIndirectBlock(g)
    OBVIOUS
  <2>4. h \in G /\ PointerBlockKeeps(g, h) /\ GGrown(v, i, g, h) /\ h.phys = h.in.double_indirect
    BY <2>3, DoubleIndirectBlockGrows, IndirectBlockKeeps
  <2>5. PICK s : s = IF h.phys = 0 THEN h ELSE TableSlot(h, h.phys, j)
    OBVIOUS
  <2>6. r = IF s.phys = 0 THEN s ELSE TableSlot(s, s.phys, k)
    BY <1>4, <2>1, <2>3, <2>5 DEF get_data_block_for_inode
  <2> HIDE DEF j, k, y, x
  <2>8. CASE h.phys = 0
    BY <2>4, <2>5, <2>6, <2>8 DEF PointerBlockKeeps
  <2>9. CASE h.phys # 0
    <3> DEFINE a == <<"outer", 0, j>>
    <3>1. PICK t \in Blocks : t = h.phys
      BY <2>4, <2>9 DEF G
    <3>2. s = TableSlot(h, t, j)
      BY <2>5, <2>9, <3>1
    <3>3. a \in Places /\ Holds(h.tab, h.in, t, a) /\ j = a[3]
      BY <2>2, <2>4, <3>1, PlacesExist DEF Holds
    <3>4. GOwned(v, i, h)
      BY <2>4, GGrownOwned
    <3>5. s \in G
      <4> HIDE DEF a
      <4> QED
        BY <2>2, <2>4, <3>2, <3>3, <3>4, TableSlotGrows
    <3>6. /\ s.in = h.in
          /\ s.phys = 0 => s.tab = h.tab
          /\ \A b \in h.bits \ {t} : s.tab[b] = h.tab[b]
      BY <2>2, <2>4, <3>2, TableSlotKeeps
    <3>7. r.in = s.in /\ r.tab = s.tab
      <4>1. CASE s.phys = 0
        BY <2>6, <4>1
      <4>2. CASE s.phys # 0
        <5>1. PICK w \in Blocks : w = s.phys
          BY <3>5, <4>2 DEF G
        <5>2. r = TableSlot(s, w, k)
          BY <2>6, <4>2, <5>1
        <5> QED
          BY <2>2, <3>5, <5>2, TableSlotKeeps
      <4> QED
        BY <4>1, <4>2
    <3>8. CASE h.in = g.in
      BY <3>6, <3>7, <3>8
    <3>9. CASE h.phys \notin g.bits
      BY <2>4, <3>1, <3>6, <3>7, <3>9 DEF PointerBlockKeeps
    <3> QED
      BY <2>4, <3>8, <3>9 DEF PointerBlockKeeps
  <2> QED
    BY <2>8, <2>9
<1> QED
  BY <1>0, <1>1, <1>2, <1>3, <1>4

-----------------------------------------------------------------------------
(***************************************************************************)
(* What the calls do to the invariant.                                     *)
(***************************************************************************)
\* Allocation keeps it.
LEMMA GoodGrown ==
  ASSUME NEW bits \in SUBSET Blocks, NEW tb, NEW v, NEW ls, NEW b2, NEW t2, NEW v2,
         Good(bits, tb, v, ls), Grown(bits, tb, v, b2, t2, v2)
  PROVE  Good(b2, t2, v2, ls)
<1> DEFINE x(i, a) == Value(tb, v[i], a)
           y(i, a) == Value(t2, v2[i], a)
<1>1. /\ bits \subseteq b2 /\ Owned(b2, t2, v2) /\ ls \subseteq bits /\ 0 \notin bits
      /\ \A i \in Inodes, a \in Places : x(i, a) \in {0, y(i, a)}
      /\ \A i \in Inodes, a \in Places : y(i, a) \in bits => x(i, a) = y(i, a)
      /\ \A b \in b2 \ bits : \E i \in Inodes, a \in Places : y(i, a) = b
      /\ \A i \in Inodes, a \in Places : x(i, a) \notin ls
      /\ \A b \in bits \ ls : \E i \in Inodes, a \in Places : x(i, a) = b
  BY DEF Good, Grown, Blocks
<1> HIDE DEF x, y
<1>2. \A i \in Inodes, a \in Places : y(i, a) \notin ls
  BY <1>1
<1>3. \A b \in b2 \ ls : \E i \in Inodes, a \in Places : y(i, a) = b
  BY <1>1
<1> QED
  BY <1>1, <1>2, <1>3 DEF Good, x, y

\* Pointers of one inode go, and their blocks are freed or lost.
LEMMA GoodDropped ==
  ASSUME NEW bits \in SUBSET Blocks, NEW tb, NEW v \in Views, NEW ls, NEW i \in Inodes, NEW m, NEW F,
         Good(bits, tb, v, ls), Drops(tb, v[i], m, F)
  PROVE  /\ Good(bits \ F, tb, With(v, i, m), ls)
         /\ Good(bits, tb, With(v, i, m), ls \cup F)
<1> DEFINE x(j, a) == Value(tb, v[j], a)
           y(j, a) == Value(tb, With(v, i, m)[j], a)
<1>0. \A j \in Inodes : With(v, i, m)[j] = IF j = i THEN m ELSE v[j]
  BY DEF Views, With
<1>1. /\ \A j \in Inodes, a \in Places : j # i => y(j, a) = x(j, a)
      /\ \A a \in Places : y(i, a) \in {0, x(i, a)}
      /\ \A a \in Places : y(i, a) = 0 /\ x(i, a) # 0 => x(i, a) \in F
      /\ \A b \in F : b # 0 /\ \E a \in Places : x(i, a) = b /\ y(i, a) = 0
  BY <1>0 DEF Drops
<1>2. /\ ls \subseteq bits /\ 0 \notin bits
      /\ \A j \in Inodes, a \in Places : x(j, a) # 0 => x(j, a) \in bits
      /\ \A j, l \in Inodes, a, c \in Places : x(j, a) = x(l, c) /\ x(j, a) # 0 => j = l /\ a = c
      /\ \A j \in Inodes, a \in Places : x(j, a) \notin ls
      /\ \A b \in bits \ ls : \E j \in Inodes, a \in Places : x(j, a) = b
  BY DEF Good, Owned, Blocks
<1> HIDE DEF x, y
<1>3. \A j \in Inodes, a \in Places : y(j, a) # 0 => y(j, a) = x(j, a)
  BY <1>1
<1>4. \A j \in Inodes, a \in Places : y(j, a) # 0 => y(j, a) \notin F
  <2> SUFFICES ASSUME NEW j \in Inodes, NEW a \in Places, y(j, a) # 0, y(j, a) \in F PROVE FALSE
    OBVIOUS
  <2>1. PICK c \in Places : x(i, c) = y(j, a) /\ y(i, c) = 0
    BY <1>1
  <2>2. x(j, a) = x(i, c) /\ x(j, a) # 0
    BY <1>3, <2>1
  <2>3. j = i /\ a = c
    BY <1>2, <2>2
  <2> QED
    BY <2>1, <2>3
<1>5. \A j, l \in Inodes, a, c \in Places : y(j, a) = y(l, c) /\ y(j, a) # 0 => j = l /\ a = c
  <2> SUFFICES ASSUME NEW j \in Inodes, NEW l \in Inodes, NEW a \in Places, NEW c \in Places,
                      y(j, a) = y(l, c), y(j, a) # 0
               PROVE  j = l /\ a = c
    OBVIOUS
  <2>1. x(j, a) = x(l, c) /\ x(j, a) # 0
    BY <1>3
  <2> QED
    BY <1>2, <2>1
<1>6. F \subseteq bits /\ (\A b \in F : b \notin ls)
  BY <1>1, <1>2
<1>7. \A j \in Inodes, a \in Places : y(j, a) \notin ls /\ y(j, a) \notin ls \cup F
  <2>1. 0 \notin ls /\ 0 \notin F
    BY <1>1, <1>2
  <2> QED
    BY <2>1, <1>2, <1>3, <1>4
<1>8. \A j \in Inodes, a \in Places : y(j, a) # 0 => y(j, a) \in bits \ F
  BY <1>2, <1>3, <1>4
<1>9. \A b \in (bits \ F) \ ls : \E j \in Inodes, a \in Places : y(j, a) = b
  <2> SUFFICES ASSUME NEW b \in (bits \ F) \ ls
               PROVE  \E j \in Inodes, a \in Places : y(j, a) = b
    OBVIOUS
  <2>1. PICK j \in Inodes, a \in Places : x(j, a) = b
    BY <1>2
  <2>2. y(j, a) = b
    <3>1. CASE j = i
      BY <1>1, <1>2, <2>1, <3>1
    <3>2. CASE j # i
      BY <1>1, <2>1, <3>2
    <3> QED
      BY <3>1, <3>2
  <2> QED
    BY <2>2
<1>10. \A b \in bits \ (ls \cup F) : \E j \in Inodes, a \in Places : y(j, a) = b
  BY <1>9
<1>11. Owned(bits \ F, tb, With(v, i, m)) /\ Owned(bits, tb, With(v, i, m))
  BY <1>5, <1>8 DEF Owned, y
<1>12. ls \subseteq bits \ F /\ ls \cup F \subseteq bits
  BY <1>2, <1>6
<1> QED
  BY <1>7, <1>9, <1>10, <1>11, <1>12 DEF Good, y

\* The size of a file is no pointer.
LEMMA SizeIsNoPointer ==
  ASSUME NEW tb, NEW n \in Inode, NEW x, NEW a
  PROVE  Value(tb, [n EXCEPT !.size = x], a) = Value(tb, n, a)
<1>1. /\ [n EXCEPT !.size = x].direct = n.direct /\ [n EXCEPT !.size = x].indirect = n.indirect
      /\ [n EXCEPT !.size = x].double_indirect = n.double_indirect
  BY DEF Inode
<1> QED
  BY <1>1 DEF Value

\* Pointers are all an inode contributes.
LEMMA GoodSame ==
  ASSUME NEW bits, NEW tb, NEW v, NEW ls, NEW v2, Good(bits, tb, v, ls),
         \A j \in Inodes, a \in Places : Value(tb, v2[j], a) = Value(tb, v[j], a)
  PROVE  Good(bits, tb, v2, ls)
<1> DEFINE x(j, a) == Value(tb, v[j], a)
           y(j, a) == Value(tb, v2[j], a)
<1>1. /\ ls \subseteq bits
      /\ \A j \in Inodes, a \in Places : x(j, a) # 0 => x(j, a) \in bits
      /\ \A j, l \in Inodes, a, c \in Places : x(j, a) = x(l, c) /\ x(j, a) # 0 => j = l /\ a = c
      /\ \A j \in Inodes, a \in Places : x(j, a) \notin ls
      /\ \A b \in bits \ ls : \E j \in Inodes, a \in Places : x(j, a) = b
      /\ \A j \in Inodes, a \in Places : y(j, a) = x(j, a)
  BY DEF Good, Owned
<1> HIDE DEF x, y
<1>2. /\ \A j \in Inodes, a \in Places : y(j, a) # 0 => y(j, a) \in bits
      /\ \A j, l \in Inodes, a, c \in Places : y(j, a) = y(l, c) /\ y(j, a) # 0 => j = l /\ a = c
      /\ \A j \in Inodes, a \in Places : y(j, a) \notin ls
      /\ \A b \in bits \ ls : \E j \in Inodes, a \in Places : y(j, a) = b
  BY <1>1
<1> QED
  BY <1>1, <1>2 DEF Good, Owned, y

\* Blocks taken for an inode copy that is dropped are lost, and nothing else
\* changes: no file looks into them.
LEMMA GoodLost ==
  ASSUME NEW bits \in SUBSET Blocks, NEW tb \in Tables, NEW v \in Views, NEW ls, NEW b2 \in SUBSET Blocks, NEW t2,
         Good(bits, tb, v, ls), bits \subseteq b2, \A b \in bits : t2[b] = tb[b]
  PROVE  Good(b2, t2, v, ls \cup (b2 \ bits))
<1> DEFINE x(i, a) == Value(tb, v[i], a)
           y(i, a) == Value(t2, v[i], a)
<1>1. /\ ls \subseteq bits /\ 0 \notin bits /\ 0 \notin b2
      /\ \A i \in Inodes, a \in Places : x(i, a) # 0 => x(i, a) \in bits
      /\ \A i, j \in Inodes, a, c \in Places : x(i, a) = x(j, c) /\ x(i, a) # 0 => i = j /\ a = c
      /\ \A i \in Inodes, a \in Places : x(i, a) \notin ls
      /\ \A b \in bits \ ls : \E i \in Inodes, a \in Places : x(i, a) = b
  BY DEF Good, Owned, Blocks
<1>2. ASSUME NEW t, t = 0 \/ t \in bits, NEW k PROVE Entry(t2, t, k) = Entry(tb, t, k)
  BY <1>2 DEF Entry
<1>3. ASSUME NEW i \in Inodes, NEW a \in Places PROVE y(i, a) = x(i, a)
  <2> DEFINE n == v[i]
  <2>1. n.indirect = 0 \/ n.indirect \in bits
    <3>1. x(i, <<"indirect", 0, 0>>) = n.indirect /\ <<"indirect", 0, 0>> \in Places
      BY PlacesExist DEF Value
    <3> QED
      BY <1>1, <3>1
  <2>2. n.double_indirect = 0 \/ n.double_indirect \in bits
    <3>1. x(i, <<"double", 0, 0>>) = n.double_indirect /\ <<"double", 0, 0>> \in Places
      BY PlacesExist DEF Value
    <3> QED
      BY <1>1, <3>1
  <2>3. ASSUME NEW j \in K
        PROVE  Entry(tb, n.double_indirect, j) = 0 \/ Entry(tb, n.double_indirect, j) \in bits
    <3>1. x(i, <<"outer", 0, j>>) = Entry(tb, n.double_indirect, j) /\ <<"outer", 0, j>> \in Places
      BY PlacesExist DEF Value
    <3> QED
      BY <1>1, <3>1
  <2> HIDE DEF n
  <2>4. CASE \/ \E k \in D : a = <<"direct", 0, k>>
             \/ a = <<"indirect", 0, 0>> \/ a = <<"double", 0, 0>>
    <3>1. Value(t2, n, a) = Value(tb, n, a)
      BY <2>4 DEF Value
    <3> QED
      BY <3>1 DEF n
  <2>5. CASE \E k \in K : a = <<"single", 0, k>>
    <3>1. PICK k \in K : a = <<"single", 0, k>>
      BY <2>5
    <3>2. Value(t2, n, a) = Entry(t2, n.indirect, k) /\ Value(tb, n, a) = Entry(tb, n.indirect, k)
      BY <3>1 DEF Value
    <3> QED
      BY <1>2, <2>1, <3>2 DEF n
  <2>6. CASE \E k \in K : a = <<"outer", 0, k>>
    <3>1. PICK k \in K : a = <<"outer", 0, k>>
      BY <2>6
    <3>2. /\ Value(t2, n, a) = Entry(t2, n.double_indirect, k)
          /\ Value(tb, n, a) = Entry(tb, n.double_indirect, k)
      BY <3>1 DEF Value
    <3> QED
      BY <1>2, <2>2, <3>2 DEF n
  <2>7. CASE \E j, k \in K : a = <<"inner", j, k>>
    <3>1. PICK j \in K, k \in K : a = <<"inner", j, k>>
      BY <2>7
    <3>2. /\ Value(t2, n, a) = Entry(t2, Entry(t2, n.double_indirect, j), k)
          /\ Value(tb, n, a) = Entry(tb, Entry(tb, n.double_indirect, j), k)
      BY <3>1 DEF Value
    <3>3. Entry(t2, n.double_indirect, j) = Entry(tb, n.double_indirect, j)
      BY <1>2, <2>2
    <3>4. Value(t2, n, a) = Value(tb, n, a)
      BY <1>2, <2>3, <3>2, <3>3
    <3> QED
      BY <3>4 DEF n
  <2> QED
    BY <2>4, <2>5, <2>6, <2>7, PlaceCases
<1> HIDE DEF x, y
<1>4. /\ \A i \in Inodes, a \in Places : y(i, a) # 0 => y(i, a) \in b2
      /\ \A i, j \in Inodes, a, c \in Places : y(i, a) = y(j, c) /\ y(i, a) # 0 => i = j /\ a = c
      /\ \A b \in b2 \ (ls \cup (b2 \ bits)) : \E i \in Inodes, a \in Places : y(i, a) = b
  BY <1>1, <1>3
<1>5. ls \cup (b2 \ bits) \subseteq b2
  BY <1>1
<1>6. ASSUME NEW i \in Inodes, NEW a \in Places PROVE y(i, a) \notin ls \cup (b2 \ bits)
  <2>1. CASE y(i, a) = 0
    BY <1>1, <1>3, <2>1
  <2>2. CASE y(i, a) # 0
    BY <1>1, <1>3, <2>2
  <2> QED
    BY <2>1, <2>2
<1> QED
  BY <1>4, <1>5, <1>6 DEF Good, Owned, y

\* The pointers the properties speak of are the values of the places.
LEMMA PointersAre ==
  ASSUME TypeOK, NEW i \in Inodes
  PROVE  Pointers(i) = {<<a[1], a[2], a[3], Value(tab, View(i), a)>> :
                          a \in {c \in Places : Value(tab, View(i), c) # 0}}
<1> DEFINE n == View(i)
           e == n.double_indirect
           R == {<<a[1], a[2], a[3], Value(tab, n, a)>> : a \in {c \in Places : Value(tab, n, c) # 0}}
<1>0. DOMAIN NoTable = K
  BY DEF NoTable, K
<1>1. n \in Inode /\ DOMAIN n.direct = D
  BY DEF TypeOK, View, Inode, D
<1> DEFINE L == {<<"direct", 0, k, n.direct[k]>> : k \in D}
                \cup {<<"indirect", 0, 0, n.indirect>>, <<"double", 0, 0, e>>}
                \cup InTable("single", 0, n.indirect)
                \cup InTable("outer", 0, e)
                \cup (IF e = 0 THEN {} ELSE UNION {InTable("inner", k, tab[e][k]) : k \in K})
<1>2. Pointers(i) = {p \in L : p[4] # 0}
  BY <1>0, <1>1 DEF Pointers
<1> HIDE DEF n, e
<1>3. ASSUME NEW p \in L, p[4] # 0 PROVE p \in R
  <2>1. CASE \E k \in D : p = <<"direct", 0, k, n.direct[k]>>
    <3>1. PICK k \in D : p = <<"direct", 0, k, n.direct[k]>>
      BY <2>1
    <3>2. Value(tab, n, <<"direct", 0, k>>) = n.direct[k] /\ <<"direct", 0, k>> \in Places
      BY PlacesExist DEF Value
    <3> QED
      BY <1>3, <3>1, <3>2
  <2>2. CASE p = <<"indirect", 0, 0, n.indirect>>
    <3>2. Value(tab, n, <<"indirect", 0, 0>>) = n.indirect /\ <<"indirect", 0, 0>> \in Places
      BY PlacesExist DEF Value
    <3> QED
      BY <1>3, <2>2, <3>2
  <2>3. CASE p = <<"double", 0, 0, e>>
    <3>2. Value(tab, n, <<"double", 0, 0>>) = e /\ <<"double", 0, 0>> \in Places
      BY PlacesExist DEF Value, e
    <3> QED
      BY <1>3, <2>3, <3>2
  <2>4. CASE p \in InTable("single", 0, n.indirect)
    <3>1. PICK k \in K : p = <<"single", 0, k, tab[n.indirect][k]>> /\ n.indirect # 0
      BY <1>0, <2>4 DEF InTable
    <3>2. Value(tab, n, <<"single", 0, k>>) = tab[n.indirect][k] /\ <<"single", 0, k>> \in Places
      BY <3>1, PlacesExist DEF Value, Entry
    <3> QED
      BY <1>3, <3>1, <3>2
  <2>5. CASE p \in InTable("outer", 0, e)
    <3>1. PICK k \in K : p = <<"outer", 0, k, tab[e][k]>> /\ e # 0
      BY <1>0, <2>5 DEF InTable
    <3>2. Value(tab, n, <<"outer", 0, k>>) = tab[e][k] /\ <<"outer", 0, k>> \in Places
      BY <3>1, PlacesExist DEF Value, Entry, e
    <3> QED
      BY <1>3, <3>1, <3>2
  <2>6. CASE e # 0 /\ \E j \in K : p \in InTable("inner", j, tab[e][j])
    <3>1. PICK j \in K : p \in InTable("inner", j, tab[e][j])
      BY <2>6
    <3>2. PICK k \in K : p = <<"inner", j, k, tab[tab[e][j]][k]>> /\ tab[e][j] # 0
      BY <1>0, <3>1 DEF InTable
    <3>3. Value(tab, n, <<"inner", j, k>>) = tab[tab[e][j]][k] /\ <<"inner", j, k>> \in Places
      BY <2>6, <3>2, PlacesExist DEF Value, Entry, e
    <3> QED
      BY <1>3, <3>2, <3>3
  <2>7. \/ \E k \in D : p = <<"direct", 0, k, n.direct[k]>>
        \/ p = <<"indirect", 0, 0, n.indirect>>
        \/ p = <<"double", 0, 0, e>>
        \/ p \in InTable("single", 0, n.indirect)
        \/ p \in InTable("outer", 0, e)
        \/ e # 0 /\ \E j \in K : p \in InTable("inner", j, tab[e][j])
    BY <1>3
  <2> QED
    BY <2>1, <2>2, <2>3, <2>4, <2>5, <2>6, <2>7
<1>4. ASSUME NEW a \in Places, Value(tab, n, a) # 0
      PROVE  <<a[1], a[2], a[3], Value(tab, n, a)>> \in L
  <2>1. CASE \E k \in D : a = <<"direct", 0, k>>
    BY <2>1 DEF Value
  <2>2. CASE a = <<"indirect", 0, 0>>
    BY <2>2 DEF Value
  <2>3. CASE a = <<"double", 0, 0>>
    BY <2>3 DEF Value, e
  <2>4. CASE \E k \in K : a = <<"single", 0, k>>
    <3>1. PICK k \in K : a = <<"single", 0, k>>
      BY <2>4
    <3>2. Value(tab, n, a) = tab[n.indirect][k] /\ n.indirect # 0
      BY <1>4, <3>1 DEF Value, Entry
    <3>3. <<"single", 0, k, tab[n.indirect][k]>> \in InTable("single", 0, n.indirect)
      BY <1>0, <3>2 DEF InTable
    <3> QED
      BY <3>1, <3>2, <3>3
  <2>5. CASE \E k \in K : a = <<"outer", 0, k>>
    <3>1. PICK k \in K : a = <<"outer", 0, k>>
      BY <2>5
    <3>2. Value(tab, n, a) = tab[e][k] /\ e # 0
      BY <1>4, <3>1 DEF Value, Entry, e
    <3>3. <<"outer", 0, k, tab[e][k]>> \in InTable("outer", 0, e)
      BY <1>0, <3>2 DEF InTable
    <3> QED
      BY <3>1, <3>2, <3>3
  <2>6. CASE \E j, k \in K : a = <<"inner", j, k>>
    <3>1. PICK j \in K, k \in K : a = <<"inner", j, k>>
      BY <2>6
    <3>2. Value(tab, n, a) = tab[tab[e][j]][k] /\ e # 0 /\ tab[e][j] # 0
      BY <1>4, <3>1 DEF Value, Entry, e
    <3>3. <<"inner", j, k, tab[tab[e][j]][k]>> \in InTable("inner", j, tab[e][j])
      BY <1>0, <3>2 DEF InTable
    <3> QED
      BY <3>1, <3>2, <3>3
  <2> QED
    BY <2>1, <2>2, <2>3, <2>4, <2>5, <2>6, PlaceCases
<1>5. \A a : <<a[1], a[2], a[3], Value(tab, n, a)>>[4] = Value(tab, n, a)
  OBVIOUS
<1> HIDE DEF L
<1>6. {p \in L : p[4] # 0} \subseteq R
  BY <1>3
<1>7. R \subseteq {p \in L : p[4] # 0}
  BY <1>4, <1>5
<1> QED
  BY <1>2, <1>6, <1>7 DEF n

-----------------------------------------------------------------------------
(***************************************************************************)
(* The actions.                                                            *)
(***************************************************************************)
LEMMA ZeroInodeTyped == ZeroInode \in Inode
<1>1. WORD \in Nat /\ WORD > 0
  BY GeometryAssumption
<1> QED
  BY <1>1 DEF ZeroInode, Inode

LEMMA ZeroValues ==
  ASSUME NEW tb, NEW a \in Places
  PROVE  Value(tb, ZeroInode, a) = 0
<1>1. /\ \A k \in D : ZeroInode.direct[k] = 0
      /\ ZeroInode.indirect = 0 /\ ZeroInode.double_indirect = 0
  BY DEF ZeroInode, D
<1> QED
  BY <1>1, PlaceCases DEF Value, Entry

\* Between calls the file system sees the inodes on the disk.
LEMMA IdleViews ==
  ASSUME TypeOK, call = Idle
  PROVE  V = inode /\ inode \in Views
BY DEF V, View, Idle, TypeOK, Views, Inodes

LEMMA IdleViewsAfter ==
  ASSUME TypeOK', call' = Idle
  PROVE  V' = inode' /\ inode' \in Views
BY DEF V, View, Idle, TypeOK, Views, Inodes

LEMMA InitIInv == Init => IInv
<1> SUFFICES ASSUME Init PROVE IInv
  OBVIOUS
<1>1. WORD \in Nat /\ WORD > 0 /\ BLOCK_SIZE \in Nat /\ BLOCK_SIZE > 0
  BY GeometryAssumption
<1>2. NoTable \in [K -> Blocks \cup {0}] /\ DOMAIN NoTable = K
  BY DEF NoTable, K
<1>3. Idle \in [ino : Inodes \cup {0}, in : Inode, b : 0 .. WORD, last : 0 .. WORD,
                left : 0 .. WORD, at : 0 .. WORD]
  BY <1>1, ZeroInodeTyped DEF Idle
<1>4. TypeOK
  BY <1>2, <1>3, ZeroInodeTyped DEF Init, TypeOK
<1>5. Calls
  BY <1>1 DEF Init, Calls, Idle
<1>6. PICK v \in Views : v = V /\ \A i \in Inodes : v[i] = ZeroInode
  BY <1>4, IdleViews DEF Init
<1>7. Good({}, tab, v, {})
  BY <1>6, ZeroValues DEF Good, Owned
<1> QED
  BY <1>4, <1>5, <1>6, <1>7 DEF IInv, Init

\* The free inode that is taken may still have pointers: they are lost.
LEMMA AllocateInode ==
  ASSUME IInv, NEW directory \in BOOLEAN, allocate_inode(directory)
  PROVE  IInv'
<1>0. TypeOK /\ Calls /\ Good(bbit, tab, V, lost) /\ call = Idle
  BY DEF IInv, allocate_inode
<1>1. PICK S \in SUBSET Inodes : S = Inodes \ used
  OBVIOUS
<1>2. PICK i \in S : i = First(S)
  BY <1>1, FirstInSet DEF allocate_inode, Inodes
<1>3. PICK v \in Views : v = inode /\ v = V
  BY <1>0, IdleViews
<1>4. PICK tb \in Tables : tb = tab
  BY <1>0 DEF TypeOK, Tables, NoTable, K
<1>5. i \in Inodes /\ View(i) = v[i]
  BY <1>0, <1>1, <1>2, <1>3 DEF View, Idle, Inodes
<1>6. PICK F : F = {p[4] : p \in Pointers(i)}
  OBVIOUS
<1>7. F = {Value(tb, v[i], a) : a \in {c \in Places : Value(tb, v[i], c) # 0}}
  <2>1. PICK P : P = Pointers(i)
    OBVIOUS
  <2>2. P = {<<a[1], a[2], a[3], Value(tb, v[i], a)>> : a \in {c \in Places : Value(tb, v[i], c) # 0}}
    BY <1>0, <1>4, <1>5, <2>1, PointersAre
  <2>3. \A a : <<a[1], a[2], a[3], Value(tb, v[i], a)>>[4] = Value(tb, v[i], a)
    OBVIOUS
  <2>4. F = {p[4] : p \in P}
    BY <1>6, <2>1
  <2>5. F \subseteq {Value(tb, v[i], a) : a \in {c \in Places : Value(tb, v[i], c) # 0}}
    BY <2>2, <2>3, <2>4
  <2>6. {Value(tb, v[i], a) : a \in {c \in Places : Value(tb, v[i], c) # 0}} \subseteq F
    BY <2>2, <2>3, <2>4
  <2> QED
    BY <2>5, <2>6
<1>8. Drops(tb, v[i], ZeroInode, F)
  BY <1>7, ZeroValues DEF Drops
<1>9. PICK bits \in SUBSET Blocks, ls \in SUBSET Blocks : bits = bbit /\ ls = lost
  BY <1>0 DEF TypeOK
<1>10. Good(bits, tb, v, ls)
  BY <1>0, <1>3, <1>4, <1>9
<1>11. Good(bits, tb, With(v, i, ZeroInode), ls \cup F)
  BY <1>5, <1>8, <1>10, GoodDropped
<1>12. /\ bbit' = bits /\ tab' = tb /\ lost' = ls \cup F /\ call' = Idle /\ fds' = fds
       /\ inode' = With(v, i, ZeroInode) /\ used' = used \cup {i}
       /\ dirs' \subseteq dirs \cup {i}
  BY <1>0, <1>1, <1>2, <1>3, <1>4, <1>6, <1>9 DEF allocate_inode, With
<1>13. ls \cup F \subseteq bits
  BY <1>11 DEF Good
<1>14. TypeOK'
  <2>1. With(v, i, ZeroInode) \in Views
    BY <1>5, ZeroInodeTyped, WithViews
  <2> QED
    BY <1>0, <1>4, <1>5, <1>9, <1>12, <1>13, <2>1 DEF TypeOK, Views
<1>15. Calls'
  BY <1>0, <1>12 DEF Calls
<1>16. V' = With(v, i, ZeroInode)
  BY <1>12, <1>14, IdleViewsAfter
<1> QED
  BY <1>11, <1>12, <1>14, <1>15, <1>16 DEF IInv

\* free_inode() takes away the pointers to the blocks it frees, and no other.
LEMMA FreeDrops ==
  ASSUME NEW n \in Inode, NEW m, m = Cleared(n), NEW tb \in Tables, tb = tab,
         NEW F, F = Freed(n)
  PROVE  m \in Inode /\ Drops(tb, n, m, F)
<1>1. Direct(n) \subseteq D /\ DOMAIN n.direct = D /\ DOMAIN NoTable = K
  BY DEF Direct, D, Inode, NoTable, K
<1>2. /\ m \in Inode
      /\ m.indirect = 0 /\ m.double_indirect = n.double_indirect
      /\ \A k \in D : m.direct[k] = IF k \in Direct(n) THEN 0 ELSE n.direct[k]
  <2>1. m = [n EXCEPT !.direct = [k \in D |-> IF k \in Direct(n) THEN 0 ELSE n.direct[k]], !.indirect = 0]
    BY <1>1 DEF Cleared
  <2>2. \A k \in D : n.direct[k] \in Blocks \cup {0}
    BY DEF Inode, D
  <2>3. [k \in D |-> IF k \in Direct(n) THEN 0 ELSE n.direct[k]] \in [D -> Blocks \cup {0}]
    BY <2>2
  <2> HIDE DEF D
  <2> QED
    BY <2>1, <2>3 DEF Inode, D
<1>3. \A b : b \in F <=> /\ b # 0
                         /\ \/ \E k \in Direct(n) : b = n.direct[k]
                            \/ n.indirect # 0 /\ (b = n.indirect \/ \E k \in K : b = tb[n.indirect][k])
  BY <1>1 DEF Freed
<1>4. \A k \in K : Entry(tb, 0, k) = 0
  BY DEF Entry
<1>5. ASSUME NEW a \in Places
      PROVE  /\ Value(tb, m, a) \in {0, Value(tb, n, a)}
             /\ Value(tb, m, a) = 0 /\ Value(tb, n, a) # 0 => Value(tb, n, a) \in F
  <2>1. CASE \E k \in D : a = <<"direct", 0, k>>
    <3>1. PICK k \in D : a = <<"direct", 0, k>>
      BY <2>1
    <3>2. Value(tb, m, a) = m.direct[k] /\ Value(tb, n, a) = n.direct[k]
      BY <3>1 DEF Value
    <3> QED
      BY <1>2, <1>3, <3>2
  <2>2. CASE a = <<"indirect", 0, 0>>
    <3>1. Value(tb, m, a) = 0 /\ Value(tb, n, a) = n.indirect
      BY <1>2, <2>2 DEF Value
    <3> QED
      BY <1>3, <3>1
  <2>3. CASE a = <<"double", 0, 0>> \/ (\E k \in K : a = <<"outer", 0, k>>) \/ (\E j, k \in K : a = <<"inner", j, k>>)
    <3>1. Value(tb, m, a) = Value(tb, n, a)
      BY <1>2, <2>3 DEF Value
    <3> QED
      BY <3>1
  <2>4. CASE \E k \in K : a = <<"single", 0, k>>
    <3>1. PICK k \in K : a = <<"single", 0, k>>
      BY <2>4
    <3>2. Value(tb, m, a) = 0 /\ Value(tb, n, a) = Entry(tb, n.indirect, k)
      BY <1>2, <1>4, <3>1 DEF Value
    <3>3. Entry(tb, n.indirect, k) # 0 => n.indirect # 0 /\ Entry(tb, n.indirect, k) = tb[n.indirect][k]
      BY DEF Entry
    <3> QED
      BY <1>3, <3>2, <3>3
  <2> QED
    BY <2>1, <2>2, <2>3, <2>4, PlaceCases
<1>6. ASSUME NEW b \in F
      PROVE  b # 0 /\ \E a \in Places : Value(tb, n, a) = b /\ Value(tb, m, a) = 0
  <2>1. CASE \E k \in Direct(n) : b = n.direct[k]
    <3>1. PICK k \in Direct(n) : b = n.direct[k]
      BY <2>1
    <3>2. /\ <<"direct", 0, k>> \in Places
          /\ Value(tb, n, <<"direct", 0, k>>) = n.direct[k] /\ Value(tb, m, <<"direct", 0, k>>) = m.direct[k]
      BY <1>1, PlacesExist DEF Value
    <3> QED
      BY <1>1, <1>2, <1>3, <3>1, <3>2
  <2>2. CASE n.indirect # 0 /\ b = n.indirect
    <3>1. /\ <<"indirect", 0, 0>> \in Places
          /\ Value(tb, n, <<"indirect", 0, 0>>) = b /\ Value(tb, m, <<"indirect", 0, 0>>) = 0
      BY <1>2, <2>2, PlacesExist DEF Value
    <3> QED
      BY <2>2, <3>1
  <2>3. CASE n.indirect # 0 /\ \E k \in K : b = tb[n.indirect][k]
    <3>1. PICK k \in K : b = tb[n.indirect][k]
      BY <2>3
    <3>2. /\ <<"single", 0, k>> \in Places
          /\ Value(tb, n, <<"single", 0, k>>) = b /\ Value(tb, m, <<"single", 0, k>>) = 0
      BY <1>2, <2>3, <3>1, PlacesExist DEF Value, Entry
    <3> QED
      BY <1>3, <3>2
  <2> QED
    BY <1>3, <2>1, <2>2, <2>3
<1> QED
  BY <1>2, <1>5, <1>6 DEF Drops

LEMMA FreeInode ==
  ASSUME IInv, NEW i \in Inodes, free_inode(i)
  PROVE  IInv'
<1>0. TypeOK /\ Calls /\ Good(bbit, tab, V, lost) /\ call = Idle
  BY DEF IInv, free_inode
<1>1. PICK v \in Views : v = inode /\ v = V
  BY <1>0, IdleViews
<1>2. PICK tb \in Tables : tb = tab
  BY <1>0 DEF TypeOK, Tables, NoTable, K
<1>3. PICK n \in Inode : n = v[i] /\ n = inode[i]
  BY <1>1 DEF Views
<1>4. PICK m, F : m = Cleared(n) /\ F = Freed(n)
  OBVIOUS
<1>5. m \in Inode /\ Drops(tb, n, m, F)
  BY <1>2, <1>4, FreeDrops
<1>6. PICK bits \in SUBSET Blocks, ls \in SUBSET Blocks : bits = bbit /\ ls = lost
  BY <1>0 DEF TypeOK
<1>7. Good(bits, tb, v, ls) /\ Drops(tb, v[i], m, F)
  BY <1>0, <1>1, <1>2, <1>3, <1>5, <1>6
<1>8. Good(bits \ F, tb, With(v, i, m), ls)
  BY <1>7, GoodDropped
<1>9. /\ bbit' = bits \ F /\ tab' = tb /\ lost' = ls /\ call' = Idle /\ fds' = fds
      /\ inode' = With(v, i, m) /\ used' = used \ {i} /\ dirs' = dirs \ {i}
  <2>1. bbit' = bbit \ Freed(n) /\ inode' = [inode EXCEPT ![i] = Cleared(n)]
    BY <1>3 DEF free_inode
  <2> QED
    BY <1>0, <1>1, <1>2, <1>4, <1>6, <2>1 DEF free_inode, With
<1>10. ls \subseteq bits \ F
  BY <1>8 DEF Good
<1>11. TypeOK'
  <2>1. With(v, i, m) \in Views
    BY <1>5, WithViews
  <2> QED
    BY <1>0, <1>2, <1>6, <1>9, <1>10, <2>1 DEF TypeOK, Views
<1>12. Calls'
  BY <1>0, <1>9 DEF Calls
<1>13. V' = With(v, i, m)
  BY <1>9, <1>11, IdleViewsAfter
<1> QED
  BY <1>8, <1>9, <1>11, <1>12, <1>13 DEF IInv

\* Descriptors are no pointers; a call starts from the inode on the disk.
LEMMA OpenAndBoot ==
  ASSUME IInv, ipo_fs_init \/ \E i \in Inodes : ipo_fs_open(i)
  PROVE  IInv'
<1>0. TypeOK /\ Calls /\ Good(bbit, tab, V, lost) /\ call = Idle
  BY DEF IInv, ipo_fs_init, ipo_fs_open
<1>1. bbit' = bbit /\ tab' = tab /\ lost' = lost /\ call' = call /\ inode' = inode
      /\ used' = used /\ dirs' = dirs
  BY DEF ipo_fs_init, ipo_fs_open
<1>2. fds' \in [Fds -> Inodes \cup {0}]
  BY <1>0 DEF ipo_fs_init, ipo_fs_open, TypeOK
<1>3. TypeOK' /\ Calls'
  BY <1>0, <1>1, <1>2 DEF TypeOK, Calls
<1>4. V' = V
  BY <1>1 DEF V, View
<1> QED
  BY <1>0, <1>1, <1>3, <1>4 DEF IInv

\* A block holds at least one entry.
LEMMA Quotient ==
  ASSUME NEW b \in Nat, NEW e \in Nat, e > 0, e <= b
  PROVE  b \div e \in Nat /\ b \div e > 0
<1> DEFINE q == b \div e
           r == b % e
<1>1. q \in Nat /\ r \in 0 .. (e - 1) /\ b = e * q + r
  OBVIOUS
<1> HIDE DEF q, r
<1>2. q # 0
  BY <1>1
<1> QED
  BY <1>1, <1>2 DEF q

\* A directory grows by an entry: what its lookup took is in the inode that is
\* written back, or lost with the copy.
LEMMA AddEntry ==
  ASSUME IInv, NEW i \in Inodes, dir_add_entry(i)
  PROVE  IInv'
<1>0. TypeOK /\ Calls /\ Good(bbit, tab, V, lost) /\ call = Idle
  BY DEF IInv, dir_add_entry
<1>1. PICK v \in Views : v = inode /\ v = V
  BY <1>0, IdleViews
<1>2. PICK n \in Inode : n = v[i] /\ n = inode[i]
  BY <1>1 DEF Views
<1>3. PICK bits \in SUBSET Blocks, tb \in Tables, ls \in SUBSET Blocks :
        bits = bbit /\ tb = tab /\ ls = lost
  BY <1>0 DEF TypeOK, Tables, NoTable, K
<1>4. PICK g : g = [bits |-> bits, tab |-> tb, in |-> n, phys |-> 0]
  OBVIOUS
<1>5. g \in G /\ g.bits = bits /\ g.tab = tb /\ g.in = n
  BY <1>4 DEF G
<1>6. PICK l \in Nat : l = (n.size \div ENTRY_SIZE) \div (BLOCK_SIZE \div ENTRY_SIZE)
  <2>1. n.size \in Nat /\ ENTRY_SIZE \in 1 .. BLOCK_SIZE /\ BLOCK_SIZE \in Nat
    BY GeometryAssumption DEF Inode
  <2>2. PICK q \in Nat : q = n.size \div ENTRY_SIZE
    BY <2>1
  <2>3. PICK per \in Nat : per = BLOCK_SIZE \div ENTRY_SIZE /\ per > 0
    <3>1. BLOCK_SIZE \in Nat /\ ENTRY_SIZE \in Nat /\ ENTRY_SIZE > 0 /\ ENTRY_SIZE <= BLOCK_SIZE
      BY <2>1
    <3> QED
      BY <3>1, Quotient
  <2>4. q \div per \in Nat
    BY <2>3
  <2> QED
    BY <2>2, <2>3, <2>4
<1>7. PICK r : r = get_data_block_for_inode(g, l)
  OBVIOUS
<1>8. EntryBlock(i) = r
  BY <1>2, <1>3, <1>4, <1>6, <1>7 DEF EntryBlock
<1>9. With(v, i, n) = v
  BY <1>2 DEF With, Views
<1>10. GOwned(v, i, g) /\ Good(bits, tb, v, ls)
  BY <1>0, <1>1, <1>3, <1>5, <1>9 DEF GOwned, Good
<1>11. r \in G /\ GGrown(v, i, g, r)
  BY <1>5, <1>7, <1>10, GetBlock
<1>12. r.bits \in SUBSET Blocks /\ r.tab \in Tables /\ r.in \in Inode
  BY <1>11 DEF G
<1>13. Grown(bits, tb, v, r.bits, r.tab, With(v, i, r.in))
  BY <1>5, <1>9, <1>11 DEF GGrown
<1>14. /\ bbit' = r.bits /\ tab' = r.tab /\ call' = Idle /\ used' = used /\ dirs' = dirs /\ fds' = fds
       /\ inode' = IF r.phys = 0 THEN inode
                   ELSE [inode EXCEPT ![i] = [r.in EXCEPT !.size = (@ + ENTRY_SIZE) % WORD]]
       /\ lost' = IF r.phys = 0 /\ r.in # n THEN ls \cup (r.bits \ bits) ELSE ls
  BY <1>0, <1>2, <1>3, <1>8 DEF dir_add_entry
<1>15. inode' \in Views /\ Good(r.bits, r.tab, inode', lost')
  <2>1. CASE r.phys # 0
    <3>1. PICK m : m = [r.in EXCEPT !.size = (@ + ENTRY_SIZE) % WORD]
      OBVIOUS
    <3>2. m \in Inode
      <4>1. r.in.size \in Nat /\ ENTRY_SIZE \in Nat /\ WORD \in Nat /\ WORD > 0
        BY <1>12, GeometryAssumption DEF Inode
      <4>2. (r.in.size + ENTRY_SIZE) % WORD \in 0 .. (WORD - 1)
        BY <4>1
      <4> QED
        BY <1>12, <3>1, <4>2 DEF Inode
    <3>3. inode' = With(v, i, m) /\ inode' \in Views /\ lost' = ls
      BY <1>1, <1>14, <2>1, <3>1, <3>2 DEF With, Views
    <3>4. Good(r.bits, r.tab, With(v, i, r.in), ls)
      BY <1>10, <1>13, GoodGrown
    <3>5. \A j \in Inodes, a \in Places : Value(r.tab, With(v, i, m)[j], a) = Value(r.tab, With(v, i, r.in)[j], a)
      <4>1. \A a \in Places : Value(r.tab, m, a) = Value(r.tab, r.in, a)
        BY <1>12, <3>1, SizeIsNoPointer
      <4>2. \A j \in Inodes : /\ With(v, i, m)[j] = IF j = i THEN m ELSE v[j]
                              /\ With(v, i, r.in)[j] = IF j = i THEN r.in ELSE v[j]
        BY DEF With, Views
      <4> QED
        BY <4>1, <4>2
    <3>6. Good(r.bits, r.tab, With(v, i, m), ls)
      BY <3>4, <3>5, GoodSame
    <3> QED
      BY <3>3, <3>6
  <2>2. CASE r.phys = 0 /\ r.in = n
    <3>1. Good(r.bits, r.tab, v, ls)
      BY <1>9, <1>10, <1>13, <2>2, GoodGrown
    <3> QED
      BY <1>1, <1>14, <2>2, <3>1
  <2>3. CASE r.phys = 0 /\ r.in # n
    <3>1. \A b \in bits : r.tab[b] = tb[b]
      BY <1>5, <1>7, <1>10, <2>3, FailedLookUp
    <3>2. bits \subseteq r.bits
      BY <1>13 DEF Grown
    <3>3. Good(r.bits, r.tab, v, ls \cup (r.bits \ bits))
      BY <1>10, <1>12, <3>1, <3>2, GoodLost
    <3> QED
      BY <1>1, <1>14, <2>3, <3>3
  <2> QED
    BY <2>1, <2>2, <2>3
<1>16. lost' \subseteq r.bits
  BY <1>15 DEF Good
<1>17. TypeOK'
  <2>1. DOMAIN NoTable = K
    BY DEF NoTable, K
  <2> QED
    BY <1>0, <1>12, <1>14, <1>15, <1>16, <2>1 DEF TypeOK, Views, Tables
<1>18. Calls'
  BY <1>0, <1>14 DEF Calls
<1>19. V' = inode'
  BY <1>14, <1>17, IdleViewsAfter
<1> QED
  BY <1>14, <1>15, <1>17, <1>18, <1>19 DEF IInv

LEMMA DivBound ==
  ASSUME NEW n \in Nat
  PROVE  /\ n \div BLOCK_SIZE \in Nat /\ n \div BLOCK_SIZE <= n
         /\ n < (n \div BLOCK_SIZE + 1) * BLOCK_SIZE
<1> DEFINE q == n \div BLOCK_SIZE
           r == n % BLOCK_SIZE
<1>1. BLOCK_SIZE \in Nat /\ BLOCK_SIZE > 0
  BY GeometryAssumption
<1>2. q \in Nat /\ r \in 0 .. (BLOCK_SIZE - 1) /\ n = BLOCK_SIZE * q + r
  BY <1>1
<1> HIDE DEF q, r
<1>3. (q + 1) * BLOCK_SIZE = BLOCK_SIZE * q + BLOCK_SIZE
  BY <1>1, <1>2
<1>4. q <= BLOCK_SIZE * q
  BY <1>1, <1>2
<1>5. BLOCK_SIZE * q \in Nat
  BY <1>1, <1>2
<1> QED
  BY <1>1, <1>2, <1>3, <1>4, <1>5 DEF q

\* One iteration of the loop ends at or before the end of its block.
LEMMA StaysInBlock ==
  ASSUME NEW at \in Nat, NEW b \in Nat, NEW left \in Nat, at < (b + 1) * BLOCK_SIZE
  PROVE  Chunk(at, left) \in 0 .. left /\ at + Chunk(at, left) <= (b + 1) * BLOCK_SIZE
<1> DEFINE n == Chunk(at, left)
           q == at \div BLOCK_SIZE
           r == at % BLOCK_SIZE
<1>1. BLOCK_SIZE \in Nat /\ BLOCK_SIZE > 0
  BY GeometryAssumption
<1>2. q \in Nat /\ r \in 0 .. (BLOCK_SIZE - 1) /\ at = BLOCK_SIZE * q + r
  BY <1>1
<1>3. n \in 0 .. left /\ n <= BLOCK_SIZE - r
  BY <1>1, <1>2 DEF Chunk
<1> HIDE DEF n, q, r
<1>4. BLOCK_SIZE * q \in Nat /\ (b + 1) * BLOCK_SIZE \in Nat
  BY <1>1, <1>2
<1>5. BLOCK_SIZE * q < (b + 1) * BLOCK_SIZE
  BY <1>1, <1>2, <1>4
<1>6. q + 1 <= b + 1
  <2>1. ASSUME q >= b + 1 PROVE FALSE
    <3>1. BLOCK_SIZE * q >= BLOCK_SIZE * (b + 1)
      BY <1>1, <1>2, <2>1
    <3>2. BLOCK_SIZE * (b + 1) = (b + 1) * BLOCK_SIZE
      BY <1>1
    <3> QED
      BY <1>4, <1>5, <3>1, <3>2
  <2> QED
    BY <1>2, <2>1
<1>7. BLOCK_SIZE * (q + 1) <= (b + 1) * BLOCK_SIZE
  BY <1>1, <1>2, <1>6
<1>8. BLOCK_SIZE * (q + 1) = BLOCK_SIZE * q + BLOCK_SIZE
  BY <1>1, <1>2
<1>9. at + n <= BLOCK_SIZE * q + BLOCK_SIZE
  BY <1>1, <1>2, <1>3, <1>4
<1> QED
  BY <1>1, <1>2, <1>3, <1>4, <1>7, <1>8, <1>9 DEF n

LEMMA WriteStarts ==
  ASSUME IInv, NEW f \in Fds, NEW r \in Requests, ipo_fs_write(f, r)
  PROVE  IInv'
<1>0. TypeOK /\ Calls /\ Good(bbit, tab, V, lost) /\ call = Idle
  BY DEF IInv, ipo_fs_write
<1>1. /\ bbit' = bbit /\ tab' = tab /\ lost' = lost /\ inode' = inode /\ used' = used /\ fds' = fds
      /\ dirs' = dirs
      /\ call' = [ino |-> fds[f], in |-> inode[fds[f]], b |-> r.offset \div BLOCK_SIZE,
                  last |-> last_block(r), left |-> r.size, at |-> r.offset]
      /\ fds[f] # 0
  BY DEF ipo_fs_write
<1>2. fds[f] \in Inodes /\ inode[fds[f]] \in Inode
  BY <1>0, <1>1 DEF TypeOK
<1>3. WORD \in Nat /\ WORD > 0 /\ BLOCK_SIZE \in Nat /\ BLOCK_SIZE > 0
  BY GeometryAssumption
<1>4. r.offset \in 0 .. (WORD - 1) /\ r.size \in 0 .. (WORD - 1)
  BY RequestsAssumption
<1>5. /\ r.offset \div BLOCK_SIZE \in Nat /\ r.offset \div BLOCK_SIZE <= r.offset
      /\ r.offset < (r.offset \div BLOCK_SIZE + 1) * BLOCK_SIZE
  BY <1>3, <1>4, DivBound
<1>6. last_block(r) \in 0 .. (WORD - 1)
  <2>1. PICK x \in 0 .. (WORD - 1) : x = (r.offset + r.size - 1) % WORD
    BY <1>3, <1>4
  <2>2. x \div BLOCK_SIZE \in Nat /\ x \div BLOCK_SIZE <= x
    BY <1>3, <2>1, DivBound
  <2>3. last_block(r) = x \div BLOCK_SIZE
    BY <2>1 DEF last_block
  <2> QED
    BY <1>3, <2>1, <2>2, <2>3
<1>7. /\ r.offset \div BLOCK_SIZE \in 0 .. WORD /\ last_block(r) \in 0 .. WORD
      /\ r.size \in 0 .. WORD /\ r.offset \in 0 .. WORD
  BY <1>3, <1>4, <1>5, <1>6
<1>8. TypeOK'
  <2>1. call' \in [ino : Inodes \cup {0}, in : Inode, b : 0 .. WORD, last : 0 .. WORD,
                   left : 0 .. WORD, at : 0 .. WORD]
    BY <1>1, <1>2, <1>7
  <2> QED
    BY <1>0, <1>1, <2>1 DEF TypeOK
<1>9. Calls'
  BY <1>1, <1>3, <1>4, <1>5, <1>6 DEF Calls
<1>10. V = inode
  BY <1>0, IdleViews
<1>11. V' = inode
  <2>1. \A i \in Inodes : View(i)' = inode[i]
    BY <1>1 DEF View
  <2>2. DOMAIN inode = Inodes /\ inode \in [Inodes -> Inode]
    BY <1>0 DEF TypeOK
  <2> QED
    BY <2>1, <2>2 DEF V
<1> QED
  BY <1>0, <1>1, <1>8, <1>9, <1>10, <1>11 DEF IInv

\* While a call runs, what it found so far is what its file has.
LEMMA FoundKeeps ==
  ASSUME IInv, call.ino # 0, NEW r, r = Found
  PROVE  /\ r \in G /\ call.ino \in Inodes /\ V \in Views
         /\ Grown(bbit, tab, V, r.bits, r.tab, With(V, call.ino, r.in))
         /\ Good(r.bits, r.tab, With(V, call.ino, r.in), lost)
         /\ r.phys # 0 => call.b < MaxBlocks /\ r.phys = DataBlock(r.tab, r.in, call.b)
<1>0. TypeOK /\ Calls /\ Good(bbit, tab, V, lost)
  BY DEF IInv
<1>1. PICK i \in Inodes, n \in Inode, l \in Nat : i = call.ino /\ n = call.in /\ l = call.b
  BY <1>0, GeometryAssumption DEF TypeOK
<1>2. PICK v \in Views : v = V
  BY <1>0, <1>1 DEF V, View, TypeOK, Views
<1>3. v[i] = n
  BY <1>1, <1>2 DEF V, View
<1>4. With(v, i, n) = v
  BY <1>3 DEF With, Views
<1>5. PICK g : g = [bits |-> bbit, tab |-> tab, in |-> n, phys |-> 0]
  OBVIOUS
<1>6. g \in G /\ g.bits = bbit /\ g.tab = tab /\ g.in = n
  BY <1>0, <1>5 DEF G, TypeOK, Tables, NoTable, K
<1>7. r = get_data_block_for_inode(g, l)
  BY <1>1, <1>5 DEF Found
<1>8. GOwned(v, i, g)
  BY <1>0, <1>2, <1>4, <1>6 DEF GOwned, Good
<1>9. /\ r \in G /\ GGrown(v, i, g, r)
      /\ r.phys # 0 => l < MaxBlocks /\ r.phys = DataBlock(r.tab, r.in, l)
  BY <1>6, <1>7, <1>8, GetBlock
<1>10. PICK bits \in SUBSET Blocks, tb \in Tables, ls \in SUBSET Blocks :
         bits = bbit /\ tb = tab /\ ls = lost
  BY <1>0 DEF TypeOK, Tables, NoTable, K
<1>11. Grown(bits, tb, v, r.bits, r.tab, With(v, i, r.in))
  BY <1>4, <1>6, <1>9, <1>10 DEF GGrown
<1>12. Good(bits, tb, v, ls)
  BY <1>0, <1>2, <1>10
<1>13. Good(r.bits, r.tab, With(v, i, r.in), ls)
  BY <1>11, <1>12, GoodGrown
<1> QED
  BY <1>1, <1>2, <1>9, <1>10, <1>11, <1>13

LEMMA WriteBlock ==
  ASSUME IInv, write_block
  PROVE  IInv'
<1>0. TypeOK /\ Calls /\ Good(bbit, tab, V, lost) /\ call.ino # 0 /\ call.b <= call.last
  BY DEF IInv, write_block, InLoop
<1>1. PICK r : r = Found
  OBVIOUS
<1>2. r.phys # 0
  BY <1>1 DEF write_block
<1>3. /\ r \in G /\ call.ino \in Inodes /\ V \in Views
      /\ Good(r.bits, r.tab, With(V, call.ino, r.in), lost) /\ call.b < MaxBlocks
  BY <1>0, <1>1, <1>2, FoundKeeps
<1>4. PICK i \in Inodes, v \in Views, ls \in SUBSET Blocks : i = call.ino /\ v = V /\ ls = lost
  BY <1>0, <1>3 DEF TypeOK
<1>18. PICK c : c = call
  OBVIOUS
<1>5. PICK n : n = Chunk(c.at, c.left)
  OBVIOUS
<1>6. /\ bbit' = r.bits /\ tab' = r.tab
      /\ call' = [c EXCEPT !.in = r.in, !.b = @ + 1, !.left = @ - n, !.at = @ + n]
      /\ used' = used /\ dirs' = dirs /\ inode' = inode /\ fds' = fds /\ lost' = ls
  BY <1>1, <1>4, <1>18, <1>5 DEF write_block, Chunk
<1>7. /\ c \in [ino : Inodes \cup {0}, in : Inode, b : 0 .. WORD, last : 0 .. WORD,
                left : 0 .. WORD, at : 0 .. WORD]
      /\ WORD \in Nat /\ BLOCK_SIZE \in Nat /\ BLOCK_SIZE > 0 /\ MaxBlocks \in Nat
      /\ c.at < (c.b + 1) * BLOCK_SIZE /\ c.last < WORD /\ c.b <= c.last /\ c.b < MaxBlocks
  BY <1>0, <1>3, <1>4, <1>18, GeometryAssumption, MaxBlocksNat DEF TypeOK, Calls
<1>8. c.at \in Nat /\ c.b \in Nat /\ c.left \in 0 .. WORD
  BY <1>7
<1>9. n \in 0 .. c.left /\ c.at + n <= (c.b + 1) * BLOCK_SIZE
  <2>1. c.left \in Nat /\ c.at < (c.b + 1) * BLOCK_SIZE
    BY <1>7, <1>8
  <2>2. Chunk(c.at, c.left) \in 0 .. c.left /\ c.at + Chunk(c.at, c.left) <= (c.b + 1) * BLOCK_SIZE
    BY <1>8, <2>1, StaysInBlock
  <2> QED
    BY <1>5, <2>2
<1>10. c.at + n < WORD
  <2>1. (c.b + 1) * BLOCK_SIZE <= MaxBlocks * BLOCK_SIZE
    BY <1>7, <1>8
  <2>2. MaxBlocks * BLOCK_SIZE < WORD
    BY FileSizeAssumption DEF MaxBlocks
  <2>3. (c.b + 1) * BLOCK_SIZE \in Nat /\ MaxBlocks * BLOCK_SIZE \in Nat
    BY <1>7, <1>8
  <2> QED
    BY <1>7, <1>8, <1>9, <2>1, <2>2, <2>3
<1>11. c.at + n < (c.b + 1 + 1) * BLOCK_SIZE
  <2>1. (c.b + 1 + 1) * BLOCK_SIZE = (c.b + 1) * BLOCK_SIZE + BLOCK_SIZE
    BY <1>7, <1>8
  <2>2. (c.b + 1) * BLOCK_SIZE \in Nat
    BY <1>7, <1>8
  <2> QED
    BY <1>7, <1>8, <1>9, <2>1, <2>2
<1>12. c.b + 1 \in 0 .. WORD /\ c.left - n \in 0 .. WORD /\ c.at + n \in 0 .. WORD
  BY <1>7, <1>8, <1>9, <1>10
<1>13. r.bits \in SUBSET Blocks /\ r.tab \in Tables /\ r.in \in Inode
  BY <1>3 DEF G
<1>14. TypeOK'
  <2>1. call' \in [ino : Inodes \cup {0}, in : Inode, b : 0 .. WORD, last : 0 .. WORD,
                   left : 0 .. WORD, at : 0 .. WORD]
    BY <1>6, <1>7, <1>12, <1>13
  <2>2. ls \subseteq r.bits
    BY <1>3, <1>4, <1>18 DEF Good
  <2>3. DOMAIN NoTable = K
    BY DEF NoTable, K
  <2> QED
    BY <1>0, <1>4, <1>18, <1>6, <1>13, <2>1, <2>2, <2>3 DEF TypeOK, Tables
<1>15. Calls'
  <2>1. call'.at = c.at + n /\ call'.b = c.b + 1 /\ call'.last = c.last
    BY <1>6, <1>7
  <2> QED
    BY <1>7, <1>10, <1>11, <2>1 DEF Calls
<1>16. V' = With(v, i, r.in)
  <2>1. \A j \in Inodes : View(j)' = IF j = i THEN r.in ELSE inode[j]
    BY <1>4, <1>18, <1>6, <1>7 DEF View
  <2>2. \A j \in Inodes : j # i => v[j] = inode[j]
    BY <1>4, <1>18 DEF V, View
  <2>3. V' = [j \in Inodes |-> IF j = i THEN r.in ELSE v[j]]
    BY <2>1, <2>2 DEF V
  <2> QED
    BY <2>3 DEF With, Views
<1>17. Good(r.bits, r.tab, With(v, i, r.in), ls)
  BY <1>3, <1>4, <1>18
<1> QED
  BY <1>6, <1>14, <1>15, <1>16, <1>17 DEF IInv

LEMMA WriteInode ==
  ASSUME IInv, write_inode
  PROVE  IInv'
<1>0. TypeOK /\ Calls /\ Good(bbit, tab, V, lost) /\ call.ino # 0
  BY DEF IInv, write_inode
<1>1. PICK r : r = IF InLoop THEN Found ELSE [bits |-> bbit, tab |-> tab, in |-> call.in, phys |-> 0]
  OBVIOUS
<1>2. PICK f : f = Found
  OBVIOUS
<1>3. call.ino \in Inodes /\ V \in Views
  BY <1>0, <1>2, FoundKeeps
<1>4. PICK i \in Inodes, v \in Views, ls \in SUBSET Blocks, at \in 0 .. WORD :
        i = call.ino /\ v = V /\ ls = lost /\ at = call.at
  BY <1>0, <1>3 DEF TypeOK
<1>5. r.bits \in SUBSET Blocks /\ r.tab \in Tables /\ r.in \in Inode /\ Good(r.bits, r.tab, With(v, i, r.in), ls)
  <2>1. CASE InLoop
    BY <1>0, <1>1, <1>4, <2>1, FoundKeeps DEF G
  <2>2. CASE ~InLoop
    <3>1. r.bits = bbit /\ r.tab = tab /\ r.in = call.in
      BY <1>1, <2>2
    <3>2. v[i] = call.in
      BY <1>4 DEF V, View
    <3>3. With(v, i, call.in) = v
      BY <3>2 DEF With, Views
    <3> QED
      BY <1>0, <1>4, <3>1, <3>3 DEF TypeOK, Tables, NoTable, K
  <2> QED
    BY <2>1, <2>2
<1>6. PICK m : m = [r.in EXCEPT !.size = IF at > @ THEN at ELSE @]
  OBVIOUS
<1>7. /\ bbit' = r.bits /\ tab' = r.tab /\ call' = Idle /\ lost' = ls /\ used' = used /\ fds' = fds
      /\ dirs' = dirs /\ inode' = [inode EXCEPT ![i] = m]
  BY <1>1, <1>4, <1>6 DEF write_inode
<1>8. m \in Inode
  <2>1. r.in.size \in 0 .. (WORD - 1) /\ at \in 0 .. (WORD - 1)
    BY <1>0, <1>4, <1>5, GeometryAssumption DEF Inode, TypeOK, Calls
  <2> QED
    BY <1>5, <1>6, <2>1 DEF Inode
<1>9. With(v, i, m) = inode' /\ inode' \in Views
  <2>1. \A j \in Inodes : j # i => v[j] = inode[j]
    BY <1>4 DEF V, View
  <2>2. inode \in Views
    BY <1>0 DEF TypeOK, Views
  <2> QED
    BY <1>7, <1>8, <2>1, <2>2 DEF With, Views
<1>10. \A j \in Inodes, a \in Places : Value(r.tab, With(v, i, m)[j], a) = Value(r.tab, With(v, i, r.in)[j], a)
  <2>1. \A a \in Places : Value(r.tab, m, a) = Value(r.tab, r.in, a)
    BY <1>5, <1>6, SizeIsNoPointer
  <2>2. \A j \in Inodes : /\ With(v, i, m)[j] = IF j = i THEN m ELSE v[j]
                          /\ With(v, i, r.in)[j] = IF j = i THEN r.in ELSE v[j]
    BY DEF With, Views
  <2> QED
    BY <2>1, <2>2
<1>11. Good(r.bits, r.tab, With(v, i, m), ls)
  BY <1>5, <1>10, GoodSame
<1>12. ls \subseteq r.bits
  BY <1>11 DEF Good
<1>13. WORD \in Nat /\ WORD > 0 /\ BLOCK_SIZE \in Nat /\ BLOCK_SIZE > 0
  BY GeometryAssumption
<1>14. TypeOK'
  <2>1. DOMAIN NoTable = K
    BY DEF NoTable, K
  <2>2. Idle \in [ino : Inodes \cup {0}, in : Inode, b : 0 .. WORD, last : 0 .. WORD,
                  left : 0 .. WORD, at : 0 .. WORD]
    BY <1>13, ZeroInodeTyped DEF Idle
  <2> QED
    BY <1>0, <1>5, <1>7, <1>9, <1>12, <2>1, <2>2 DEF TypeOK, Views, Tables
<1>15. Calls'
  BY <1>7, <1>13 DEF Calls, Idle
<1>16. V' = With(v, i, m)
  BY <1>7, <1>9, <1>14, IdleViewsAfter
<1> QED
  BY <1>7, <1>11, <1>14, <1>15, <1>16 DEF IInv

-----------------------------------------------------------------------------
(***************************************************************************)
(* The theorems.                                                           *)
(***************************************************************************)
LEMMA Stutter == IInv /\ UNCHANGED vars => IInv'
<1> SUFFICES ASSUME IInv, UNCHANGED vars PROVE IInv'
  OBVIOUS
<1>1. V' = V
  BY DEF vars, V, View
<1>2. TypeOK' /\ Calls'
  BY DEF IInv, vars, TypeOK, Calls
<1> QED
  BY <1>1, <1>2 DEF IInv, vars

\* Every call of the block half of ipo_api.c and ipo_inode.c keeps the
\* invariant, whatever the disk's geometry, the requests and their order.
THEOREM Inductive == Spec => []IInv
<1>1. Init => IInv
  BY InitIInv
<1>2. IInv /\ [Next]_vars => IInv'
  <2> SUFFICES ASSUME IInv, [Next]_vars PROVE IInv'
    OBVIOUS
  <2>1. ASSUME NEW directory \in BOOLEAN, allocate_inode(directory) PROVE IInv'
    BY <2>1, AllocateInode
  <2>2. ASSUME NEW i \in Inodes, free_inode(i) PROVE IInv'
    BY <2>2, FreeInode
  <2>3. CASE ipo_fs_init \/ \E i \in Inodes : ipo_fs_open(i)
    BY <2>3, OpenAndBoot
  <2>4. ASSUME NEW f \in Fds, NEW r \in Requests, ipo_fs_write(f, r) PROVE IInv'
    BY <2>4, WriteStarts
  <2>5. CASE write_block
    BY <2>5, WriteBlock
  <2>6. CASE write_inode
    BY <2>6, WriteInode
  <2>7. CASE UNCHANGED vars
    BY <2>7, Stutter
  <2>8. ASSUME NEW i \in Inodes, dir_add_entry(i) PROVE IInv'
    BY <2>8, AddEntry
  <2> QED
    BY <2>1, <2>2, <2>3, <2>4, <2>5, <2>6, <2>7, <2>8 DEF Next
<1> QED
  BY <1>1, <1>2, PTL DEF Spec

\* Pointers are blocks or 0, sizes are words and the descriptors' inodes
\* exist; a write's offset never leaves the range of a word.
THEOREM TypesHold == Spec => []TypeOK
<1>1. IInv => TypeOK
  BY DEF IInv
<1> QED
  BY <1>1, Inductive, PTL

\* A reference of BlocksOwned and NoLeak is a place with a pointer.
LEMMA RefsAre ==
  ASSUME TypeOK
  PROVE  /\ \A r \in Refs : \E i \in Inodes, a \in Places :
              /\ Value(tab, V[i], a) # 0
              /\ r = <<i, <<a[1], a[2], a[3], Value(tab, V[i], a)>>>>
         /\ \A i \in Inodes, a \in Places :
              Value(tab, V[i], a) # 0 => <<i, <<a[1], a[2], a[3], Value(tab, V[i], a)>>>> \in Refs
<1>1. \A i \in Inodes : V[i] = View(i)
  BY DEF V
<1>2. \A i \in Inodes : Pointers(i) = {<<a[1], a[2], a[3], Value(tab, V[i], a)>> :
                                         a \in {c \in Places : Value(tab, V[i], c) # 0}}
  BY <1>1, PointersAre
<1>3. ASSUME NEW r \in Refs
      PROVE  \E i \in Inodes, a \in Places :
               /\ Value(tab, V[i], a) # 0
               /\ r = <<i, <<a[1], a[2], a[3], Value(tab, V[i], a)>>>>
  <2>1. PICK i \in Inodes : \E p \in Pointers(i) : r = <<i, p>>
    BY DEF Refs
  <2>3. PICK p \in Pointers(i) : r = <<i, p>>
    BY <2>1
  <2>2. PICK a \in Places : Value(tab, V[i], a) # 0 /\ p = <<a[1], a[2], a[3], Value(tab, V[i], a)>>
    BY <1>2
  <2> QED
    BY <2>3, <2>2
<1>4. ASSUME NEW i \in Inodes, NEW a \in Places, Value(tab, V[i], a) # 0
      PROVE  <<i, <<a[1], a[2], a[3], Value(tab, V[i], a)>>>> \in Refs
  <2>1. <<a[1], a[2], a[3], Value(tab, V[i], a)>> \in Pointers(i)
    BY <1>2, <1>4
  <2> QED
    BY <2>1 DEF Refs
<1> QED
  BY <1>3, <1>4

\* No file points to a free block, also between the steps of a write, and no
\* block is reached twice: two files never share a block.
THEOREM OwnershipHolds == Spec => []BlocksOwned
<1>1. IInv => BlocksOwned
  <2> SUFFICES ASSUME IInv PROVE BlocksOwned
    OBVIOUS
  <2>1. TypeOK /\ Owned(bbit, tab, V)
    BY DEF IInv, Good
  <2>2. \A i \in Inodes, a \in Places : <<i, <<a[1], a[2], a[3], Value(tab, V[i], a)>>>>[2][4] = Value(tab, V[i], a)
    OBVIOUS
  <2>3. ASSUME NEW r \in Refs PROVE r[2][4] \in bbit
    BY <2>1, <2>2, RefsAre DEF Owned
  <2>4. ASSUME NEW r \in Refs, NEW s \in Refs, r[2][4] = s[2][4] PROVE r = s
    <3>1. PICK i \in Inodes, a \in Places : /\ Value(tab, V[i], a) # 0
                                            /\ r = <<i, <<a[1], a[2], a[3], Value(tab, V[i], a)>>>>
      BY <2>1, RefsAre
    <3>2. PICK j \in Inodes, c \in Places : /\ Value(tab, V[j], c) # 0
                                            /\ s = <<j, <<c[1], c[2], c[3], Value(tab, V[j], c)>>>>
      BY <2>1, RefsAre
    <3>3. Value(tab, V[i], a) = Value(tab, V[j], c)
      BY <2>2, <2>4, <3>1, <3>2
    <3>4. i = j /\ a = c
      BY <2>1, <3>1, <3>3 DEF Owned
    <3> QED
      BY <3>1, <3>2, <3>4
  <2> QED
    BY <2>3, <2>4 DEF BlocksOwned
<1> QED
  BY <1>1, Inductive, PTL

\* A block stays allocated only while a file points to it, but for those whose
\* pointers allocate_inode() overwrote, and those dir_add_entry() had put into
\* an inode copy when it found the disk full. Both allocating callers of
\* get_data_block_for_inode() are in Spec, and the block count free_inode()
\* works with wraps as the code's does.
THEOREM NoLeakHolds == Spec => []NoLeak
<1>1. IInv => NoLeak
  <2> SUFFICES ASSUME IInv, NEW b \in bbit \ lost PROVE \E r \in Refs : r[2][4] = b
    BY DEF NoLeak
  <2>1. TypeOK /\ b # 0
    BY DEF IInv, TypeOK, Blocks
  <2>2. PICK i \in Inodes, a \in Places : Value(tab, V[i], a) = b
    BY DEF IInv, Good
  <2>3. PICK r \in Refs : r = <<i, <<a[1], a[2], a[3], Value(tab, V[i], a)>>>>
    BY <2>1, <2>2, RefsAre
  <2>4. r[2][4] = b
    BY <2>2, <2>3
  <2> QED
    BY <2>4
<1> QED
  BY <1>1, Inductive, PTL

\* The block a write stored into is the one a read looks up at that place, and
\* no other place of the file changed its block.
THEOREM ReadsFindWrites == Spec => ReadFindsWritten
<1> DEFINE A == call.ino # 0 /\ call'.ino # 0 =>
       /\ DataBlock(tab', call'.in, call.b) = Found.phys
       /\ \A b \in 0 .. (DIRECT_BLOCKS + PER_BLOCK + PER_BLOCK * PER_BLOCK - 1) :
            DataBlock(tab, call.in, b) \in {0, DataBlock(tab', call'.in, b)}
<1>1. IInv /\ [Next]_vars => [A]_vars
  <2> SUFFICES ASSUME IInv, Next, call.ino # 0, call'.ino # 0 PROVE A
    OBVIOUS
  <2>1. call # Idle /\ call' # Idle
    BY DEF Idle
  <2>2. write_block
    BY <2>1 DEF Next, allocate_inode, ipo_fs_open, free_inode, dir_add_entry, ipo_fs_write, write_inode,
                ipo_fs_init
  <2>3. PICK r : r = Found
    OBVIOUS
  <2>4. r.phys # 0
    BY <2>2, <2>3 DEF write_block
  <2>5. /\ r \in G /\ call.ino \in Inodes /\ V \in Views
        /\ Grown(bbit, tab, V, r.bits, r.tab, With(V, call.ino, r.in))
        /\ r.phys = DataBlock(r.tab, r.in, call.b)
    BY <2>3, <2>4, FoundKeeps
  <2>6. TypeOK
    BY DEF IInv
  <2>7. tab' = r.tab /\ call'.in = r.in
    BY <2>2, <2>3, <2>6 DEF write_block, TypeOK
  <2>8. PICK i \in Inodes, v \in Views, n \in Inode, tb \in Tables :
          i = call.ino /\ v = V /\ n = call.in /\ tb = tab
    BY <2>5, <2>6 DEF TypeOK, Tables, NoTable, K
  <2>9. v[i] = n /\ With(v, i, r.in)[i] = r.in
    BY <2>8 DEF V, View, With, Views
  <2>10. \A a \in Places : Value(tb, n, a) \in {0, Value(r.tab, r.in, a)}
    BY <2>5, <2>8, <2>9 DEF Grown
  <2>11. ASSUME NEW b \in 0 .. (MaxBlocks - 1)
         PROVE  DataBlock(tb, n, b) \in {0, DataBlock(r.tab, r.in, b)}
    BY <2>10, LookUp
  <2>12. DataBlock(tab', call'.in, call.b) = Found.phys
    BY <2>3, <2>5, <2>7
  <2>13. \A b \in 0 .. (MaxBlocks - 1) :
           DataBlock(tab, call.in, b) \in {0, DataBlock(tab', call'.in, b)}
    BY <2>7, <2>8, <2>11
  <2>14. \A b \in 0 .. (DIRECT_BLOCKS + PER_BLOCK + PER_BLOCK * PER_BLOCK - 1) :
           DataBlock(tab, call.in, b) \in {0, DataBlock(tab', call'.in, b)}
    <3>1. PICK m \in Nat : m = PER_BLOCK * PER_BLOCK
      BY MaxBlocksNat
    <3>2. MaxBlocks - 1 = DIRECT_BLOCKS + PER_BLOCK + m - 1
      BY <3>1, GeometryAssumption DEF MaxBlocks
    <3> QED
      BY <2>13, <3>1, <3>2, Zenon
  <2> QED
    BY <2>12, <2>14
<1> QED
  BY <1>1, Inductive, PTL DEF Spec, ReadFindsWritten

-----------------------------------------------------------------------------
(***************************************************************************)
(* What a read copies.  The loop's function of the block number is known   *)
(* in closed form, CopiedTo, so no induction over it is needed but for its *)
(* being the only one.                                                     *)
(***************************************************************************)
\* No request ends beyond what a word counts; the code tests the wrapped sum.
NoWrap == \A r \in Requests : r.offset + r.size < WORD

\* Bytes copied once block b is done, of size bytes from offset o.
CopiedTo(o, size, b) ==
  IF b < o \div BLOCK_SIZE THEN 0
  ELSE IF (b + 1) * BLOCK_SIZE - o < size THEN (b + 1) * BLOCK_SIZE - o ELSE size

\* Multiples of the block size.
LEMMA Multiples ==
  ASSUME NEW a \in Nat, NEW b \in Nat
  PROVE  /\ a * BLOCK_SIZE \in Nat /\ (a + 1) * BLOCK_SIZE = a * BLOCK_SIZE + BLOCK_SIZE
         /\ a <= b => a * BLOCK_SIZE <= b * BLOCK_SIZE
<1>1. BLOCK_SIZE \in Nat  BY GeometryAssumption
<1>2. a * BLOCK_SIZE \in Nat /\ (a + 1) * BLOCK_SIZE = a * BLOCK_SIZE + BLOCK_SIZE
  BY <1>1
<1>3. ASSUME a <= b PROVE a * BLOCK_SIZE <= b * BLOCK_SIZE
  BY <1>1, <1>3
<1> QED  BY <1>2, <1>3

\* The block of byte n, and where it begins and ends.
LEMMA BlockOf ==
  ASSUME NEW n \in Nat
  PROVE  /\ n \div BLOCK_SIZE \in Nat /\ n % BLOCK_SIZE \in 0 .. (BLOCK_SIZE - 1)
         /\ n = (n \div BLOCK_SIZE) * BLOCK_SIZE + (n % BLOCK_SIZE)
<1> DEFINE q == n \div BLOCK_SIZE
           m == n % BLOCK_SIZE
<1>1. BLOCK_SIZE \in Nat /\ BLOCK_SIZE > 0  BY GeometryAssumption
<1>2. q \in Nat /\ m \in 0 .. (BLOCK_SIZE - 1) /\ n = BLOCK_SIZE * q + m
  BY <1>1
<1> HIDE DEF q, m
<1>3. BLOCK_SIZE * q = q * BLOCK_SIZE
  BY <1>1, <1>2
<1>4. q \in Nat /\ m \in 0 .. (BLOCK_SIZE - 1) /\ n = q * BLOCK_SIZE + m
  BY <1>2, <1>3
<1> QED  BY <1>4 DEF q, m

\* A byte that is not behind another is in a block that is not behind.
LEMMA BlockOrder ==
  ASSUME NEW m \in Nat, NEW n \in Nat, m <= n
  PROVE  m \div BLOCK_SIZE <= n \div BLOCK_SIZE
<1>1. PICK a \in Nat, c \in Nat : a = m \div BLOCK_SIZE /\ c = n \div BLOCK_SIZE
  BY BlockOf
<1>2. BLOCK_SIZE \in Nat /\ a * BLOCK_SIZE <= m /\ n < c * BLOCK_SIZE + BLOCK_SIZE
      /\ a * BLOCK_SIZE \in Nat /\ c * BLOCK_SIZE \in Nat
  BY <1>1, BlockOf, Multiples, GeometryAssumption
<1>3. ASSUME c + 1 <= a PROVE FALSE
  <2>1. c + 1 \in Nat /\ (c + 1) * BLOCK_SIZE <= a * BLOCK_SIZE
    BY <1>3, Multiples
  <2>2. (c + 1) * BLOCK_SIZE = c * BLOCK_SIZE + BLOCK_SIZE
    BY Multiples
  <2> QED  BY <2>1, <2>2, <1>2
<1> QED  BY <1>1, <1>3

\* One iteration of the loop of ipo_fs_read().
LEMMA CopiesBlock ==
  ASSUME NEW o \in Nat, NEW size \in Nat, NEW b \in Nat, b >= o \div BLOCK_SIZE,
         NEW before, before = CopiedTo(o, size, b - 1),
         NEW room, room = BLOCK_SIZE - (IF b = o \div BLOCK_SIZE THEN o % BLOCK_SIZE ELSE 0)
  PROVE  before + (IF room > size - before THEN size - before ELSE room) = CopiedTo(o, size, b)
<1>1. PICK q \in Nat, m \in Nat : q = o \div BLOCK_SIZE /\ m = o % BLOCK_SIZE
  BY BlockOf
<1>2. /\ o = q * BLOCK_SIZE + m /\ m < BLOCK_SIZE /\ BLOCK_SIZE \in Nat
  BY <1>1, BlockOf, GeometryAssumption
<1>3. PICK s \in Nat : s = b * BLOCK_SIZE
  BY Multiples
<1>4. (b + 1) * BLOCK_SIZE = s + BLOCK_SIZE
  BY <1>3, Multiples
<1>5. CopiedTo(o, size, b) = IF (s + BLOCK_SIZE) - o < size THEN (s + BLOCK_SIZE) - o ELSE size
  <2>1. ~(b < q)
    BY <1>1
  <2> QED  BY <2>1, <1>1, <1>4 DEF CopiedTo
<1>6. CASE b = q
  <2>1. before = 0
    BY <1>1, <1>6 DEF CopiedTo
  <2>2. (s + BLOCK_SIZE) - o = BLOCK_SIZE - m /\ room = BLOCK_SIZE - m
    BY <1>1, <1>2, <1>3, <1>6
  <2> QED  BY <2>1, <2>2, <1>2, <1>5
<1>7. CASE b # q
  <2>1. b >= q + 1 /\ room = BLOCK_SIZE
    BY <1>1, <1>2, <1>7
  <2>2. (q + 1) * BLOCK_SIZE = q * BLOCK_SIZE + BLOCK_SIZE /\ (q + 1) * BLOCK_SIZE <= s
        /\ q * BLOCK_SIZE \in Nat
    BY <2>1, <1>3, Multiples
  <2>3. s > o
    BY <2>2, <1>2
  <2>4. ~(b - 1 < q) /\ b - 1 + 1 = b
    BY <2>1
  <2>5. before = IF s - o < size THEN s - o ELSE size
    BY <2>4, <1>1, <1>3 DEF CopiedTo
  <2>6. CASE s - o < size
    <3>1. before = s - o  BY <2>5, <2>6
    <3> QED  BY <3>1, <2>1, <2>3, <2>6, <1>2, <1>5
  <2>7. CASE ~(s - o < size)
    <3>1. before = size  BY <2>5, <2>7
    <3>2. ~((s + BLOCK_SIZE) - o < size)  BY <2>7, <1>2
    <3> QED  BY <3>1, <3>2, <2>1, <1>2, <1>5, GeometryAssumption
  <2> QED  BY <2>6, <2>7
<1> QED  BY <1>6, <1>7

\* The function the loop computes exists, and there is no other.
LEMMA CopiedIs ==
  ASSUME NEW o \in Nat, NEW size \in Nat, NEW end \in Nat, end >= o \div BLOCK_SIZE
  PROVE  LET first == o \div BLOCK_SIZE
             copied[b \in (first - 1) .. end] ==
               IF b < first THEN 0
               ELSE LET before == copied[b - 1]
                        room == BLOCK_SIZE - (IF b = first THEN o % BLOCK_SIZE ELSE 0)
                    IN  before + (IF room > size - before THEN size - before ELSE room)
         IN  copied[end] = CopiedTo(o, size, end)
<1> DEFINE first == o \div BLOCK_SIZE
           copied[b \in (first - 1) .. end] ==
             IF b < first THEN 0
             ELSE LET before == copied[b - 1]
                      room == BLOCK_SIZE - (IF b = first THEN o % BLOCK_SIZE ELSE 0)
                  IN  before + (IF room > size - before THEN size - before ELSE room)
           Step(b, before) ==
             LET room == BLOCK_SIZE - (IF b = first THEN o % BLOCK_SIZE ELSE 0)
             IN  before + (IF room > size - before THEN size - before ELSE room)
           F == [b \in (first - 1) .. end |-> CopiedTo(o, size, b)]
<1>1. first \in Nat /\ end >= first
  BY BlockOf
<1>2. ASSUME NEW b \in first .. end
      PROVE  Step(b, CopiedTo(o, size, b - 1)) = CopiedTo(o, size, b)
  BY <1>1, CopiesBlock
<1>3. \A b \in (first - 1) .. end : b < first => CopiedTo(o, size, b) = 0
  BY DEF CopiedTo
<1> HIDE DEF Step
<1>4. F = [b \in (first - 1) .. end |-> IF b < first THEN 0 ELSE Step(b, F[b - 1])]
  <2>1. ASSUME NEW b \in (first - 1) .. end
        PROVE  CopiedTo(o, size, b) = IF b < first THEN 0 ELSE Step(b, F[b - 1])
    <3>1. CASE b < first
      BY <3>1, <1>3
    <3>2. CASE ~(b < first)
      <4>1. b \in first .. end /\ b - 1 \in (first - 1) .. end
        BY <3>2, <1>1
      <4>2. F[b - 1] = CopiedTo(o, size, b - 1)
        BY <4>1
      <4> QED
        BY <3>2, <4>1, <4>2, <1>2
    <3> QED
      BY <3>1, <3>2
  <2> QED
    BY <2>1
<1> HIDE DEF F
<1>5. copied = [b \in (first - 1) .. end |-> IF b < first THEN 0 ELSE Step(b, copied[b - 1])]
  BY <1>4 DEF Step
<1> HIDE DEF copied
<1>6. \A b \in first .. end : copied[b] = CopiedTo(o, size, b)
  <2> DEFINE Wrong == {b \in first .. end : copied[b] # CopiedTo(o, size, b)}
  <2> SUFFICES ASSUME Wrong # {} PROVE FALSE
    OBVIOUS
  <2>1. Wrong \in SUBSET Nat
    BY <1>1
  <2>2. PICK b \in Wrong : \A m \in Wrong : b <= m
    BY <2>1, LeastElement
  <2>3. b \in first .. end /\ copied[b] # CopiedTo(o, size, b) /\ b - 1 \in (first - 1) .. end
    BY <1>1
  <2>4. copied[b - 1] = CopiedTo(o, size, b - 1)
    <3>1. CASE b = first
      <4>1. b - 1 < first
        BY <3>1, <1>1
      <4> QED
        BY <4>1, <2>3, <1>3, <1>5
    <3>2. CASE b # first
      <4>1. b - 1 \in first .. end /\ ~(b <= b - 1)
        BY <3>2, <2>3, <1>1
      <4>2. b - 1 \notin Wrong
        BY <4>1, <2>2
      <4> QED
        BY <4>1, <4>2
    <3> QED
      BY <3>1, <3>2
  <2>5. copied[b] = Step(b, copied[b - 1])
    <3>1. ~(b < first) /\ b \in (first - 1) .. end
      BY <2>3, <1>1
    <3> QED
      BY <3>1, <1>5
  <2> QED
    BY <2>3, <2>4, <2>5, <1>2
<1>7. copied[end] = CopiedTo(o, size, end)
  BY <1>1, <1>6
<1> QED
  BY <1>7 DEF copied

LEMMA FirstIs ==
  ASSUME NEW S \in SUBSET Nat, NEW m \in S, \A x \in S : m <= x
  PROVE  First(S) = m
<1>1. First(S) \in S /\ \A x \in S : First(S) <= x
  BY LeastElement DEF First
<1>2. First(S) <= m /\ m <= First(S) /\ First(S) \in Nat /\ m \in Nat
  BY <1>1
<1> QED  BY <1>2

\* The locals of ipo_fs_read() for z bytes from o of a file of N bytes with
\* holes at the blocks Gaps, and where its copy may end.
Reading(o, z, N, Gaps, sz, first, last, holes, end, ends) ==
  /\ sz = IF o + z > N THEN N - o ELSE z
  /\ first = o \div BLOCK_SIZE
  /\ last = ((o + sz - 1) % WORD) \div BLOCK_SIZE
  /\ holes = (first .. last) \cap Gaps
  /\ end = IF holes = {} THEN last ELSE First(holes) - 1
  /\ ends = {o + z, N} \cup {b * BLOCK_SIZE : b \in (first .. (N \div BLOCK_SIZE)) \cap Gaps}

\* Where the copy ends: at the request's end, the file's, or the first hole.
LEMMA CutOff ==
  ASSUME NEW o \in Nat, NEW z \in Nat, NEW N \in Nat, o + z < WORD, N < WORD, o < N,
         NEW Gaps \in SUBSET Nat,
         NEW sz, NEW first, NEW last, NEW holes, NEW end, NEW ends,
         Reading(o, z, N, Gaps, sz, first, last, holes, end, ends)
  PROVE  /\ sz \in Nat /\ first \in Nat /\ end \in Int
         /\ (IF end < first THEN 0 ELSE CopiedTo(o, sz, end))
              = (IF First(ends) > o THEN First(ends) - o ELSE 0)
<1>0. /\ sz = IF o + z > N THEN N - o ELSE z
      /\ first = o \div BLOCK_SIZE
      /\ last = ((o + sz - 1) % WORD) \div BLOCK_SIZE
      /\ holes = (first .. last) \cap Gaps
      /\ end = IF holes = {} THEN last ELSE First(holes) - 1
      /\ ends = {o + z, N} \cup {b * BLOCK_SIZE : b \in (first .. (N \div BLOCK_SIZE)) \cap Gaps}
  BY DEF Reading
<1> USE <1>0
<1>1. /\ sz \in Nat /\ first \in Nat /\ BLOCK_SIZE \in Nat /\ BLOCK_SIZE > 0
      /\ WORD \in Nat /\ o + sz <= N /\ o + sz <= o + z
      /\ o + sz = o + z \/ o + sz = N
  BY BlockOf, GeometryAssumption
<1>2. /\ first * BLOCK_SIZE \in Nat /\ first * BLOCK_SIZE <= o
      /\ (first + 1) * BLOCK_SIZE = first * BLOCK_SIZE + BLOCK_SIZE
      /\ o < (first + 1) * BLOCK_SIZE
  BY <1>1, BlockOf, Multiples
<1>3. PICK e \in Nat : e = o + sz
  BY <1>1
<1>4. (e - 1) % WORD \in Nat /\ (e >= 1 => (e - 1) % WORD = e - 1)
      /\ last = ((e - 1) % WORD) \div BLOCK_SIZE
  BY <1>1, <1>3
<1>5. last \in Nat
  BY <1>4, BlockOf
<1>6. ends \in SUBSET Nat /\ ends # {}
  <2>1. \A b \in (first .. (N \div BLOCK_SIZE)) \cap Gaps : b * BLOCK_SIZE \in Nat
    BY <1>1, Multiples
  <2> QED
    BY <2>1
<1>7. First(ends) \in ends /\ \A x \in ends : First(ends) <= x
  BY <1>6, LeastElement DEF First
<1>8. First(ends) \in Nat
  BY <1>6, <1>7
<1>9. holes \in SUBSET Nat
  BY <1>1
<1>10. holes # {} => First(holes) \in holes /\ \A x \in holes : First(holes) <= x
  BY <1>9, LeastElement DEF First
<1>11. end \in Int
  BY <1>5, <1>9, <1>10
<1>12. CASE sz = 0
  <2>1. z = 0
    BY <1>1, <1>12
  <2>2. First(ends) <= o
    BY <2>1, <1>7
  <2>3. ASSUME ~(end < first) PROVE CopiedTo(o, sz, end) = 0
    <3>1. end \in Nat /\ end + 1 \in Nat
      BY <2>3, <1>1, <1>11
    <3>2. (end + 1) * BLOCK_SIZE \in Nat /\ (first + 1) * BLOCK_SIZE <= (end + 1) * BLOCK_SIZE
      BY <3>1, <2>3, <1>1, Multiples
    <3> QED
      BY <3>1, <3>2, <2>3, <1>1, <1>2, <1>12 DEF CopiedTo
  <2> QED
    BY <2>2, <2>3, <1>1, <1>8, <1>11
<1>13. CASE sz # 0
  <2>1. last = (e - 1) \div BLOCK_SIZE /\ e - 1 \in Nat /\ e >= 1
    BY <1>1, <1>3, <1>4, <1>13
  <2>2. /\ last * BLOCK_SIZE \in Nat /\ last * BLOCK_SIZE <= e - 1
        /\ (last + 1) * BLOCK_SIZE = last * BLOCK_SIZE + BLOCK_SIZE
        /\ e <= (last + 1) * BLOCK_SIZE
    BY <2>1, <1>1, <1>5, BlockOf, Multiples
  <2>3. first <= last /\ last <= N \div BLOCK_SIZE
    BY <2>1, <1>1, <1>3, <1>13, BlockOrder
  <2>4. N \div BLOCK_SIZE \in Nat
    BY BlockOf
  <2>5. CASE holes = {}
    <3>1. end = last /\ ~(end < first)
      BY <2>3, <2>5, <1>1, <1>5
    <3>2. CopiedTo(o, sz, end) = sz
      BY <3>1, <2>2, <1>1, <1>3 DEF CopiedTo
    <3>3. \A x \in ends : e <= x
      <4> SUFFICES ASSUME NEW b \in (first .. (N \div BLOCK_SIZE)) \cap Gaps
                   PROVE  e <= b * BLOCK_SIZE
        BY <1>1, <1>3
      <4>1. b >= last + 1 /\ last + 1 \in Nat /\ b \in Nat
        BY <2>5, <1>1, <1>5
      <4>2. (last + 1) * BLOCK_SIZE <= b * BLOCK_SIZE /\ b * BLOCK_SIZE \in Nat
        BY <4>1, Multiples
      <4>3. (last + 1) * BLOCK_SIZE \in Nat
        BY <4>1, Multiples
      <4> QED
        BY <4>2, <4>3, <2>2, <1>3
    <3>4. e \in ends
      BY <1>1, <1>3
    <3>5. First(ends) = e
      BY <3>3, <3>4, <1>6, FirstIs
    <3> QED
      BY <3>1, <3>2, <3>5, <1>1, <1>3, <1>11, <1>13
  <2>6. CASE holes # {}
    <3>1. PICK h \in holes : h = First(holes) /\ \A x \in holes : h <= x
      BY <2>6, <1>10
    <3>2. h \in Nat /\ first <= h /\ h <= last /\ h \in Gaps /\ end = h - 1
      BY <3>1, <2>6, <1>1, <1>5
    <3>3. /\ h * BLOCK_SIZE \in Nat /\ first * BLOCK_SIZE <= h * BLOCK_SIZE
          /\ h * BLOCK_SIZE <= last * BLOCK_SIZE
      BY <3>2, <1>1, <1>5, Multiples
    <3>4. h * BLOCK_SIZE \in ends
      BY <3>2, <2>3, <2>4, <1>1, <1>5
    <3>5. \A x \in ends : h * BLOCK_SIZE <= x
      <4>1. h * BLOCK_SIZE <= e
        BY <3>3, <2>2, <1>3
      <4>2. ASSUME NEW b \in (first .. (N \div BLOCK_SIZE)) \cap Gaps
            PROVE  h * BLOCK_SIZE <= b * BLOCK_SIZE
        <5>1. b \in Nat /\ h <= b
          <6>1. CASE b \in holes
            BY <6>1, <3>1, <1>1
          <6>2. CASE b \notin holes
            BY <6>2, <3>2, <1>1, <1>5
          <6> QED
            BY <6>1, <6>2
        <5> QED
          BY <5>1, <3>2, Multiples
      <4> QED
        BY <4>1, <4>2, <3>3, <1>1, <1>3
    <3>6. First(ends) = h * BLOCK_SIZE
      BY <3>4, <3>5, <1>6, FirstIs
    <3>7. CASE h = first
      BY <3>2, <3>6, <3>7, <1>1, <1>2
    <3>8. CASE h # first
      <4>1. first + 1 <= h /\ first + 1 \in Nat /\ ~(end < first)
        BY <3>2, <3>8, <1>1
      <4>2. (first + 1) * BLOCK_SIZE <= h * BLOCK_SIZE
        BY <4>1, <3>2, Multiples
      <4>3. h * BLOCK_SIZE > o
        BY <4>2, <3>3, <1>1, <1>2
      <4>4. end + 1 = h
        BY <3>2
      <4>5. h * BLOCK_SIZE - o < sz
        BY <3>3, <2>2, <1>1, <1>3
      <4>6. CopiedTo(o, sz, end) = h * BLOCK_SIZE - o
        BY <4>1, <4>4, <4>5 DEF CopiedTo
      <4>7. First(ends) > o /\ First(ends) - o = h * BLOCK_SIZE - o
        BY <4>3, <3>6
      <4> QED
        BY <4>1, <4>6, <4>7, <1>1, <1>11
    <3> QED
      BY <3>7, <3>8
  <2> QED
    BY <2>5, <2>6
<1> QED
  BY <1>1, <1>11, <1>12, <1>13

\* ipo_fs_read() of a copy of an inode.
LEMMA ReadsUpTo ==
  ASSUME NEW n \in Inode, NEW r \in Requests, r.offset + r.size < WORD
  PROVE  LET ends == {r.offset + r.size, n.size} \cup
                     {b * BLOCK_SIZE : b \in {c \in (r.offset \div BLOCK_SIZE) .. (n.size \div BLOCK_SIZE) :
                                                DataBlock(tab, n, c) = 0}}
         IN  ipo_fs_read(n, r) = IF First(ends) > r.offset THEN First(ends) - r.offset ELSE 0
<1> DEFINE ends == {r.offset + r.size, n.size} \cup
                   {b * BLOCK_SIZE : b \in {c \in (r.offset \div BLOCK_SIZE) .. (n.size \div BLOCK_SIZE) :
                                              DataBlock(tab, n, c) = 0}}
           sum == (r.offset + r.size) % WORD
           size == IF sum > n.size THEN n.size - r.offset ELSE r.size
           first == r.offset \div BLOCK_SIZE
           last == ((r.offset + size - 1) % WORD) \div BLOCK_SIZE
           holes == {b \in first .. last : DataBlock(tab, n, b) = 0}
           end == IF holes = {} THEN last ELSE First(holes) - 1
           copied[b \in (first - 1) .. end] ==
             IF b < first THEN 0
             ELSE LET before == copied[b - 1]
                      room == BLOCK_SIZE - (IF b = first THEN r.offset % BLOCK_SIZE ELSE 0)
                  IN  before + (IF room > size - before THEN size - before ELSE room)
           Gaps == {b \in Nat : DataBlock(tab, n, b) = 0}
<1>1. ipo_fs_read(n, r) = IF r.offset >= n.size \/ end < first THEN 0 ELSE copied[end]
  BY DEF ipo_fs_read
<1>2. PICK o \in Nat, z \in Nat, N \in Nat : o = r.offset /\ z = r.size /\ N = n.size
  BY RequestsAssumption, GeometryAssumption DEF Inode
<1>3. o + z < WORD /\ N < WORD /\ WORD \in Nat
  BY <1>2, GeometryAssumption DEF Inode
<1>4. sum = o + z
  BY <1>2, <1>3
<1>5. o \div BLOCK_SIZE \in Nat /\ N \div BLOCK_SIZE \in Nat
  BY BlockOf
<1>6. ends = {o + z, N} \cup {b * BLOCK_SIZE : b \in ((o \div BLOCK_SIZE) .. (N \div BLOCK_SIZE)) \cap Gaps}
  <2>1. {c \in (r.offset \div BLOCK_SIZE) .. (n.size \div BLOCK_SIZE) : DataBlock(tab, n, c) = 0}
          = ((o \div BLOCK_SIZE) .. (N \div BLOCK_SIZE)) \cap Gaps
    BY <1>2, <1>5
  <2> QED
    BY <2>1, <1>2
<1>7. CASE o >= N
  <2>1. ends \in SUBSET Nat /\ N \in ends
    <3>1. \A b \in ((o \div BLOCK_SIZE) .. (N \div BLOCK_SIZE)) \cap Gaps : b * BLOCK_SIZE \in Nat
      BY Multiples
    <3> HIDE DEF Gaps, ends
    <3>2. o + z \in Nat /\ N \in Nat
      BY <1>2
    <3>3. \A x \in ends : x \in Nat
      BY <3>1, <3>2, <1>6
    <3> QED
      BY <3>3, <1>6
  <2> HIDE DEF ends
  <2>2. First(ends) \in Nat /\ First(ends) <= N
    BY <2>1, LeastElement DEF First
  <2>3. ~(First(ends) > r.offset) /\ r.offset >= n.size
    BY <2>2, <1>2, <1>7
  <2>4. ipo_fs_read(n, r) = 0
    BY <2>3, <1>1
  <2> QED
    BY <2>3, <2>4 DEF ends
<1>8. CASE o < N
  <2>1. size = IF o + z > N THEN N - o ELSE z
    BY <1>2, <1>4
  <2> HIDE DEF size, sum
  <2>2. last = ((o + size - 1) % WORD) \div BLOCK_SIZE /\ first = o \div BLOCK_SIZE
    BY <1>2
  <2> HIDE DEF last
  <2>3. size \in Nat /\ last \in Int
    <3>1. size \in Nat /\ WORD > 0
      BY <2>1, <1>2, <1>3, <1>8
    <3>2. (o + size - 1) % WORD \in Nat
      BY <3>1, <1>2, <1>3
    <3> QED
      BY <3>1, <3>2, <2>2, BlockOf
  <2>4. holes = (first .. last) \cap Gaps
    BY <2>2, <2>3, <1>5
  <2>5. end = IF holes = {} THEN last ELSE First(holes) - 1
    OBVIOUS
  <2>6. Gaps \in SUBSET Nat
    OBVIOUS
  <2>10. ends = {o + z, N} \cup {b * BLOCK_SIZE : b \in (first .. (N \div BLOCK_SIZE)) \cap Gaps}
    BY <1>6, <2>2
  <2> HIDE DEF first, holes, end, Gaps, ends
  <2>11. Reading(o, z, N, Gaps, size, first, last, holes, end, ends)
    BY <2>1, <2>2, <2>4, <2>5, <2>10 DEF Reading
  <2>7. /\ end \in Int /\ first \in Nat
        /\ (IF end < first THEN 0 ELSE CopiedTo(o, size, end))
             = (IF First(ends) > o THEN First(ends) - o ELSE 0)
    BY <2>6, <2>11, <1>3, <1>8, CutOff
  <2>8. ASSUME ~(end < first) PROVE copied[end] = CopiedTo(o, size, end)
    <3>1. end \in Nat /\ end >= o \div BLOCK_SIZE
      BY <2>2, <2>7, <2>8
    <3>2. LET f == o \div BLOCK_SIZE
              g[b \in (f - 1) .. end] ==
                IF b < f THEN 0
                ELSE LET before == g[b - 1]
                         room == BLOCK_SIZE - (IF b = f THEN o % BLOCK_SIZE ELSE 0)
                     IN  before + (IF room > size - before THEN size - before ELSE room)
          IN  g[end] = CopiedTo(o, size, end)
      BY <3>1, <2>3, CopiedIs
    <3> QED
      BY <3>2, <2>2, <1>2 DEF first
  <2>9. ~(r.offset >= n.size)
    BY <1>2, <1>8
  <2> QED
    BY <2>7, <2>8, <2>9, <1>1, <1>2 DEF ends
<1> QED
  BY <1>2, <1>7, <1>8

\* A read copies what lies between its offset and the first of the request's
\* end, the file's end and the file's first hole, in every state of the disk.
THEOREM ReadsHold == NoWrap => (Spec => []ReadIsPrefix)
<1> SUFFICES ASSUME NoWrap PROVE Spec => []ReadIsPrefix
  OBVIOUS
<1>1. TypeOK => ReadIsPrefix
  <2> SUFFICES ASSUME TypeOK PROVE ReadIsPrefix
    OBVIOUS
  <2>1. \A i \in Inodes : inode[i] \in Inode
    BY DEF TypeOK
  <2>2. \A r \in Requests : r.offset + r.size < WORD
    BY DEF NoWrap
  <2> QED
    BY <2>1, <2>2, ReadsUpTo DEF ReadIsPrefix
<1> QED
  BY <1>1, TypesHold, PTL

=============================================================================
