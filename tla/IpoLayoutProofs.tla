-------------------------- MODULE IpoLayoutProofs --------------------------
(***************************************************************************)
(* The layout of IpoLayout is right for every disk, inode count and block  *)
(* size.  Two arguments carry it.  The difference that data_blocks() wraps *)
(* is never below half a word, so that its sign as a signed number is its  *)
(* sign.  And a round of the loop divides the Surplus, what the bitmap has *)
(* more than the blocks that are left need, by the bits in a block: after  *)
(* three rounds not more than one bit is missing, whatever the disk.       *)
(***************************************************************************)
EXTENDS IpoLayout, TLAPS

-----------------------------------------------------------------------------
(* Arithmetic.                                                             *)

\* Division rounds down.
LEMMA Quotient ==
  ASSUME NEW a \in Int, NEW b \in Nat \ {0}
  PROVE  /\ a \div b \in Int
         /\ b * (a \div b) <= a
         /\ a < b * (a \div b) + b
  OBVIOUS

\* Rounding up, as inode_table_blocks() and the others do, gives room for a.
LEMMA RoundedUp ==
  ASSUME NEW a \in Nat, NEW b \in Nat \ {0}
  PROVE  /\ (a + b - 1) \div b \in Nat
         /\ b * ((a + b - 1) \div b) >= a
         /\ b * ((a + b - 1) \div b) <= a + b - 1
<1>1. (a + b - 1) \in Nat
  OBVIOUS
<1>2. (a + b - 1) \div b \in Nat
  BY <1>1
<1> QED
  BY <1>1, <1>2, Quotient

\* A number between -b and b is wrapped once at most.
LEMMA Wrapped ==
  ASSUME NEW a \in Int, NEW b \in Nat \ {0}, -b <= a, a < b
  PROVE  /\ a >= 0 => a % b = a
         /\ a < 0 => a % b = a + b
  OBVIOUS

\* A byte of a bitmap and then its block are the block of the bit.
LEMMA BlockOfBit ==
  ASSUME NEW bit \in Nat, NEW n \in Nat, NEW s \in Nat \ {0}, bit < n * (8 * s)
  PROVE  (bit \div 8) \div s < n
<1> DEFINE byte == bit \div 8
           q == byte \div s
<1>1. byte \in Int /\ 8 * byte <= bit
  OBVIOUS
<1>2. q \in Int /\ s * q <= byte
  BY <1>1, Quotient
<1>3. (8 * s) * q <= bit
  <2> HIDE DEF byte, q
  <2> QED
  BY <1>1, <1>2
<1>4. (8 * s) * q < (8 * s) * n
  <2> HIDE DEF byte, q
  <2> QED
  BY <1>2, <1>3
<1>5. q < n
  <2> HIDE DEF byte, q
  <2> QED
  BY <1>2, <1>4
<1> QED
  BY <1>5

\* One round: b blocks of bitmap out of r, P bits in a block. The surplus
\* b * (P + 1) - r changes its sign and is divided by P, up to the rounding.
LEMMA Contraction ==
  ASSUME NEW r \in Nat \ {0}, NEW b \in 0 .. r, NEW P \in Nat, P >= 8,
         NEW c, c = (r - b + P - 1) \div P
  PROVE  /\ c \in 0 .. r
         /\ P * c >= r - b
         /\ P * (c * (P + 1) - r) >= -(b * (P + 1) - r)
         /\ P * (c * (P + 1) - r) <= P * P - 1 - (b * (P + 1) - r)
<1> DEFINE d == r - b
<1>1. d \in Nat /\ d <= r /\ c = (d + P - 1) \div P
  OBVIOUS
<1> HIDE DEF d
<1>2. c \in Nat /\ P * c >= d /\ P * c <= d + P - 1
  <2>1. P \in Nat \ {0}
    OBVIOUS
  <2> QED
    BY ONLY <2>1, <1>1, RoundedUp
<1>3. c <= r
  <2>1. SUFFICES ASSUME c >= r + 1 PROVE FALSE
    BY <1>2
  <2>2. P * c >= P * r + P
    BY <2>1, <1>2
  <2>3. P * r >= 8 * r
    OBVIOUS
  <2> QED
    BY <2>2, <2>3, <1>1, <1>2
<1>4. (P * c) * (P + 1) >= d * (P + 1)
  BY <1>1, <1>2
<1>5. (P * c) * (P + 1) <= (d + P - 1) * (P + 1)
  BY <1>1, <1>2
<1>6. P * (c * (P + 1) - r) = (P * c) * (P + 1) - P * r
  BY <1>2
<1>7. d * (P + 1) = r * P + r - b * (P + 1)
  BY DEF d
<1>8. (d + P - 1) * (P + 1) = d * (P + 1) + P * P - 1
  BY <1>1
<1>9. P * r = r * P
  OBVIOUS
<1> DEFINE x == P * (c * (P + 1) - r)
           y == (P * c) * (P + 1)
           e == b * (P + 1)
           f == r * P
           g == P * P
           h == d * (P + 1)
           k == (d + P - 1) * (P + 1)
<1>10. x \in Int /\ y \in Int /\ e \in Int /\ f \in Int /\ g \in Int /\ h \in Int /\ k \in Int
  BY <1>1, <1>2
<1>11. y >= h /\ y <= k /\ x = y - f /\ h = f + r - e /\ k = h + g - 1
  BY <1>4, <1>5, <1>6, <1>7, <1>8, <1>9
<1> HIDE DEF x, y, e, f, g, h, k
<1>12. x >= -(e - r) /\ x <= g - 1 - (e - r)
  BY <1>10, <1>11
<1>13. P * c >= r - b
  BY <1>2 DEF d
<1> QED
  BY <1>2, <1>3, <1>12, <1>13 DEF x, e, g

-----------------------------------------------------------------------------
(* The inductive invariant.                                                *)

\* The blocks of disk t for data and the block bitmap together.
RoomOf(t) ==
  t.blocks - 1 - inode_bitmap_blocks(t.inodes) - inode_table_blocks(t.inodes)

\* What b blocks of bitmap are too many for the r - b blocks they leave.
Surplus(r, b) == b * (PerBlock + 1) - r

\* The bitmap has a bit for every data block, or for all but one.
Enough(r, b) == r - b <= b * PerBlock
AlmostEnough(r, b) == r - b - 1 <= b * PerBlock

\* After k rounds, on a disk that has room.
Near(r, b, k) ==
  /\ b <= r
  /\ k = 0 => b = 1
  /\ k = 1 => Surplus(r, b) >= -1 /\ Surplus(r, b) <= (WORD \div PerBlock) + PerBlock
  /\ k = 2 => Surplus(r, b) >= -(PerBlock + 1) /\ Surplus(r, b) <= PerBlock
  /\ k >= 3 => Surplus(r, b) >= -1 /\ Surplus(r, b) <= PerBlock + 1

Types ==
  /\ total \in [blocks : 0 .. ((WORD \div 2) - 1), inodes : Nat \ {0}]
  /\ block_bitmap_blocks \in Nat /\ block_bitmap_blocks * PerBlock < WORD
  /\ iter \in 0 .. ROUNDS
  /\ pc \in {"loop", "check", "formatted", "refused"}

Computing ==
  pc \in {"loop", "check"} =>
    /\ total.inodes * INODE_SIZE + 8 * BLOCK_SIZE < WORD
    /\ RoomOf(total) >= 1 => Near(RoomOf(total), block_bitmap_blocks, iter)

Checked ==
  pc = "check" /\ RoomOf(total) >= 1 =>
    Enough(RoomOf(total), block_bitmap_blocks) \/ iter = ROUNDS

Laid ==
  pc = "formatted" =>
    /\ sb = Super(block_bitmap_blocks, total.inodes)
    /\ block_bitmap_blocks < RoomOf(total)
    /\ \/ Enough(RoomOf(total), block_bitmap_blocks)
       \/ iter = ROUNDS /\ AlmostEnough(RoomOf(total), block_bitmap_blocks)

IInv == Types /\ Computing /\ Checked /\ Laid

-----------------------------------------------------------------------------
(* The sizes of the parts.                                                 *)

\* The sizes as numbers: what the proofs need of the constants.
LEMMA Sizes ==
  /\ BLOCK_SIZE \in Nat \ {0} /\ BLOCK_SIZE >= 8
  /\ INODE_SIZE \in Nat \ {0} /\ INODE_SIZE <= BLOCK_SIZE
  /\ PerBlock \in Nat \ {0} /\ PerBlock >= 64 /\ PerBlock = 8 * BLOCK_SIZE
  /\ WORD \in Nat \ {0} /\ WORD > 2 * PerBlock
  BY SizesAssumption DEF PerBlock

\* inode_bitmap_blocks() and inode_table_blocks() give every inode its bit
\* and its bytes, and are no block too large.
LEMMA Parts ==
  ASSUME NEW n \in Nat \ {0}
  PROVE  /\ inode_bitmap_blocks(n) \in Nat \ {0}
         /\ PerBlock * inode_bitmap_blocks(n) >= n
         /\ PerBlock * inode_bitmap_blocks(n) <= n + PerBlock - 1
         /\ inode_table_blocks(n) \in Nat \ {0}
         /\ BLOCK_SIZE * inode_table_blocks(n) >= n * INODE_SIZE
         /\ BLOCK_SIZE * inode_table_blocks(n) <= n * INODE_SIZE + BLOCK_SIZE - 1
<1>1. n * INODE_SIZE \in Nat /\ n * INODE_SIZE >= 1
  BY Sizes
<1>2. /\ inode_bitmap_blocks(n) \in Nat
      /\ PerBlock * inode_bitmap_blocks(n) >= n
      /\ PerBlock * inode_bitmap_blocks(n) <= n + PerBlock - 1
  <2>1. PerBlock \in Nat \ {0}
    BY Sizes
  <2> QED
    BY <2>1, RoundedUp DEF inode_bitmap_blocks
<1>3. /\ inode_table_blocks(n) \in Nat
      /\ BLOCK_SIZE * inode_table_blocks(n) >= n * INODE_SIZE
      /\ BLOCK_SIZE * inode_table_blocks(n) <= n * INODE_SIZE + BLOCK_SIZE - 1
  <2>1. BLOCK_SIZE \in Nat \ {0}
    BY Sizes
  <2> QED
    BY <2>1, <1>1, RoundedUp DEF inode_table_blocks
<1>4. inode_bitmap_blocks(n) # 0
  BY <1>2, Sizes
<1>5. inode_table_blocks(n) # 0
  BY <1>1, <1>3, Sizes
<1> QED
  BY <1>2, <1>3, <1>4, <1>5

\* Needed() of a number that does not wrap, and of any.
LEMMA NeededBounds ==
  ASSUME NEW n \in 0 .. WORD - 1
  PROVE  /\ Needed(n) \in Nat /\ Needed(n) * PerBlock < WORD
         /\ n < WORD \div 2 => /\ Needed(n) = (n + PerBlock - 1) \div PerBlock
                               /\ PerBlock * Needed(n) >= n
                               /\ PerBlock * Needed(n) <= n + PerBlock - 1
<1> DEFINE m == (n + PerBlock - 1) % WORD
<1>1. n \in Nat /\ (n + PerBlock - 1) \in Nat
  BY Sizes
<1>2. m \in 0 .. WORD - 1
  BY <1>1, Sizes
<1>3. Needed(n) = m \div PerBlock
  BY DEF Needed
<1>4. Needed(n) \in Nat /\ Needed(n) * PerBlock < WORD
  <2> HIDE DEF m
  <2>1. PerBlock \in Nat \ {0} /\ m \in Nat
    BY <1>2, Sizes
  <2>2. Needed(n) \in Nat
    BY <2>1, <1>3
  <2>3. PerBlock * Needed(n) <= m
    BY <2>1, <1>3, Quotient
  <2> QED
    BY <2>1, <2>2, <2>3, <1>2, Sizes
<1>5. ASSUME n < WORD \div 2
      PROVE  m = n + PerBlock - 1
  <2>1. n + PerBlock - 1 < WORD
    BY <1>5, Sizes
  <2> QED
    BY <2>1, <1>1, Sizes
<1>6. ASSUME n < WORD \div 2
      PROVE  /\ Needed(n) = (n + PerBlock - 1) \div PerBlock
             /\ PerBlock * Needed(n) >= n
             /\ PerBlock * Needed(n) <= n + PerBlock - 1
  <2>1. Needed(n) = (n + PerBlock - 1) \div PerBlock
    BY <1>5, <1>6, <1>3
  <2>2. PerBlock \in Nat \ {0}
    BY Sizes
  <2> QED
    BY <2>1, <2>2, <1>1, RoundedUp
<1> QED
  BY <1>4, <1>6

\* The number of blocks that are left, and its sign: however little room
\* there is, the difference does not fall below half a word.
LEMMA DataBlocks ==
  ASSUME Types, total.inodes * INODE_SIZE + 8 * BLOCK_SIZE < WORD,
         NEW r, r = RoomOf(total)
  PROVE  /\ r \in Int /\ r < WORD \div 2
         /\ data_blocks(block_bitmap_blocks) \in 0 .. WORD - 1
         /\ r >= block_bitmap_blocks =>
              data_blocks(block_bitmap_blocks) = r - block_bitmap_blocks
         /\ Positive(data_blocks(block_bitmap_blocks)) <=> r > block_bitmap_blocks
<1> DEFINE n == total.inodes
           ib == inode_bitmap_blocks(n)
           it == inode_table_blocks(n)
           b == block_bitmap_blocks
           T == total.blocks
           x == T - 1 - ib - b - it
<1>1. n \in Nat \ {0} /\ T \in 0 .. ((WORD \div 2) - 1) /\ b \in Nat /\ b * PerBlock < WORD
  BY DEF Types
<1>2. r = T - 1 - ib - it /\ data_blocks(b) = x % WORD
  BY DEF RoomOf, data_blocks
<1>3. n * INODE_SIZE \in Nat /\ n <= n * INODE_SIZE /\ n * INODE_SIZE + PerBlock < WORD
  BY <1>1, Sizes
<1>4. /\ ib \in Nat \ {0} /\ PerBlock * ib <= n + PerBlock - 1
      /\ it \in Nat \ {0} /\ BLOCK_SIZE * it <= n * INODE_SIZE + BLOCK_SIZE - 1
  BY <1>1, Parts
<1> HIDE DEF n, ib, it, b, T
<1>5. 64 * ib <= PerBlock * ib /\ 8 * it <= BLOCK_SIZE * it /\ 64 * b <= b * PerBlock
  BY <1>1, <1>4, Sizes
<1>6. 64 * ib < WORD /\ 8 * it < WORD /\ 64 * b < WORD
  BY <1>1, <1>3, <1>4, <1>5, Sizes
<1>7. x \in Int /\ x < WORD \div 2 /\ x >= (WORD \div 2) - WORD
  BY <1>1, <1>4, <1>6, Sizes
<1>8. r \in Int /\ r < WORD \div 2 /\ x = r - b
  BY <1>1, <1>2, <1>4, Sizes
<1> HIDE DEF x
<1>9. x % WORD \in 0 .. WORD - 1
  BY <1>7, Sizes
<1>10. /\ x >= 0 => x % WORD = x
       /\ x < 0 => x % WORD = x + WORD
  <2>1. -WORD <= x /\ x < WORD /\ WORD \in Nat \ {0}
    BY <1>7, Sizes
  <2> QED
    BY <2>1, <1>7, Wrapped
<1>11. Positive(x % WORD) <=> x > 0
  BY <1>7, <1>9, <1>10, Sizes DEF Positive
<1> QED
  BY <1>1, <1>2, <1>8, <1>9, <1>10, <1>11 DEF b

-----------------------------------------------------------------------------
(* The loop.                                                               *)

\* Products with the same factor compare as the other factors do.
LEMMA Cancel ==
  ASSUME NEW P \in Nat \ {0}, NEW a \in Int, NEW z \in Int
  PROVE  /\ P * a < P * z + P => a <= z
         /\ P * a > P * z - P => a >= z
<1>1. ASSUME P * a < P * z + P PROVE a <= z
  <2>1. P * a < P * (z + 1)
    BY <1>1
  <2> QED
    BY <2>1
<1>2. ASSUME P * a > P * z - P PROVE a >= z
  <2>1. P * a > P * (z - 1)
    BY <1>2
  <2> QED
    BY <2>1
<1> QED
  BY <1>1, <1>2

\* A round brings the bitmap nearer to what is needed.
LEMMA NearStep ==
  ASSUME NEW r \in Nat \ {0}, r < WORD \div 2, NEW b \in Nat, NEW k \in Nat,
         Near(r, b, k), NEW c, c = Needed(r - b)
  PROVE  Near(r, c, k + 1)
<1> DEFINE P == PerBlock
           e == Surplus(r, b)
           f == Surplus(r, c)
           w == WORD \div P
<1>1. P \in Nat \ {0} /\ P >= 8 /\ b \in 0 .. r
  BY Sizes DEF Near
<1>2. c = (r - b + P - 1) \div P
  <2>1. r - b \in 0 .. WORD - 1 /\ r - b < WORD \div 2
    BY <1>1, Sizes
  <2> QED
    BY <2>1, NeededBounds
<1>3. c \in 0 .. r
  BY <1>1, <1>2, Contraction
<1>4. P * f >= -e /\ P * f <= P * P - 1 - e
  BY <1>1, <1>2, Contraction DEF Surplus
<1>5. e \in Int /\ f \in Int
  BY <1>1, <1>3 DEF Surplus
<1>6. w \in Nat /\ P * w > WORD - P /\ w < P * (w \div P) + P /\ w \div P \in Int /\ w \div P <= P
  <2>1. w \in Int /\ P * w <= WORD /\ WORD < P * w + P
    <3>1. WORD \in Int
      BY Sizes
    <3> QED
      BY ONLY <3>1, <1>1, Quotient
  <2>2. w \in Nat
    BY Sizes, <1>1
  <2> HIDE DEF w
  <2>3. w \div P \in Int /\ w < P * (w \div P) + P
    BY <2>2, <1>1, Quotient
  <2> QED
    BY <2>1, <2>2, <2>3, <1>1, Sizes, RoundsAssumption DEF w
<1>7. WORD > 2 * P /\ WORD \in Nat /\ 2 * r < WORD
  BY Sizes
<1>8. ASSUME k = 0
      PROVE  f >= -1 /\ f <= w + P
  <2>1. e = P + 1 - r
    BY <1>8, <1>1 DEF Near, Surplus
  <2> HIDE DEF P, e, f, w
  <2>2. P * f > P * (-1) - P
    BY <2>1, <1>1, <1>4, <1>5
  <2>3. P * f <= P * P - 2 - P + r
    BY <2>1, <1>1, <1>4, <1>5
  <2>4. P * (w + P) = P * w + P * P
    BY <1>1, <1>6
  <2>5. P * f < P * (w + P) + P
    BY <2>3, <2>4, <1>1, <1>5, <1>6, <1>7
  <2>6. w + P \in Int /\ -1 \in Int
    BY <1>1, <1>6
  <2> QED
    BY <2>2, <2>5, <2>6, <1>1, <1>5, Cancel
<1>9. ASSUME k = 1
      PROVE  f >= -(P + 1) /\ f <= P
  <2>1. e >= -1 /\ e <= w + P
    BY <1>9 DEF Near
  <2> HIDE DEF P, e, f, w
  <2>2. P * (w \div P) <= P * P
    BY <1>1, <1>6
  <2>3. P * f > -(P * P) - 2 * P
    BY <2>1, <2>2, <1>1, <1>4, <1>5, <1>6
  <2>4. P * (-(P + 1)) = -(P * P) - P
    BY <1>1
  <2>5. P * f > P * (-(P + 1)) - P
    BY <2>3, <2>4, <1>1, <1>5
  <2>6. P * f < P * P + P
    BY <2>1, <1>1, <1>4, <1>5
  <2>7. -(P + 1) \in Int /\ P \in Int
    BY <1>1
  <2> QED
    BY <2>5, <2>6, <2>7, <1>1, <1>5, Cancel
<1>10. ASSUME k = 2 \/ k >= 3
       PROVE  f >= -1 /\ f <= P + 1
  <2>1. e >= -(P + 1) /\ e <= P + 1
    <3>1. CASE k = 2
      <4>1. e >= -(P + 1) /\ e <= P
        BY <3>1 DEF Near
      <4> HIDE DEF P, e
      <4> QED
        BY <4>1, <1>1, <1>5
    <3>2. CASE k >= 3
      <4>1. e >= -1 /\ e <= P + 1
        BY <3>2 DEF Near
      <4> HIDE DEF P, e
      <4> QED
        BY <4>1, <1>1, <1>5
    <3> QED
      BY <3>1, <3>2, <1>10
  <2> HIDE DEF P, e, f, w
  <2>2. P * f > P * (-1) - P
    BY <2>1, <1>1, <1>4, <1>5
  <2>3. P * (P + 1) = P * P + P
    BY <1>1
  <2>4. P * f < P * (P + 1) + P
    BY <2>1, <2>3, <1>1, <1>4, <1>5
  <2>5. P + 1 \in Int /\ -1 \in Int
    BY <1>1
  <2> QED
    BY <2>2, <2>4, <2>5, <1>1, <1>5, Cancel
<1>11. CASE k = 0
  <2>1. k + 1 = 1
    BY <1>11
  <2> QED
    BY <2>1, <1>3, <1>8, <1>11 DEF Near
<1>12. CASE k = 1
  <2>1. k + 1 = 2
    BY <1>12
  <2> QED
    BY <2>1, <1>3, <1>9, <1>12 DEF Near
<1>13. CASE k >= 2
  <2>1. k + 1 >= 3 /\ k + 1 # 0 /\ k + 1 # 1 /\ k + 1 # 2 /\ (k = 2 \/ k >= 3)
    BY <1>13
  <2> QED
    BY <2>1, <1>3, <1>10 DEF Near
<1> QED
  BY <1>11, <1>12, <1>13

\* After the last round at most one data block is without a bit.
LEMMA NearEnough ==
  ASSUME NEW r \in Nat, NEW b \in Nat, NEW k \in Nat, k >= 3, Near(r, b, k)
  PROVE  AlmostEnough(r, b)
<1>1. Surplus(r, b) >= -1
  BY DEF Near
<1>2. b * (PerBlock + 1) = b * PerBlock + b
  BY Sizes
<1>3. b * PerBlock \in Nat
  BY Sizes
<1> QED
  BY <1>1, <1>2, <1>3 DEF Surplus, AlmostEnough

\* The larger the disk, the more is left beside its bitmap.
LEMMA NeededGrowsSlowly ==
  ASSUME NEW m \in Nat, NEW n \in Nat, m <= n, n < WORD \div 2
  PROVE  Needed(n) - Needed(m) <= n - m
<1>1. /\ m \in 0 .. WORD - 1 /\ n \in 0 .. WORD - 1
      /\ m < WORD \div 2 /\ PerBlock \in Nat \ {0} /\ PerBlock >= 8
  BY Sizes
<1>2. /\ Needed(m) \in Nat /\ PerBlock * Needed(m) >= m
      /\ Needed(n) \in Nat /\ PerBlock * Needed(n) <= n + PerBlock - 1
  BY <1>1, NeededBounds
<1> DEFINE d == Needed(n) - Needed(m)
<1>3. d \in Int /\ PerBlock * d <= n - m + PerBlock - 1
  BY <1>1, <1>2
<1> HIDE DEF d
<1>4. SUFFICES ASSUME d > n - m PROVE FALSE
  BY <1>2, <1>3 DEF d
<1>5. PerBlock * d >= PerBlock * (n - m + 1)
  BY <1>1, <1>3, <1>4
<1>6. PerBlock * (n - m + 1) = PerBlock * (n - m) + PerBlock
  BY <1>1
<1>7. PerBlock * (n - m) >= n - m
  BY <1>1
<1> QED
  BY <1>1, <1>3, <1>5, <1>6, <1>7

-----------------------------------------------------------------------------
(* The invariant holds.                                                    *)

LEMMA InitIInv == Init => IInv
<1> SUFFICES ASSUME Init PROVE IInv
  OBVIOUS
<1>1. Types
  <2>1. total \in [blocks : 0 .. ((WORD \div 2) - 1), inodes : Nat \ {0}]
    BY GeometriesAssumption DEF Init
  <2>2. 1 * PerBlock < WORD
    BY Sizes
  <2> QED
    BY <2>1, <2>2, RoundsAssumption DEF Init, Types
<1>2. Computing
  <2>1. total.inodes * INODE_SIZE + 8 * BLOCK_SIZE < WORD
    BY GeometriesAssumption DEF Init
  <2>2. RoomOf(total) >= 1 => Near(RoomOf(total), 1, 0)
    BY DEF Near
  <2> QED
    BY <2>1, <2>2 DEF Init, Computing
<1>3. Checked /\ Laid
  BY DEF Init, Checked, Laid
<1> QED
  BY <1>1, <1>2, <1>3 DEF IInv

LEMMA RoundStep == IInv /\ ipo_fs_format_round => IInv'
<1> SUFFICES ASSUME IInv, ipo_fs_format_round PROVE IInv'
  OBVIOUS
<1> DEFINE b == block_bitmap_blocks
           r == RoomOf(total)
           d == data_blocks(b)
           nb == Needed(d)
<1>1. /\ Types /\ total.inodes * INODE_SIZE + 8 * BLOCK_SIZE < WORD
      /\ (r >= 1 => Near(r, b, iter)) /\ iter < ROUNDS
  BY DEF IInv, Computing, ipo_fs_format_round, More
<1>2. /\ r \in Int /\ r < WORD \div 2 /\ d \in 0 .. WORD - 1
      /\ (r >= b => d = r - b)
  BY <1>1, DataBlocks
<1>3. b \in Nat /\ iter \in Nat /\ iter + 1 \in 0 .. ROUNDS
  BY <1>1, RoundsAssumption DEF Types
<1>4. nb \in Nat /\ nb * PerBlock < WORD
  BY <1>2, NeededBounds
<1>5. total' = total
  BY DEF ipo_fs_format_round
<1> HIDE DEF r, d, nb
<1>6. ASSUME r >= 1
      PROVE  b <= r /\ d = r - b /\ Near(r, nb, iter + 1) /\ (nb = b => Enough(r, b))
  <2>1. b <= r /\ Near(r, b, iter)
    BY <1>1, <1>6 DEF Near
  <2>2. d = r - b
    BY <2>1, <1>2, <1>3
  <2>3. r \in Nat \ {0}
    BY <1>2, <1>6
  <2>4. Near(r, nb, iter + 1)
    BY <2>1, <2>2, <2>3, <1>2, <1>3, NearStep DEF nb
  <2>5. ASSUME nb = b PROVE Enough(r, b)
    <3>1. d < WORD \div 2
      BY <2>1, <2>2, <2>3, <1>2, <1>3, Sizes
    <3>2. PerBlock * nb >= d
      BY <3>1, <1>2, NeededBounds DEF nb
    <3>3. PerBlock * nb = nb * PerBlock
      BY <1>4, Sizes
    <3> QED
      BY <3>2, <3>3, <2>2, <2>5 DEF Enough
  <2> QED
    BY <2>1, <2>2, <2>4, <2>5
<1>7. CASE nb = b
  <2>1. pc' = "check" /\ UNCHANGED <<block_bitmap_blocks, iter, total, sb>>
    BY <1>7 DEF ipo_fs_format_round, Settled, nb, d
  <2>2. Types'
    BY <2>1, <1>1 DEF Types
  <2>3. Computing'
    BY <2>1, <1>1 DEF Computing, r
  <2>4. Checked' /\ Laid'
    BY <2>1, <1>6, <1>7 DEF Checked, Laid, r
  <2> QED
    BY <2>2, <2>3, <2>4 DEF IInv
<1>8. CASE nb # b
  <2>1. /\ block_bitmap_blocks' = nb /\ iter' = iter + 1
        /\ UNCHANGED <<total, sb, pc>> /\ pc = "loop"
    BY <1>8 DEF ipo_fs_format_round, Settled, nb, d
  <2>2. Types'
    BY <2>1, <1>1, <1>3, <1>4 DEF Types
  <2>3. Computing'
    BY <2>1, <1>1, <1>6 DEF Computing, r
  <2>4. Checked' /\ Laid'
    BY <2>1 DEF Checked, Laid
  <2> QED
    BY <2>2, <2>3, <2>4 DEF IInv
<1> QED
  BY <1>7, <1>8

LEMMA OutOfRoundsStep == IInv /\ ipo_fs_format_out_of_rounds => IInv'
<1> SUFFICES ASSUME IInv, ipo_fs_format_out_of_rounds PROVE IInv'
  OBVIOUS
<1>1. /\ pc = "loop" /\ pc' = "check" /\ ~(iter < ROUNDS)
      /\ UNCHANGED <<total, block_bitmap_blocks, iter, sb>>
  BY DEF ipo_fs_format_out_of_rounds, More
<1>2. iter = ROUNDS
  BY <1>1, RoundsAssumption DEF IInv, Types
<1>3. Types'
  BY <1>1 DEF IInv, Types
<1>4. Computing'
  BY <1>1 DEF IInv, Computing
<1>5. Checked' /\ Laid'
  BY <1>1, <1>2 DEF Checked, Laid
<1> QED
  BY <1>3, <1>4, <1>5 DEF IInv

LEMMA WriteStep == IInv /\ ipo_fs_format_write => IInv'
<1> SUFFICES ASSUME IInv, ipo_fs_format_write PROVE IInv'
  OBVIOUS
<1> DEFINE b == block_bitmap_blocks
           r == RoomOf(total)
<1>1. /\ pc = "check" /\ UNCHANGED <<total, block_bitmap_blocks, iter>>
      /\ pc' \in {"formatted", "refused"}
  BY DEF ipo_fs_format_write
<1>2. /\ Types /\ total.inodes * INODE_SIZE + 8 * BLOCK_SIZE < WORD
      /\ r >= 1 => Near(r, b, iter) /\ (Enough(r, b) \/ iter = ROUNDS)
  BY <1>1 DEF IInv, Computing, Checked
<1>3. Types' /\ Computing' /\ Checked'
  BY <1>1, <1>2 DEF Types, Computing, Checked
<1>4. Laid'
  <2>1. SUFFICES ASSUME pc' = "formatted" PROVE Laid'
    BY DEF Laid
  <2>2. Positive(data_blocks(b)) /\ sb' = Super(b, total.inodes)
    BY <2>1 DEF ipo_fs_format_write
  <2>3. r \in Int /\ r > b
    BY <2>2, <1>2, DataBlocks
  <2>4. b \in Nat /\ iter \in Nat /\ r \in Nat /\ r >= 1
    BY <2>3, <1>2, RoundsAssumption DEF Types
  <2> HIDE DEF r
  <2>5. Enough(r, b) \/ (iter = ROUNDS /\ AlmostEnough(r, b))
    <3>1. ASSUME iter = ROUNDS PROVE AlmostEnough(r, b)
      <4>1. iter >= 3
        BY <3>1, RoundsAssumption
      <4> QED
        BY <4>1, <2>4, <1>2, NearEnough
    <3> QED
      BY <3>1, <2>4, <1>2
  <2>6. b < r
    BY <2>3, <2>4
  <2> QED
    BY <2>2, <2>5, <2>6, <1>1 DEF Laid, r
<1> QED
  BY <1>3, <1>4 DEF IInv

LEMMA EditorStep == IInv /\ format_disk => IInv'
<1> SUFFICES ASSUME IInv, format_disk PROVE IInv'
  OBVIOUS
<1> DEFINE T == total.blocks
           u == [total EXCEPT !.inodes = EDITOR_INODES]
           nb == Needed(T)
           ib == inode_bitmap_blocks(EDITOR_INODES)
           it == inode_table_blocks(EDITOR_INODES)
<1>1. /\ T >= EDITOR_MIN_BLOCKS /\ total' = u /\ block_bitmap_blocks' = nb
      /\ sb' = Super(nb, EDITOR_INODES) /\ pc' = "formatted" /\ iter' = 0
  BY DEF format_disk
<1>2. T \in Nat /\ T < WORD \div 2 /\ T \in 0 .. WORD - 1
  BY Sizes DEF IInv, Types
<1>3. /\ u \in [blocks : 0 .. ((WORD \div 2) - 1), inodes : Nat \ {0}]
      /\ u.inodes = EDITOR_INODES /\ u.blocks = T
  BY SizesAssumption DEF IInv, Types
<1>4. /\ nb \in Nat /\ nb * PerBlock < WORD /\ PerBlock * nb >= T
  BY <1>2, NeededBounds
<1>5. ib \in Nat \ {0} /\ it \in Nat \ {0}
  BY Parts, SizesAssumption
<1>6. RoomOf(u) = T - 1 - ib - it
  BY <1>3 DEF RoomOf
<1>7. nb < RoomOf(u)
  <2>1. EDITOR_MIN_BLOCKS \in Nat /\ EDITOR_MIN_BLOCKS <= T
    BY SizesAssumption, <1>1, <1>2
  <2>2. nb - Needed(EDITOR_MIN_BLOCKS) <= T - EDITOR_MIN_BLOCKS
    BY <2>1, <1>2, NeededGrowsSlowly
  <2>3. Needed(EDITOR_MIN_BLOCKS) \in Nat
    BY <2>1, <1>2, Sizes, NeededBounds
  <2>4. 1 + ib + Needed(EDITOR_MIN_BLOCKS) + it < EDITOR_MIN_BLOCKS
    BY EditorAssumption DEF Super
  <2> HIDE DEF nb, ib, it, T, u
  <2> QED
    BY <2>1, <2>2, <2>3, <2>4, <1>2, <1>4, <1>5, <1>6
<1>8. Enough(RoomOf(u), nb)
  <2>1. PerBlock * nb = nb * PerBlock /\ nb * PerBlock \in Nat
    BY <1>4, Sizes
  <2> HIDE DEF nb, ib, it, T, u
  <2> QED
    BY <2>1, <1>2, <1>4, <1>5, <1>6 DEF Enough
<1> HIDE DEF u, nb, T
<1>9. Types'
  BY <1>1, <1>3, <1>4, RoundsAssumption DEF Types
<1>10. Computing' /\ Checked'
  BY <1>1 DEF Computing, Checked
<1>11. Laid'
  BY <1>1, <1>3, <1>7, <1>8 DEF Laid
<1> QED
  BY <1>9, <1>10, <1>11 DEF IInv

\* In every state the loop is as near to the size it looks for as its rounds
\* make it, and a disk that is formatted has the layout of its numbers.
THEOREM Inductive == Spec => []IInv
<1>1. IInv /\ [Next]_vars => IInv'
  <2> SUFFICES ASSUME IInv, [Next]_vars PROVE IInv'
    OBVIOUS
  <2>1. CASE UNCHANGED vars
    BY <2>1 DEF vars, IInv, Types, Computing, Checked, Laid
  <2>2. CASE Next
    BY <2>2, RoundStep, OutOfRoundsStep, WriteStep, EditorStep DEF Next
  <2> QED
    BY <2>1, <2>2
<1> QED
  BY <1>1, InitIInv, PTL DEF Spec

-----------------------------------------------------------------------------
(* What it says of a formatted disk.                                       *)

\* The superblock of a formatted disk in numbers.
LEMMA Places ==
  ASSUME IInv, Formatted
  PROVE  /\ total.inodes \in Nat \ {0} /\ block_bitmap_blocks \in Nat
         /\ sb.inode_bitmap_start = 1
         /\ sb.block_bitmap_start = 1 + inode_bitmap_blocks(total.inodes)
         /\ sb.inode_table_start = sb.block_bitmap_start + block_bitmap_blocks
         /\ sb.data_blocks_start = sb.inode_table_start + inode_table_blocks(total.inodes)
         /\ data_blocks_total = RoomOf(total) - block_bitmap_blocks
         /\ data_blocks_total \in Int /\ data_blocks_total > 0
<1>1. /\ sb = Super(block_bitmap_blocks, total.inodes)
      /\ block_bitmap_blocks < RoomOf(total)
  BY DEF IInv, Laid, Formatted
<1>2. /\ total.inodes \in Nat \ {0} /\ total.blocks \in Nat /\ block_bitmap_blocks \in Nat
  BY Sizes DEF IInv, Types
<1>3. /\ inode_bitmap_blocks(total.inodes) \in Nat
      /\ inode_table_blocks(total.inodes) \in Nat
  BY <1>2, Parts
<1>4. /\ sb.inode_bitmap_start = 1
      /\ sb.block_bitmap_start = 1 + inode_bitmap_blocks(total.inodes)
      /\ sb.inode_table_start = sb.block_bitmap_start + block_bitmap_blocks
      /\ sb.data_blocks_start = sb.inode_table_start + inode_table_blocks(total.inodes)
  BY <1>1 DEF Super
<1>5. RoomOf(total) \in Int /\ data_blocks_total = RoomOf(total) - block_bitmap_blocks
  BY <1>2, <1>3, <1>4 DEF RoomOf, data_blocks_total
<1> QED
  BY <1>1, <1>2, <1>4, <1>5

\* A formatted disk has its parts inside, one after the other, and a data
\* block: for every number of blocks and inodes and every block size, testing
\* the wrapped difference as a signed number (ipo_fs_format()) refuses all
\* the disks the parts do not fit on, and the editor's test for its smallest
\* disk does the same for format_disk().
THEOREM PartsHold == Spec => []PartsFit
<1>1. IInv => PartsFit
  <2> SUFFICES ASSUME IInv, Formatted PROVE PartsFit
    BY DEF PartsFit
  <2>1. /\ inode_bitmap_blocks(total.inodes) \in Nat \ {0}
        /\ inode_table_blocks(total.inodes) \in Nat \ {0}
    BY Places, Parts
  <2>2. data_blocks_total > 0
    BY Places
  <2>3. /\ 1 < sb.block_bitmap_start /\ sb.block_bitmap_start <= sb.inode_table_start
        /\ sb.inode_table_start < sb.data_blocks_start
    BY <2>1, Places
  <2> QED
    BY <2>2, <2>3 DEF PartsFit
<1> QED
  BY <1>1, Inductive, PTL

\* read_inode() stays in the table as long as the records up to the inode,
\* packed by whole records, are no more than its share of the bytes.
LEMMA InodeInTable ==
  ASSUME NEW n \in Nat \ {0}, NEW i \in 1 .. n,
         i * BLOCK_SIZE <= n * INODE_SIZE * INODES_PER_BLOCK
  PROVE  /\ (i - 1) \div INODES_PER_BLOCK \in Int
         /\ (i - 1) \div INODES_PER_BLOCK < inode_table_blocks(n)
<1> DEFINE K == INODES_PER_BLOCK
           B == BLOCK_SIZE
           q == (i - 1) \div K
           t == inode_table_blocks(n)
           bytes == n * INODE_SIZE
<1>1. K \in Nat \ {0}
  <2>1. K \in Int /\ BLOCK_SIZE < INODE_SIZE * K + INODE_SIZE
    BY Sizes, Quotient DEF INODES_PER_BLOCK
  <2>2. ASSUME K <= 0 PROVE FALSE
    <3>1. INODE_SIZE * K <= 0
      BY <2>1, <2>2, Sizes
    <3> QED
      BY <3>1, <2>1, Sizes
  <2> QED
    BY <2>1, <2>2
<1>2. i \in Nat /\ i - 1 \in Int /\ i >= 1
  OBVIOUS
<1>3. q \in Int /\ K * q <= i - 1
  BY <1>1, <1>2, Quotient
<1>4. B \in Nat \ {0} /\ t \in Nat /\ B * t >= bytes /\ bytes \in Nat
  BY Sizes, Parts
<1>5. i * B <= bytes * K
  OBVIOUS
<1> HIDE DEF K, B, q, t, bytes
<1>6. bytes * K <= (B * t) * K
  BY <1>1, <1>4
<1>7. i * B <= (t * K) * B
  <2>1. (B * t) * K = (t * K) * B
    BY <1>1, <1>4
  <2> QED
    BY <2>1, <1>1, <1>2, <1>4, <1>5, <1>6
<1>8. i <= t * K
  BY <1>1, <1>2, <1>4, <1>7
<1>9. K * q < K * t
  BY <1>1, <1>2, <1>3, <1>4, <1>8
<1>10. q < t
  BY <1>1, <1>3, <1>4, <1>9
<1> QED
  BY <1>3, <1>10 DEF q, t, K

\* The bitmaps and the inode table are where bitmap_get() and read_inode()
\* look: for every disk, the bit of every inode is in the inode bitmap and
\* the bit of every data block in the block bitmap, with the last data block
\* of a loop that ran out of rounds as the only exception.
THEOREM FoundHolds == Spec => []FoundInItsPart
<1>1. IInv => FoundInItsPart
  <2> SUFFICES ASSUME IInv, Formatted PROVE FoundInItsPart
    BY DEF FoundInItsPart
  <2> DEFINE n == total.inodes
             b == block_bitmap_blocks
             ib == inode_bitmap_blocks(n)
             it == inode_table_blocks(n)
             D == data_blocks_total
  <2>1. /\ n \in Nat \ {0} /\ b \in Nat
        /\ sb.inode_bitmap_start = 1
        /\ sb.block_bitmap_start = 1 + ib
        /\ sb.inode_table_start = sb.block_bitmap_start + b
        /\ sb.data_blocks_start = sb.inode_table_start + it
        /\ D = RoomOf(total) - b /\ D \in Int
    BY Places
  <2>2. /\ ib \in Nat \ {0} /\ PerBlock * ib >= n /\ it \in Nat \ {0}
    BY <2>1, Parts
  <2>3. ib * (8 * BLOCK_SIZE) >= n
    BY <2>2, Sizes
  <2>4. Enough(D + b, b) \/ (iter = ROUNDS /\ AlmostEnough(D + b, b))
    <3>1. RoomOf(total) = D + b
      <4>1. RoomOf(total) \in Int
        <5>1. total.blocks \in Nat
          BY Sizes DEF IInv, Types
        <5> QED
          BY <5>1, <2>2 DEF RoomOf
      <4> QED
        BY <4>1, <2>1
    <3> QED
      BY <3>1 DEF IInv, Laid, Formatted
  <2> HIDE DEF n, ib, it, D
  <2>5. ASSUME NEW i \in 1 .. n
        PROVE  bitmap_get(sb.inode_bitmap_start, i - 1) < sb.block_bitmap_start
    <3>1. i - 1 \in Nat /\ i - 1 < ib * (8 * BLOCK_SIZE)
      BY <2>1, <2>2, <2>3, Sizes
    <3>2. ((i - 1) \div 8) \div BLOCK_SIZE < ib
      BY ONLY <3>1, <2>2, Sizes, BlockOfBit
    <3>3. ((i - 1) \div 8) \div BLOCK_SIZE \in Int
      BY <3>1, Sizes
    <3> QED
      BY <3>2, <3>3, <2>1, <2>2 DEF bitmap_get
  <2>6. ASSUME NEW i \in 1 .. n, i * BLOCK_SIZE <= n * INODE_SIZE * INODES_PER_BLOCK
        PROVE  read_inode(i) < sb.data_blocks_start
    <3>1. /\ (i - 1) \div INODES_PER_BLOCK \in Int
          /\ (i - 1) \div INODES_PER_BLOCK < it
      BY <2>1, <2>6, InodeInTable DEF it
    <3> QED
      BY <3>1, <2>1, <2>2 DEF read_inode
  <2>7. ASSUME NEW d \in 0 .. (D - 1)
        PROVE  \/ bitmap_get(sb.block_bitmap_start, d) < sb.inode_table_start
               \/ iter = ROUNDS /\ d = D - 1
    <3>1. SUFFICES ASSUME ~(iter = ROUNDS /\ d = D - 1)
                   PROVE  bitmap_get(sb.block_bitmap_start, d) < sb.inode_table_start
      OBVIOUS
    <3>2. b * PerBlock \in Nat /\ b * PerBlock = b * (8 * BLOCK_SIZE)
      BY <2>1, Sizes
    <3>3. d \in Nat /\ d < b * (8 * BLOCK_SIZE)
      <4>1. CASE Enough(D + b, b)
        BY <4>1, <3>2, <2>1 DEF Enough
      <4>2. CASE iter = ROUNDS /\ AlmostEnough(D + b, b)
        BY <4>2, <3>1, <3>2, <2>1 DEF AlmostEnough
      <4> QED
        BY <4>1, <4>2, <2>4
    <3>4. (d \div 8) \div BLOCK_SIZE < b
      BY ONLY <3>3, <2>1, Sizes, BlockOfBit
    <3>5. (d \div 8) \div BLOCK_SIZE \in Int
      BY <3>3, Sizes
    <3> QED
      BY <3>4, <3>5, <2>1, <2>2 DEF bitmap_get
  <2> QED
    BY <2>5, <2>6, <2>7 DEF FoundInItsPart, n, D
<1> QED
  BY <1>1, Inductive, PTL

=============================================================================
