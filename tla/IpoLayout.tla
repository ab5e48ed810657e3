----------------------------- MODULE IpoLayout -----------------------------
(***************************************************************************)
(* Where the parts of an IPO file system lie on the disk: the layout that  *)
(* ipo_fs_format() and the disk editor's format_disk() compute, against    *)
(* the sectors that read_inode(), bitmap_get() and allocate_block() go to. *)
(* The kernel's loop looks for a block bitmap as large as the data blocks  *)
(* it leaves need; one step is one round.  Words have WORD values.         *)
(***************************************************************************)
EXTENDS Integers

CONSTANTS
  BLOCK_SIZE, INODE_SIZE,  \* IPO_FS_BLOCK_SIZE, sizeof(struct ipo_inode)
  WORD,                    \* 2^32 in the code
  MIN_BLOCKS,              \* the smallest total_blocks ipo_fs_format() accepts
  ROUNDS,                  \* of the loop
  EDITOR_MIN_BLOCKS, EDITOR_INODES,   \* the same of the disk editor, and its inodes
  Geometries               \* the [blocks, inodes] to format

ASSUME SizesAssumption ==
  /\ BLOCK_SIZE \in Nat /\ BLOCK_SIZE >= 8 /\ INODE_SIZE \in 1 .. BLOCK_SIZE
  /\ WORD \in Nat /\ WORD > 16 * BLOCK_SIZE
  /\ MIN_BLOCKS \in Nat \ {0} /\ EDITOR_MIN_BLOCKS \in Nat /\ EDITOR_INODES \in Nat \ {0}
ASSUME GeometriesAssumption ==
  /\ Geometries \subseteq [blocks : 0 .. ((WORD \div 2) - 1), inodes : Nat \ {0}]
  /\ \A g \in Geometries : g.inodes * INODE_SIZE + 8 * BLOCK_SIZE < WORD

VARIABLES
  total,                \* [blocks, inodes]
  block_bitmap_blocks,
  iter,
  pc,                   \* "loop", "check", "formatted", "refused"
  sb                    \* the superblock

vars == <<total, block_bitmap_blocks, iter, pc, sb>>

PerBlock == 8 * BLOCK_SIZE                    \* bits in a block
INODES_PER_BLOCK == BLOCK_SIZE \div INODE_SIZE
NoSuper == [inode_bitmap_start |-> 0, block_bitmap_start |-> 0, inode_table_start |-> 0,
            data_blocks_start |-> 0]

-----------------------------------------------------------------------------
(***************************************************************************)
(* Plausible mistakes, used only to check that the properties notice them. *)
(***************************************************************************)
TableRoundedDown(n) == (n * INODE_SIZE) \div BLOCK_SIZE
UnsignedTest(n) == n # 0

-----------------------------------------------------------------------------
inode_table_blocks(n) == (n * INODE_SIZE + BLOCK_SIZE - 1) \div BLOCK_SIZE
inode_bitmap_blocks(n) == (n + PerBlock - 1) \div PerBlock

\* What is left for data, in unsigned arithmetic.
data_blocks(bitmap_blocks) ==
  (total.blocks - 1 - inode_bitmap_blocks(total.inodes) - bitmap_blocks
   - inode_table_blocks(total.inodes)) % WORD
Needed(n) == ((n + PerBlock - 1) % WORD) \div PerBlock

\* (int) n > 0
Positive(n) == n # 0 /\ n < WORD \div 2

Super(bitmap_blocks, inodes) ==
  LET b == 1 + inode_bitmap_blocks(inodes)
      t == b + bitmap_blocks
  IN  [inode_bitmap_start |-> 1, block_bitmap_start |-> b, inode_table_start |-> t,
       data_blocks_start |-> t + inode_table_blocks(inodes)]

\* A round divides the loop's error by the bits in a block: after three no
\* disk the sector numbers can count leaves more than one block of it (the
\* code makes eight, and 2^32 sectors are 256 times 4096 times 4096).
ASSUME RoundsAssumption ==
  ROUNDS \in Nat /\ ROUNDS >= 3 /\ (WORD \div PerBlock) \div PerBlock <= PerBlock
\* The smallest disk the editor accepts (100 blocks) holds its 256 inodes.
ASSUME EditorAssumption ==
  Super(Needed(EDITOR_MIN_BLOCKS), EDITOR_INODES).data_blocks_start < EDITOR_MIN_BLOCKS

Init ==
  /\ total \in Geometries
  /\ block_bitmap_blocks = 1 /\ iter = 0 /\ sb = NoSuper
  /\ pc = IF total.blocks < MIN_BLOCKS THEN "refused" ELSE "loop"

Settled(nb) == nb = block_bitmap_blocks
More == iter < ROUNDS

ipo_fs_format_round ==
  LET nb == Needed(data_blocks(block_bitmap_blocks))
  IN  /\ pc = "loop" /\ More
      /\ IF Settled(nb) THEN pc' = "check" /\ UNCHANGED <<block_bitmap_blocks, iter>>
         ELSE block_bitmap_blocks' = nb /\ iter' = iter + 1 /\ UNCHANGED pc
      /\ UNCHANGED <<total, sb>>

ipo_fs_format_out_of_rounds ==
  /\ pc = "loop" /\ ~More
  /\ pc' = "check" /\ UNCHANGED <<total, block_bitmap_blocks, iter, sb>>

ipo_fs_format_write ==
  /\ pc = "check"
  /\ IF Positive(data_blocks(block_bitmap_blocks))
     THEN pc' = "formatted" /\ sb' = Super(block_bitmap_blocks, total.inodes)
     ELSE pc' = "refused" /\ UNCHANGED sb
  /\ UNCHANGED <<total, block_bitmap_blocks, iter>>

\* The disk editor formats the same disk: its own inode count, and a bitmap
\* that has a bit for every block of the disk.
format_disk ==
  /\ pc \in {"formatted", "refused"} /\ total.blocks >= EDITOR_MIN_BLOCKS
  /\ total' = [total EXCEPT !.inodes = EDITOR_INODES]
  /\ block_bitmap_blocks' = Needed(total.blocks)
  /\ sb' = Super(Needed(total.blocks), EDITOR_INODES)
  /\ pc' = "formatted" /\ iter' = 0

Next ==
  ipo_fs_format_round \/ ipo_fs_format_out_of_rounds \/ ipo_fs_format_write \/ format_disk

Spec == Init /\ [][Next]_vars

-----------------------------------------------------------------------------
(***************************************************************************)
(* Where the users of the layout go.                                       *)
(***************************************************************************)
read_inode(i) == sb.inode_table_start + ((i - 1) \div INODES_PER_BLOCK)
bitmap_get(start, bit) == start + ((bit \div 8) \div BLOCK_SIZE)
data_blocks_total == total.blocks - sb.data_blocks_start

Formatted == pc = "formatted"

\* A disk that is formatted has all its parts inside, one after the other,
\* and a data block at least: the test of a wrapped difference as a signed
\* number refuses every disk the parts do not fit on.
PartsFit ==
  Formatted =>
    /\ 1 < sb.block_bitmap_start /\ sb.block_bitmap_start <= sb.inode_table_start
    /\ sb.inode_table_start < sb.data_blocks_start /\ data_blocks_total > 0

\* The users find what they look for in its part. The bit of an inode is in
\* the inode bitmap, the bit of a data block in the block bitmap; if the
\* loop ran out of rounds, where it swings between two sizes, the last data
\* block's bit may be the first of the inode table. Inodes are packed by
\* whole records in a block, the table is sized by bytes: an inode is in the
\* table if the records up to it make up no more than that share of it (912
\* of the 1024 the kernel formats).
FoundInItsPart ==
  Formatted =>
    /\ \A i \in 1 .. total.inodes :
         /\ bitmap_get(sb.inode_bitmap_start, i - 1) < sb.block_bitmap_start
         /\ i * BLOCK_SIZE <= total.inodes * INODE_SIZE * INODES_PER_BLOCK
              => read_inode(i) < sb.data_blocks_start
    /\ \A d \in 0 .. (data_blocks_total - 1) :
         \/ bitmap_get(sb.block_bitmap_start, d) < sb.inode_table_start
         \/ iter = ROUNDS /\ d = data_blocks_total - 1

=============================================================================
