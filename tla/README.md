# IPO_OS: TLA+ models, checks and proofs

IPO_OS is a small 32-bit x86 kernel in C with its own file system, program
loader and text console. This directory models the parts that keep state and
whose mistakes show only after a long or unlucky sequence of calls. Line numbers
are those of the files under `src/`; `PROJECT.json` maps every definition to its lines.

## 1. Inventory

The kernel is single threaded: interrupts are off, `kmain()` initialises the
parts and then calls `terminal_console()` for ever, which polls the keyboard.
Programs run inside the call that started them. Nothing interleaves below a
call, except through the disk (which survives a reset), the heap memory shared
by all callers, and the VGA memory shared by the kernel and a program's own copy
of the library. The hard behaviour is therefore long sequences of legal calls,
partial failure, limits, and state kept in two places.

| Part | State | Operations | Used by | What makes it correct |
|---|---|---|---|---|
| Kernel heap (`memory/kmalloc.c`) | a bump region tiled by blocks with headers in the same memory | `kmalloc_init`, `kmalloc`, `kfree` | process manager, terminal, autorun | callers never overlap, the block chain stays walkable, every call returns, freed memory is reusable |
| Names (`file_system/ipo_dir.c`, `ipo_path.c`, `ipo_api.c`) | inode bitmap, inode modes and sizes, directory slots, `fs_mounted` | mount, create, delete, rename, lookup | programs, autorun, terminal, disk editor | one name per inode, names unique, failed calls change nothing, protected entries stay, directories stay a tree |
| Blocks (`ipo_inode.c`, `ipo_api.c`, `ipo_state.c`) | block bitmap, pointer trees, descriptors | open, read, write, `free_inode` | loader, autorun, names | no block shared, none free while referenced, none lost |
| Layout, bitmaps, block access (`ipo_api.c` format, `ipo_bitmap.c`, `ipo_block.c`, `ensure_fs_mounted` of `kernel32.c`) | superblock, bitmaps | format, mount or format at boot, `bitmap_get/set` | the two above | regions do not overlap and are found where they were laid; a reset or a failed access between two writes costs no file |
| Path canonicalisation (`ipo_path.c`) | none (a stack of names on the stack) | `fs_canonicalize` | names, command line | a canonical path is a fixed point and names what the path named |
| ATA driver (`driver/ata.c`) | devices found, device registers | identify, read, write | block access | data goes to the sector asked for, a timeout does not derail the next command |
| Process manager (`kernel/process.c`) | process list, current process, heap blocks and descriptor per process | `process_exec`, `process_cleanup` | terminal, autorun, programs | every exit frees what was taken, once; the caller's process is current again |
| Terminal (`kernel/terminal.c`, `stdio/putchar.c`, `system/vga.c`) | VGA cells, hardware cursor, two history buffers, input line | keys, scrolling, printing | `kmain`, every printf | the echo is the input, history fits its buffers and loses nothing but its oldest lines |
| Autorun, command line (`kernel/autorun.c`, `terminal.c`) | the text of `/autorun`, buffers on the stack, copies on the heap | split lines and arguments, find the program, run it | `kmain`, terminal | no overrun, the program gets the words of its line, each line runs once, everything is freed |
| Keyboard (`driver/keyboard.c`, `keymaps/`) | pressed keys, layout | scancode to character | terminal | shift state follows the keys |
| Disk editor (`disk_editor.py`) | the same disk, from the host | ls, mkdir, touch, put, rm, format | user | agrees with the kernel on the format |
| printf family, strings, serial, sound, timer, boot | none of lasting interest | | | |

`PROJECT.json` lists each part with its status and, under `hazards`, what can go
wrong at which line and which property would notice.

## 2. Modules

**KHeap** is the heap, word by word: a header is three words of the same memory
`mem` the callers' data lies in, so a header written in the wrong place destroys
what is there. `kmalloc(n)` starts a call, `find_free_block` is one iteration of
the scan, `kmalloc_reuse`, `kmalloc_extend` and `kmalloc_null` are its three
ends; `kfree(l)` and `use(l, d)` are what holders do. `live` (what callers
hold) and `blocks` (where headers were laid) are bookkeeping the code does not
have. `MCKHeap` gives the sizes.

**IpoNames** is the directory tree on disk: slots that only grow, tombstones
left by removal, directories with dots (made by format and by the disk editor)
and without (made by `ipo_fs_create`). One API call is one step with all its
error returns; a directory at a block boundary may or may not get its block.
`Init` is the disk `ipo_fs_format` leaves plus one directory `/d`. **FileTree**
is what the calls promise: a set of named edges changed by whole operations.
`IpoNames` implements it with the mapping `tree <- Edges` (live non-dot slots
of allocated directories), `used <- ` the inode bitmap. `MCIpoNames` gives the paths.

**IpoFile** is the block side: bitmap, pointer blocks, inodes and descriptors.
`ipo_fs_write` starts a write, `write_block` is one iteration of its loop and
`write_inode` its end, because the bitmap and the pointer blocks change at once
while the inode is a copy until the end. `dir_add_entry` is the other caller that allocates:
a directory grows by an entry, and when the disk is full after a pointer block was taken, the
code drops the inode copy that points to it. `last_block` and the block count of `free_inode`
wrap as `uint32_t` does.
Descriptors are never closed (the code has no close); a reboot resets them.
`DataBlock` is the lookup without allocation and `ipo_fs_read` the length of a read, which
stops at the first hole. `lost` records the blocks a reused inode or a dropped inode copy
forgot, for `NoLeak`.

**IpoDisk** is the same disk write by write. A call in progress is a list `todo` of
functions and sector writes; a function is replaced by its writes when its turn
comes, computed from what the disk then holds, and each entry carries what its
caller does on failure (`Ignored`, `Fatal`, `Instead`), which is where the code's
ignored return values are. `reset` empties the list and boots; `write_fails` may or
may not have stored the sector, or could not read the sector it changes a part of. What a
failed read does is different in each place, as in the code: `read_fails` ends the functions
that end (`Readers`), and the others go on, each with its own action or disjunct. A lookup
that cannot read takes the name for free (`Overlooks`, and the second disjunct of
`run_dir_add_entry`); `Scan` lets `bitmap_get` answer "free" for a bit it could not read;
`free_inode_unread` frees what the buffer of an indirect block happens to hold; `data_unread`
puts another file's bytes around those written; a delete of a directory may go by a size
that was not read. A boot is
`ensure_fs_mounted`: mount, or format and mount. Initial disks are a blank one, one with
foreign contents, and a used one. `scars` is history: the faults that, by the
model's own runs, leave a mark the code never removes.

**IpoLayout** is the layout `ipo_fs_format` computes, round by round of its loop, in
unsigned arithmetic, with the sizes of the code (512-byte blocks, 76-byte inodes), and
the disk editor's `format_disk` on the same disk. `read_inode`, `bitmap_get` and
`data_blocks_total` are where the users of the layout look.

**IpoPath** is `fs_canonicalize` as one pass over the characters. **Commands** extends
it: `autorun_*` are the steps of `autorun_init`, `terminal_enter` is Enter at the
prompt, and from there both take the same steps, `command_found` or
`command_not_found`, one `parse_argument` per word, `process_exec`, `process_returns`.
`heap` is the set of pointers not yet handed to `kfree`, and any `kmalloc` may fail. The reference
definitions (`Runs`, `Denotes`, `CommandsOf`) do not share the code's algorithm: `Denotes`
decides by counting which names survive the `..` behind them.

**Process** is `process_exec`: frames of nested calls, each at stage load,
place, args or running. The allocator may refuse any request and the file
system any file. `unfreed` is the set of blocks `kmalloc` gave out that were not handed to
`kfree`; that `kfree` ignores a block which was freed and reused is in KHeap only, so from the
second program on a block Process counts as freed may stay in use. With the library linked into each program, the shipped
programs work on their own copy of `process.c`; nesting is what `process_exec`
itself provides for (it saves and restores `current_process`).

**Terminal** is screen, history and line editing. `tty` holds the VGA cells, the
cursor and both buffers; `putchar`, `scroll_up` and so on map a `tty` to the
next. An action is one key (`Key`), or one character printed while a command (or autorun,
before the first key) runs: by the kernel (`KernelPrints`) or by the program
(`ProgramOutput`). Programs are linked
with their own library (`mk/app.mk`), so `program_putchar` changes the
screen and the cursor but not the kernel's history.

**Ata** is the driver with its drives. `call` is the call in progress and walks
through the driver's loops: `Select` and `Registers` are what is written before the wait (the
drive; sector count and LBA), `ata_wait_bsy_clear` and `ata_wait_drq` are one poll,
`Command` and `flush_cache` one command, `read_data`, `write_data` and
`identify_data` one sector. The drives are external: `DriveAnswers` and
`DriveFails` may come at any time or never. A drive that is busy or in the middle of a
transfer ignores registers; a call that wrote them to such a drive is *late*, and its command
then does what the registers hold, which may be any sectors of the disk. A command
written to a busy drive is ignored, one written to a drive that waits for data may end what it
did before.
`sector` is what a read would give (the drive's cache is not apart from the
medium).

Operators listed under "Plausible mistakes" are only there to check the
properties: `PROJECT.json` names, for each property, a mistake that breaks it.

## 3. Runs

| Run | Result | Shows |
|---|---|---|
| `kheap` | holds | sizes of whole headers: walkable, disjoint, data of others untouched, memory lost in one known way only, every `kmalloc` returns |
| `kheap_corrupt` | violated | a remainder smaller than a header overwrites its neighbour (`kmalloc.c:62`) |
| `ipo_names` | holds | unique names, one name per inode, dots follow, failures are clean, FileTree is implemented: protected files stay, a step adds, removes or moves one name |
| `ipo_names_cycle` | violated | `/d` renamed to `/d/f` is cut off (`ipo_api.c:308`) |
| `ipo_names_nonempty` | violated | a directory without dots is deleted with a file in it (`ipo_api.c:230`) |
| `ipo_file` | holds | no shared block, none free while referenced, none lost but in the known ways, a write leaves the file's other blocks where they are, a read finds what was written and ends where it must; with growing directories, stale descriptors, a full disk, empty writes and a block count that wraps |
| `ipo_disk` | holds | with two resets or failed accesses anywhere in a boot, a format or a call: a name leads to an allocated inode, no entry hides another, blocks have one owner and its bytes, and only a delete takes a file away, up to the faults `scars` names (`misread` and `inode` among them) |
| `layout` | holds | parts in order and on the disk, bits in their bitmaps, inodes in their table within the limit below |
| `commands` | holds | buffers and `argv` fit, every `kmalloc` is paired with one `kfree` on every path, arguments are the line's words in their order, the program is the one named, every line runs once, the kernel gets back to the prompt |
| `process` | holds | every block is handed to `kfree` once, under nesting and every error return, but for the argument copies of a setup that fails |
| `ata` | holds | unless its registers went to a drive still at a command an earlier call gave up, a read gives the right sectors and a successful write has stored all but its last; no call is in that situation after one that succeeded; every call returns |
| `terminal` | holds | echo is input, buffers fit, header stays, text survives scrolling and printing |

More behaviours of the code are in the models and stated by no property, because the
properties above are worded around them:

- a block that was freed, reused and freed again stays in use for ever: `kmalloc`
  leaves the freed magic in it (`kmalloc.c:113`) and `kfree` then returns early.
  `LostOnlyIfReused` says memory is lost in no other way;
- `free_inode` never looks at `double_indirect` (`ipo_inode.c:72`), so the blocks behind it
  stay allocated once the inode is reused. So do those a write of no bytes at
  offset 0 allocates beyond the file's size (`ipo_api.c:199` wraps), and all direct blocks of a
  file whose size is so close to 2^32 that the number of its blocks wraps to 0
  (`ipo_inode.c:50`; a write of no bytes at such an offset sets that size);
- `dir_add_entry` returns without `write_inode` when the disk is full after the pointer
  block was allocated (`ipo_dir.c:70`): that block is lost at once. `NoLeak` says that
  blocks are lost in no other way than these;
- a read of a file with a hole ends at the hole (`ipo_api.c:182`): `ReadIsPrefix`
  bounds it, `ReadFindsWritten` is about blocks that were written;
- a format writes the superblock first (`ipo_api.c:52`), so one cut off by a reset or a
  failed write leaves a disk the next boot mounts, without `/app` or even a root;
- a rename cut off between its two directory writes leaves the file with two names
  (`ipo_api.c:318` to 330); deleting one then frees the other's inode;
- renaming a directory writes `entries[1].inode` whatever that entry is
  (`ipo_api.c:326`): in one without dots it redirects its second file;
- a failed `write_inode` is ignored (`ipo_dir.c:85`, `ipo_inode.c:38`): a rename whose new
  name is not counted still removes the old one, and the file is gone;
- `bitmap_get` answers "free" when it cannot read (`ipo_bitmap.c:19`), and an inode or
  block in use is handed out again;
- a lookup that cannot read a directory says "not found" (`ipo_dir.c:10`, `26`). `ipo_fs_create`
  and `ipo_fs_rename` then go on (`ipo_api.c:135`, `298`, `313`), and `dir_add_entry` looks
  again (`ipo_dir.c:64`): when that lookup fails, too, the directory has the name twice, of
  which paths lead to the older entry only (mark `misread`);
- `free_inode` frees whatever is on the stack when it cannot read the indirect block
  (`ipo_inode.c:61`), and `ipo_fs_write` completes a partly written block with whatever is on
  the stack when it cannot read the old one (`ipo_api.c:205`): blocks with two owners, and bytes of other files
  (mark `misread`);
- `ipo_fs_delete` goes by an uninitialised size when its second `read_inode` fails
  (`ipo_api.c:229`): a directory may go with its files, which `NothingLost` counts as below
  the delete's target;
- a boot that cannot read the superblock formats the disk (`kernel32.c:14`);
- the inode table is sized by bytes and filled by whole records (`ipo_api.c:21`,
  `ipo_inode.c:6`): of the 1024 inodes of the kernel's own format, 913 to 1024 lie in data
  blocks. `FoundInItsPart` gives the limit;
- where bitmap and data depend on each other (4252 blocks with 1024 inodes) the loop of
  `ipo_api.c:25` swings between two sizes for its eight rounds and may leave the last
  data block's bit in the inode table;
- `is_descendant` (`ipo_api.c:265`) does not end on a directory without dots whose
  second entry is a directory with dots: each is the other's `entries[1]`. The operator
  in IpoNames stops after as many rounds as there are inodes; `DotsPointUp` is why the
  climb ends among directories with dots;
- a line of `/autorun` longer than 511 characters is executed in pieces (`autorun.c:115`),
  and a command name longer than 127 becomes a name and an argument (`terminal.c:320`);
- an argument that cannot be copied is left out and the program runs without it
  (`terminal.c:348`); "Command not found" is also what a failed allocation of the path says;
- the copies made before an argument copy that fails are lost (`process.c:106`):
  `FreedOnce` excepts the array and these copies, and says that nothing else is forgotten
  or freed twice;
- no path gives back the descriptor a load takes (`process.c:177`; there is no
  close): after `IPO_MAX_FDS` loads no program starts until the next boot;
- drive, sector count and LBA are written before the wait for BSY (`ata.c:178`, `211`). After a
  call that gave up, the drive may still be at its command and ignore them, become ready
  during the wait, and get a command for the sectors the registers held before: the call
  reads or writes these and reports success. `ReadGivesSector` and `EarlierSectorsStored`
  except such calls, and `ReadyAfterSuccess` bounds them: there is none behind a call
  that succeeded and was not late itself;
- the drive is the slave when two were found and the master when one was (`ata.c:177`), also
  if that one is the slave: reads then go to a drive that is not there and fail; no property
  compares two boots;
- the flush command of a write is issued without a look at the status of the last
  sector (`ata.c:241`), so an error there is lost: `EarlierSectorsStored` is about
  the sectors before it;
- a tab printed in the last columns of the last row goes back to the start of that
  row (`putchar.c:39`): `EarlierTextStays` protects the rows before it;
- lines a program scrolls off the screen are in the program's copy of the history
  only: `EarlierTextStays` is about keys and what the kernel prints.

### Bounds

- `kheap`: 28 words, requests of 3 and 6 words: up to four blocks, so splits,
  reuse of a remainder, an exhausted region and a held block on either side of a
  free one all occur. The corrupting run needs 20 words and sizes one word apart.
- `ipo_names`: 5 inodes (root, `/app`, `/autorun`, `/d` and one to create), 3 slots per
  block and 6 per directory: a directory crosses a block boundary, fills up, and
  inodes run out. The nine paths include an invalid name, the root, and paths two
  and three deep. `INODE_COUNT` is 6 in `ipo_names_nonempty`. Only files are
  created in the passing run: directories without dots are the subject of the
  violation.
- `ipo_file`: 3 blocks for files of up to 7, two bytes (one directory entry) per block, 1
  direct pointer and 2 per pointer block: enough for both blocks behind an indirect pointer or
  one behind a double indirect one, so every level of the pointer tree is used, and the
  disk fills at every point of a lookup, in a directory too. `WORD = 16` is more than the
  largest file and keeps both wraps: the write of no bytes at 0 is that of `last_block` (and
  visits every block), the one at 15 that of the block count. Two inodes are enough for one to
  be reused while the other holds blocks, one descriptor for a stale one.
- `ipo_disk`: 6 inodes and 5 blocks (root, `/app`, `/autorun`, a directory and a file in
  it leave one of each), two names, two faults and two calls after the boot, which may
  format. One fault with three calls and three faults with one call were checked, too.
  An inode has one data block and a directory's entries fit it: IpoNames and IpoFile
  have the rest. A directory is not moved below itself; that is `ipo_names_cycle`.
- `layout`: the code's own sizes; `WORD` is 2^30 for 2^32, which TLC's integers
  hold and which is as far from every total. Totals around every boundary where a count
  changes, with 16, 1024, 4096 and 4097 inodes.
- `commands`: every `/autorun` of up to five characters out of a letter, space, tab,
  newline and `#`; every typed line of up to six out of a letter, space, `/` and `.`, every
  one of four words of one character, and every path of four parts out of a letter, `.` and
  `..`, from the root or not. Lines of `/autorun` have room for 3 characters, names for 9,
  arguments for 2, `argv` for three entries and the NULL: a name, two arguments whose order
  counts, and a third that must be left out; paths with two names on the stack before a
  `..`, and names that are cut. `PATH_SIZE` and `MAX_TOKENS` are in
  the proportion of 256 to 128, and neither is reached, as in the code.
- `process`: 4 processes, nesting 3, 3 descriptors (they run out), at most 2
  arguments with callers passing 0, 1 and 3 (the limit applies).
- `ata`: both drives, two sectors, reads and writes of 0, 1 and 2 sectors (the
  file system only asks for 1, the interface allows more), one content to write beside the
  one that is there (the proofs are for any number), two polls
  per wait and one retry for 100000 and 5: each wait can succeed at once, late or
  not at all, and any command may be given up and answered during a later one, before or
  after that one's registers were written.
- `terminal`: 4 columns, a header row and 2 rows, 2 lines of history, 4 input
  characters; tab stops of 2 (typed) and 4 (printed). The input wraps, history
  fills and drops lines, and every cell of the screen is reached. Content is
  finite, so no counter needs a cap. `InputFitsScreen` states that prompt and
  input are shorter than the screen, as 257 is shorter than 23 * 80, `TabFitsLine` that
  a prompt and a typed tab fit a line.

### Fairness

Three runs check liveness. In `kheap` a `kmalloc` call in progress goes on (weak fairness of
its steps): nothing preempts the kernel. In `ata` the driver's own steps are weakly fair and
nothing is assumed of the drives. In `commands` the
kernel's steps are weakly fair; nobody has to type, and a program need not return
(`BackToPrompt` counts a running program as an end). No fairness is assumed of callers.

## 4. Proofs

Eight modules hold proofs that TLAPS checks, for every value of the constants:

| Module | Proves | Of run |
|---|---|---|
| `KHeapProofs` | `TypeOK`, `HeapWalkable`, `PayloadsDisjoint`, `HeldIsStable`, `LostOnlyIfReused`, and `HeldIsInUse` (no run checks it) | `kheap` |
| `IpoNamesProofs` | `TypeOK`, `TreeConsistent`, `DotsPointUp`, `FailureIsClean`, the refinement `RefinesTree`, and `OnlyEmptyDeleted` | `ipo_names` |
| `IpoFileProofs` | `TypeOK`, `BlocksOwned`, `NoLeak`, `ReadFindsWritten`, `ReadIsPrefix` | `ipo_file` |
| `IpoDiskProofs` | `TypeOK`, `NamesSound`, `BlocksApart`, `ProtectedPresent`, `NothingLost` | `ipo_disk` |
| `ProcessProofs` | `TypeOK`, `FreedOnce`, and `CallsNest` (no run checks it) | `process` |
| `AtaProofs` | `TypeOK`, `ReadGivesSector`, `EarlierSectorsStored`, `ReadyAfterSuccess` | `ata` |
| `IpoLayoutProofs` | `PartsFit`, `FoundInItsPart` | `layout` |
| `TerminalProofs` | `TypeOK`, `BuffersFit`, `EchoIsInput`, `EarlierTextStays` | `terminal` |

Each has a theorem `Inductive` (`Spec => []IInv`, under the hypotheses named below, if any)
with one lemma per action, and its other theorems follow from it. None of the properties is inductive by itself.

**KHeapProofs.** For every heap size, every set of request sizes and every behaviour in which
no split leaves less than a header: `Spec /\ []Roomy => []IInv`. `IInv` adds the tiling
of `[0, heap_used)`: every header has at least its own size and a good magic and ends where
the next block or the region ends, blocks do not overlap, the scan pointer stands on a block or
at the end, and two holders never have the same block. One lemma per action that
writes memory (`ReuseIInv`, `ExtendIInv`, `KfreeIInv`, `UseIInv`) rests
on one about the memory after it (`ReuseMemory`, `ExtendMemory`,
`KfreeMemory`); `QuietIInv` is the rest. `Roomy` is used in `ReuseMemory` only: it says of the
block about to be split what the code does not look at, and `kheap_corrupt` shows what a
split does where it is false. The code's callers ask for string lengths and
file sizes, so nothing in it keeps `Roomy`; the theorems say that the rest of the allocator
is sound, and that a `split_block` that keeps remainders shorter than a header with the
block is all that is missing. `GranularIsRoomy` covers the sizes of run `kheap`: of callers that ask
for multiples of the header's size, every block's size is one too (`WholeSizes`), and so is
what a split leaves.

**IpoNamesProofs.** For every number of inodes, directory size, set of names and of
paths, if callers of `ipo_fs_create` only make files (`FilesOnly`), as the one in
the repository does (`ipo_api.c:248`); `ipo_names_nonempty` shows a directory made that way
being deleted with a file in it. A *link* is an entry that counts, behind
the dots. `IInv` says that every directory has its dots in slots 0 and 1 and nothing
behind its size (`Shaped`), links lead to allocated inodes of their type whose ".." leads
back (`LinksLead`), no two links of a directory have the same name (`NamesDiffer`) and no
two links at all the same inode (`LinksDiffer`), every allocated inode but the root has a
link (`AllLinked`), and root, `app` and `autorun` are there (`Kept`). It does not say that the links form
a tree: they do not (`ipo_names_cycle`), and the rest holds even so. The walk of
`path_resolve` is a recursive function; `Walk` shows that it stays in any set a single step
stays in, by an induction over sets of numbers (`SetInduction`) that needs no operator
parameter. `NextOutcome` reduces each call to what it writes (`Creates`, `Clears`,
`Deletes`, `Renames`), three lemmas give the links after it, and `StepEdges` what that
means for the edges of FileTree, from which the action properties and `Refines` follow.

**IpoFileProofs.** For every number of blocks, inodes and pointers and every set of
requests. The pointers of a file are the values of its *places*: the slots of the inode, of
its indirect block, of its double indirect block and of the blocks that one points to.
`Good` says that a value is an allocated block and no other place's value, that every
allocated block is lost or the value of a place, and not both. `Grown` is what allocation
does: free blocks are put at empty places and nothing else changes. It is transitive
(`GrownTrans`), each slot operator is one such step (`PutDirect`, `PutIndirect`,
`PutDouble`, `PutSlot`), so a whole `get_data_block_for_inode` is one too, also when it
gives up half way (`GetBlock`). In `dir_add_entry` the inode on the disk stays as it was when the lookup gives up. Then either
the copy stayed the same, too, and what was allocated hangs below a pointer block of the
file, or nothing was put into the blocks there were before (`FailedLookUp`), so that the new ones
are lost and no file looks into them (`GoodLost`). The subtle case is a pointer block: a new one is
cleared, so the places below it stay empty, and as its block belongs to one place only,
setting one of its slots changes one place only. `free_inode` and `allocate_inode` take
places away (`GoodDropped`), together with exactly the blocks they free or lose
(`FreeDrops`), whatever the block count wraps to. `Calls` keeps the offset of a write in its block and so below
`WORD`; `FileSizeAssumption` (the largest file is smaller than a word can count) is what
this needs, and 8 MB against 4 GB is what the code has.

`ReadIsPrefix` needs of the state only that sizes are words. The loop of `ipo_fs_read` is a
recursive function of the block number; `CopiedTo` is its closed form, which satisfies the
recursion (`CopiesBlock`) and is the only function that does, as the least block where
another one differed would have to differ from its own predecessor (`CopiedIs`). `CutOff` relates it to the ends the
property names. The hypothesis `NoWrap` says that the end of a request is a word: beyond
that the code compares the wrapped sum with the file's size (`ipo_api.c:175`) and the property is
false. Its callers read from offset 0 or up to the file's size (`autorun.c:74`,
`process.c:194`).

**IpoDiskProofs.** For every number of inodes, blocks, entries and names, any number of calls, and
any number of resets and failing reads and writes, at any moment. Most of what is on a disk
after a cut-off call is not in order, so the invariant does not speak of the disk but of a set
G of *good* inodes: it holds the root and is closed under the names of its directories
(`Linking`), no directory in it has a name twice (`Distinct`), its inodes are allocated, and
their blocks are allocated, no other's in G and free of foreign bytes (`Apart`). What a path leads to is in G; an inode
a create had allocated when the power went, or one a delete had
taken the name of, is outside, and so is its block. `IInv` is the types and, as long as
`scars` names no fault but a wiped disk, `Shape`: the disk is not mounted and about to be
booted (`Booted`), in the middle of a format (`Formats`), or in use (`Works`) with the call in
progress at one of the writes `Creating`, `Deleting`, `Renaming`, `Storing` and
`Cleaning` list. Each lists, for what is left of the call, what it relies on: `Adding` that the block
a directory will take is nobody's in G and (`Fresh`) that the name is not in it, which after
a failed lookup of the caller's only the one in `dir_add_entry` has established, `Moving` that the directory a rename moves is not above
its target, `Doubled` that only the old and the new name lead to the same inode. For each write
there are three facts: it succeeds and the call is at its next write, it
fails and the call goes on as its `err` says, or the call is cut off and G holds
for the next boot. G is not part of the state: it grows when a name
is entered and shrinks when the last one is removed, and the lemmas name the new one. `Below`, which the
model computes round by round, is shown to be the least closed set (`BelowDisk`), so that
`NothingLost` is about reachability and not about rounds.
`IInv` was checked with TLC on the bounds of `ipo_disk` before it was proved.

**ProcessProofs.** For every limit on descriptors, arguments and nesting. `IInv` says that
pids fall from the innermost frame outwards and are below the next one (`Ordered`), the
process list is the frames' pids (`Listed`), all but the innermost frame are in their
programs (`Suspended`), each of these saved the pid of the frame behind it as the current
process (`Saved`), a frame's stage determines what its process records (`Staged`), the
blocks not yet handed to `kfree` are what cleaning a frame up would hand over and nothing else
of that frame but the image it is about to place (`Owned`), a program that ran owns nothing
(`Gone`), and of a call that is over only argument copies are left (`Cleaned`). Pids in
order are what makes the list's removal by search a removal of its head.

**AtaProofs.** For every number of sectors, polls and retries and every choice of drives.
Driver and drive each have their own idea of how far a transfer is; `InStep` relates
the two at every point of the driver's loops for a call that is `OnTime` (its registers met a drive
at no command), and says of every other call, whose command may be for any sectors, only
that drives and loop counters stay sound and that data is moved when the drive asks for it.
That a call which succeeded leaves the drive at no command is what makes the next one `OnTime`
(`ReadyHolds`). `Written` says which sectors of a write are stored and `Read` what is in the
caller's buffer. `Shape` is which locals a call has at which point.

**IpoLayoutProofs.** For every disk of less than half a word of blocks, every inode count
whose table a word can measure and every block size. `DataBlocks` shows that the difference `data_blocks()` wraps never falls below
half a word, however small the disk, so the code's test of its sign as an `int32_t` is
right. The loop is a contraction (`Contraction`): a round divides the surplus of the bitmap,
what it has more than the remaining blocks need, by the bits in a block and turns its sign,
up to the rounding. After three rounds at most one bit is missing, which is what
`FoundInItsPart` allows for when the loop swings. `RoundsAssumption` (three rounds, and a
word divided twice by the bits in a block is at most one block's bits) is met by the code's
8 rounds, 4096 bits and 2^32; `EditorAssumption` by the editor's 100 blocks and 256 inodes.

**TerminalProofs.** For every screen, history and input size. Everything is said of the
*document*: the lines above, on and below the screen as one sequence. The scroll
functions leave it alone (`Forward`, `Back`, `Return`), and `putchar()` changes the cell at
the cursor and, when it scrolls with a full history, drops the first line (`FinePut`). `Typed`
says that a line begins a row of the screen, ends at the cursor and has nothing
behind it; `Echo` is the same of the document, so that it survives a look at history
(`EchoMoved`, `TypedEcho`, `EchoTyped`). `IInv` distinguishes the console's three
situations: a key is awaited behind the prompt (`Ready`), before it (`Fresh`), or something
runs (`Busy`: nothing below the cursor's row, so the newline at its end starts an empty
line). `Kept` composes (`KeptTwice`), and as a prompt starts a row and fits it, no
key scrolls twice (`Prompt`, `Progress`): that is why one line at most is given up by a key or by
what the kernel prints (`Step`, `TextStays`). The recursive functions
of `Printed` and `return_to_present` exist by `Recursion`, and what they yield is shown by
induction over a set of numbers (`UpTo`). The assumptions: prompt and input are
shorter than the screen, a prompt and a typed tab shorter than a line (6 of 80), and what
is printed is a printable character, a newline, a return or a tab.

**Assumptions.** Those of the modules (`ASSUME`, evaluated by TLC in the runs) and
the hypotheses in the statements: `[]Roomy` or `Granular` in KHeapProofs, `FilesOnly` in
IpoNamesProofs, `NoWrap` in IpoFileProofs. The others have none.

Model-checked only:

- liveness (`KmallocReturns`, and those of `ata` and `commands`): the prover does not
  do fairness;
- Commands. `ArgsAreWords`, `RunsWhatIsNamed` and `EveryLineOnce` compare loops over the
  characters of a line with a reference definition of lines and words for every text, an
  induction over data; with `IpoPath` it also uses folds of sequences, whose values for
  every input need the same. `HeapBalanced` could be proved and is not.

## 5. Not modelled

- The keyboard: a poll of one port, four flags and a table. Terminal takes any key at any
  time, which covers whatever the flags may be.
- The bytes in data blocks: IpoFile knows which block holds which part of a file and IpoDisk
  whose bytes a block holds. `ipo_fs_write_text` is a create, an open and a write in a row.
- The disk editor but for its layout and the directories it makes: it runs on the host,
  never together with the kernel.
- A program's memory: that an image carries no .bss (`process.c:329`), and the read of
  `proc->pid` after the free (`process.c:402`), which is right as long as `kfree` leaves
  the memory alone.
- Formatting, serial log, sound, timer and boot have no state the rest depends on.

## 6. Plan

Done: KHeap, IpoNames with FileTree, IpoFile, IpoDisk, Process, Ata, IpoLayout and Terminal with
their proofs, IpoPath and Commands.

1. A proof of `HeapBalanced` of Commands.
2. The promise of Ata (a sector store whose calls may fail) as an abstract
   specification that IpoDisk's block access uses.
3. Process on top of KHeap, with the program's memory, and an allocator that keeps `Roomy`
   by itself, should `split_block` be changed to.
