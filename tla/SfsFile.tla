------------------------------ MODULE SfsFile ------------------------------
(***************************************************************************)
(* Files of the Simple File System, lab8/kern/fs/sfs/sfs_inode.c: block    *)
(* map, size and free map, under the file operations of fs/file.c.         *)
(*                                                                         *)
(* An operation runs to its end without a switch, since nobody sleeps      *)
(* while it holds the semaphore of an inode and the disk is in memory.     *)
(* What may fail is the allocation of a block (the shipped image has 117). *)
(* Access modes are left out: a read-only descriptor may truncate as well, *)
(* with O_CREAT or by a seek.                                              *)
(* sfs holds the state of the file system; the operators below go from one *)
(* such record to the next and stop at the first error or panic.           *)
(***************************************************************************)
EXTENDS Integers, Sequences, FiniteSets, SequencesExt

CONSTANTS
  Files,     \* the files on the disk
  Fds,       \* open files of all processes (struct file)
  NONE,      \* the file of a descriptor that is not open
  NBlocks,   \* blocks for data and indirect blocks
  NDirect,   \* SFS_NDIRECT
  NEntries,  \* SFS_BLK_NENTRY
  BlkSize,   \* SFS_BLKSIZE, and IOBUF_SIZE, the most file_write() is given
  MaxLen     \* bound of the model: no file grows beyond it

ASSUME SfsFileAssumption ==
  /\ {NBlocks, NDirect, NEntries, BlkSize} \subseteq Nat \ {0}
  /\ MaxLen \in 0 .. (NDirect + NEntries) * BlkSize
  /\ NONE \notin Files

VARIABLES
  sfs,  \* free: free blocks; din: inodes in memory; table: indirect blocks; dirty;
        \* disk: inodes on the disk; failed: an operation returns an error; panic;
        \* refused: the disk has run full at least once (remembered for the properties)
  fds   \* file and position of each descriptor

vars == <<sfs, fds>>

Block    == 1 .. NBlocks   \* 0 is no block
Entries  == 0 .. NEntries - 1
NoEntry  == [i \in Entries |-> 0]
NewInode == [size |-> 0, blocks |-> 0, direct |-> [i \in 0 .. NDirect - 1 |-> 0], indirect |-> 0]

\* How many blocks len bytes need.
BlocksFor(len) == (len + BlkSize - 1) \div BlkSize

Fail(s)  == [s EXCEPT !.failed = TRUE]
Panic(s) == [s EXCEPT !.failed = TRUE, !.panic = TRUE]

Init ==
  /\ sfs = [free |-> Block, din |-> [f \in Files |-> NewInode],
            table |-> [b \in Block |-> NoEntry], dirty |-> [f \in Files |-> FALSE],
            disk |-> [f \in Files |-> NewInode], failed |-> FALSE, panic |-> FALSE,
            refused |-> FALSE]
  /\ fds = [d \in Fds |-> [file |-> NONE, pos |-> 0]]

-----------------------------------------------------------------------------
\* sfs_block_alloc(): the lowest free block, cleared; ino is 0 if there is none.
AllocBlock(s) ==
  IF s.free = {} THEN [s |-> [Fail(s) EXCEPT !.refused = TRUE], ino |-> 0]
  ELSE LET b == CHOOSE x \in s.free : \A y \in s.free : x <= y
       IN  [s |-> [s EXCEPT !.free = @ \ {b}, !.table[b] = NoEntry], ino |-> b]

\* sfs_block_free().
FreeBlock(s, b) ==
  IF b \in s.free THEN Panic(s) ELSE [s EXCEPT !.free = @ \cup {b}]

\* Fault: the indirect block is kept when there is no block for the entry.
AllocSubLeak(s, ent, i) ==
  LET Link(e, a) ==
        IF e.ino = 0 \/ a.ino = 0 THEN [s |-> Fail(a.s), ent |-> ent, ino |-> 0]
        ELSE [s |-> [a.s EXCEPT !.table[e.ino][i] = a.ino], ent |-> e.ino, ino |-> a.ino]
      Under(e) == Link(e, IF e.ino = 0 THEN e ELSE AllocBlock(e.s))
  IN  Under(IF ent = 0 THEN AllocBlock(s) ELSE [s |-> s, ino |-> ent])

\* sfs_bmap_get_sub_nolock() for a missing entry: allocates the indirect block
\* too if there is none, and gives it back when there is no second block.
AllocSub(s, ent, i) ==
  LET Link(e, a) ==
        IF e.ino = 0 \/ a.ino = 0
        THEN [s |-> [Fail(s) EXCEPT !.refused = TRUE], ent |-> ent, ino |-> 0]
        ELSE [s |-> [a.s EXCEPT !.table[e.ino][i] = a.ino], ent |-> e.ino, ino |-> a.ino]
      Under(e) == Link(e, IF e.ino = 0 THEN e ELSE AllocBlock(e.s))
  IN  Under(IF ent = 0 THEN AllocBlock(s) ELSE [s |-> s, ino |-> ent])

\* The block at index i of f, 0 if there is none.
Mapped(s, f, i) ==
  LET d == s.din[f]
  IN  IF i < NDirect THEN d.direct[i]
      ELSE IF d.indirect = 0 THEN 0 ELSE s.table[d.indirect][i - NDirect]

\* sfs_bmap_get_nolock() with create for an index without block.  The inode
\* becomes dirty, unless only an existing indirect block changes.
Extend(s, f, i) ==
  LET ent == s.din[f].indirect
      Direct(a) ==
        IF a.ino = 0 THEN a ELSE [a EXCEPT !.s.din[f].direct[i] = a.ino, !.s.dirty[f] = TRUE]
      Indirect(a) ==
        [s   |-> [a.s EXCEPT !.din[f].indirect = a.ent, !.dirty[f] = @ \/ a.ent # ent],
         ino |-> a.ino]
  IN  IF i < NDirect THEN Direct(AllocBlock(s)) ELSE Indirect(AllocSub(s, ent, i - NDirect))

\* sfs_bmap_load_nolock(): finds the block, or appends one if i is blocks; its
\* assertions are index <= blocks and that the block found is in use.
Load(s, f, i) ==
  LET found == Mapped(s, f, i)
      Loaded(r) ==
        IF r.s.failed THEN r.s
        ELSE IF r.ino = 0 \/ r.ino \in r.s.free THEN Panic(r.s)
        ELSE IF i = s.din[f].blocks THEN [r.s EXCEPT !.din[f].blocks = @ + 1]
        ELSE r.s
  IN  IF i > s.din[f].blocks THEN Panic(s)
      ELSE Loaded(IF found # 0 \/ i < s.din[f].blocks THEN [s |-> s, ino |-> found]
                  ELSE Extend(s, f, i))

\* Fault: the block is freed but stays in the map.
DropLastKept(s, f) ==
  LET i == s.din[f].blocks - 1
  IN  [FreeBlock(s, Mapped(s, f, i)) EXCEPT !.din[f].blocks = i, !.dirty[f] = TRUE]

\* sfs_bmap_truncate_nolock(): gives up the last block.  An indirect block that
\* has become empty stays.
DropLast(s, f) ==
  LET d    == s.din[f]
      i    == d.blocks - 1
      b    == Mapped(s, f, i)
      gone == IF b = 0 THEN s ELSE FreeBlock(s, b)
  IN  IF i < NDirect
      THEN [gone EXCEPT !.din[f] = [d EXCEPT !.direct[i] = 0, !.blocks = i], !.dirty[f] = TRUE]
      ELSE [gone EXCEPT !.table = IF b = 0 THEN @ ELSE [@ EXCEPT ![d.indirect][i - NDirect] = 0],
                        !.din[f].blocks = i, !.dirty[f] = TRUE]

\* Op, n times, up to the first failure.
Repeat(Op(_), n, s) ==
  LET at[k \in 0 .. n] == IF k = 0 THEN s ELSE IF at[k - 1].failed THEN at[k - 1] ELSE Op(at[k - 1])
  IN  at[n]

-----------------------------------------------------------------------------
\* Fault: only the size changes.
TruncateSize(s, f, len) == [s EXCEPT !.din[f].size = len, !.dirty[f] = TRUE]

\* sfs_truncfile().
Truncate(s, f, len) ==
  LET d       == s.din[f]
      t       == BlocksFor(len)
      Add(x)  == Load(x, f, x.din[f].blocks)
      Cut(x)  == DropLast(x, f)
      Done(r) == IF r.failed THEN r ELSE [r EXCEPT !.din[f].size = len, !.dirty[f] = TRUE]
  IN  IF d.size = len THEN IF t = d.blocks THEN s ELSE Panic(s)
      ELSE Done(IF d.blocks < t THEN Repeat(Add, t - d.blocks, s)
                ELSE Repeat(Cut, d.blocks - t, s))

\* The pieces in which sfs_io_nolock() covers the bytes from off to end: up to
\* a block boundary, whole blocks, and the rest.
Pieces(off, end) ==
  LET head  == off % BlkSize
      tail  == end % BlkSize
      first == off \div BlkSize
      k     == end \div BlkSize - first   \* nblks
      skip  == IF head = 0 THEN 0 ELSE 1
      If(c, piece) == IF c THEN <<piece>> ELSE << >>
  IN  If(head # 0, [blk |-> first, len |-> IF k = 0 THEN end - off ELSE BlkSize - head])
      \o If(k > skip, [blk |-> first + skip, len |-> (k - skip) * BlkSize])
      \o If(tail # 0 /\ (head = 0 \/ k # 0), [blk |-> first + k, len |-> tail])

\* sfs_io_nolock(): alen is what has been transferred before the first error.
\* The size follows offset + alen in any case.
Io(s, f, off, len, write) ==
  LET size    == s.din[f].size
      nothing == ~write /\ off >= size
      end     == IF write \/ off + len < size THEN off + len ELSE size
      Count(r, x, piece) ==
        [s |-> x, alen |-> IF x.failed THEN r.alen ELSE r.alen + piece.len]
      Move(r, piece) == IF r.s.failed THEN r ELSE Count(r, Load(r.s, f, piece.blk), piece)
      Done(r) ==
        IF nothing \/ r.s.panic \/ off + r.alen <= r.s.din[f].size THEN r
        ELSE [r EXCEPT !.s.din[f].size = off + r.alen, !.s.dirty[f] = TRUE]
  IN  Done(FoldLeft(Move, [s |-> s, alen |-> 0],
                    IF nothing THEN << >> ELSE Pieces(off, end)))

\* Fault: the inode is clean although it has not been written.
SyncNot(s, f) == [s EXCEPT !.dirty[f] = FALSE]

\* sfs_fsync().
Sync(s, f) ==
  IF s.dirty[f] THEN [s EXCEPT !.disk[f] = s.din[f], !.dirty[f] = FALSE] ELSE s

-----------------------------------------------------------------------------
Stored(s) == sfs' = [s EXCEPT !.failed = FALSE]

\* file_open() and vfs_open(); O_CREAT truncates like O_TRUNC, O_APPEND begins
\* at the end.
Open(d, f, trunc, append) ==
  LET Opened(s) ==
        /\ Stored(s)
        /\ fds' = IF s.failed THEN fds
                  ELSE [fds EXCEPT ![d].file = f, ![d].pos = IF append THEN s.din[f].size ELSE 0]
  IN  fds[d].file = NONE /\ Opened(IF trunc THEN Truncate(sfs, f, 0) ELSE sfs)

\* file_close(); the last close of an inode writes it to the disk.
Close(d) ==
  LET f == fds[d].file
  IN  /\ f # NONE
      /\ Stored(IF \E e \in Fds \ {d} : fds[e].file = f THEN sfs ELSE Sync(sfs, f))
      /\ fds' = [fds EXCEPT ![d] = [file |-> NONE, pos |-> 0]]

\* file_read() and file_write().
Transfer(d, len, write) ==
  LET Moved(r) == Stored(r.s) /\ fds' = [fds EXCEPT ![d].pos = @ + r.alen]
  IN  /\ fds[d].file # NONE
      /\ fds[d].pos + len <= MaxLen
      /\ Moved(Io(sfs, fds[d].file, fds[d].pos, len, write))

\* file_seek() and sfs_tryseek(): a position beyond the end makes the file grow.
Seek(d, pos) ==
  LET f == fds[d].file
      Sought(s) == Stored(s) /\ fds' = IF s.failed THEN fds ELSE [fds EXCEPT ![d].pos = pos]
  IN  f # NONE /\ Sought(IF pos > sfs.din[f].size THEN Truncate(sfs, f, pos) ELSE sfs)

\* file_fsync().
Fsync(d) ==
  /\ fds[d].file # NONE
  /\ Stored(Sync(sfs, fds[d].file))
  /\ UNCHANGED fds

Halted == sfs.panic /\ UNCHANGED vars

Step(d) ==
  \/ \E f \in Files, trunc, append \in BOOLEAN : Open(d, f, trunc, append)
  \/ \E len \in 1 .. BlkSize, write \in BOOLEAN : Transfer(d, len, write)
  \/ \E pos \in 0 .. MaxLen : Seek(d, pos)
  \/ Fsync(d)
  \/ Close(d)

Next == Halted \/ (~sfs.panic /\ \E d \in Fds : Step(d))

Spec == Init /\ [][Next]_vars

-----------------------------------------------------------------------------
\* The places that name block b: direct and indirect pointers and entries.
Owners(b) ==
  {o \in Files \X {"direct", "indirect", "entry"} \X (0 .. NDirect + NEntries) :
     LET d == sfs.din[o[1]]
     IN  CASE o[2] = "direct"   -> o[3] < NDirect /\ d.direct[o[3]] = b
           [] o[2] = "indirect" -> o[3] = 0 /\ d.indirect = b
           [] o[2] = "entry"    -> /\ o[3] \in Entries /\ d.indirect # 0
                                   /\ sfs.table[d.indirect][o[3]] = b}

\* A block is in use exactly if one file has it, and has it in one place; this
\* survives failures half-way (sfs_inode.c, sfs_bmap_get_sub_nolock and others).
FreemapExact == \A b \in Block : Cardinality(Owners(b)) = (IF b \in sfs.free THEN 0 ELSE 1)

\* The first blocks indices have a block and no others do, as the comment at
\* sfs_inode.c:543 says: no holes.  Unless the disk has run full, blocks is also
\* what size needs, as sfs_truncfile() asserts ("assert(tblks == din->blocks)",
\* sfs_inode.c:1133).
MapExact ==
  \A f \in Files :
    /\ \A i \in 0 .. NDirect + NEntries - 1 : Mapped(sfs, f, i) # 0 <=> i < sfs.din[f].blocks
    /\ ~sfs.refused => sfs.din[f].blocks = BlocksFor(sfs.din[f].size)

\* As long as the disk has not run full, no assertion fails, among them index <=
\* blocks of sfs_bmap_load_nolock() (sfs_inode.c:413), which says what indices its
\* callers may pass.
NeverPanics == sfs.panic => sfs.refused

\* As long as the disk has not run full, an inode that differs from the one on the
\* disk is dirty, which the comment at sfs_inode.c:416 demands of every change, so
\* that it gets written back.
DirtyIfChanged ==
  ~sfs.refused => \A f \in Files : ~sfs.dirty[f] => sfs.disk[f] = sfs.din[f]
=============================================================================
