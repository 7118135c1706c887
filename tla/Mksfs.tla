------------------------------- MODULE Mksfs -------------------------------
(***************************************************************************)
(* lab8/tools/mksfs.c: the image of a directory tree, built depth first by *)
(* open_dir(), add_dir(), add_file() and add_link() out of blocks handed   *)
(* out in order.  The tree is chosen while it is read.                     *)
(***************************************************************************)
EXTENDS Names, TLC

CONSTANTS
  NB,         \* ninos, the blocks of the image
  BlkBits,    \* SFS_BLKBITS, the bits of a block of the free map
  ND, NE,     \* SFS_NDIRECT, SFS_BLK_NENTRY
  MaxBlocks,  \* SFS_LN_NBLKS, the blocks of the longest file
  PB,         \* SFS_BLKSIZE
  EntryBytes, \* sizeof(entry->name), by which an entry lets its directory grow
  FileSizes, FileNames, Reals   \* the sizes, names and host inodes of the tree

VARIABLES
  fs,      \* [next, unused, nodes, index, entries, pieces, full]
  open,    \* the directories being read, as positions in fs.nodes
  phase

vars == <<fs, open, phase>>

Root == 1   \* SFS_BLKN_ROOT
FirstFree == 2 + (NB + BlkBits - 1) \div BlkBits

ConstantsOK ==
  /\ {NB, BlkBits, ND, NE, MaxBlocks, PB, EntryBytes} \subseteq Nat \ {0}
  /\ FirstFree < NB /\ MaxBlocks <= ND + NE + NE * NE
  /\ FileSizes \subseteq Nat /\ FileNames \subseteq Nat \ {0} /\ Reals \subseteq Nat \ {0}

NewNode(ino, type, real) ==
  [ino |-> ino, type |-> type, real |-> real, nlinks |-> 0, size |-> 0, blocks |-> 0,
   direct |-> [k \in 0 .. ND - 1 |-> 0], indirect |-> 0, db |-> 0]

-----------------------------------------------------------------------------
\* sfs_alloc_ino(): the block is s.next; out of disk space ends the program.
AllocIno(s) ==
  IF s.next < NB THEN [s EXCEPT !.next = @ + 1, !.unused = @ - 1] ELSE [s EXCEPT !.full = TRUE]

\* alloc_cache_block() for a block of indices.
AllocIndex(s) ==
  [AllocIno(s) EXCEPT !.index = @ @@ (s.next :> [k \in 0 .. NE - 1 |-> 0])]

\* Fault: the double indirect block starts again with each block it names.
InnerAgain(s, i, k) ==
  LET alone == [j \in 0 .. NE - 1 |-> IF j = k THEN s.next ELSE 0]
  IN  IF s.index[s.nodes[i].db][k] # 0 THEN s
      ELSE [AllocIndex(s) EXCEPT !.index[s.nodes[i].db] = alone]

\* update_cache() for entry k of the double indirect block of node i.
Inner(s, i, k) ==
  IF s.index[s.nodes[i].db][k] # 0 THEN s
  ELSE [AllocIndex(s) EXCEPT !.index[s.nodes[i].db][k] = s.next]

\* The entry of the indirect block for block n of a file.
IndirectSlot(n) == n - ND

\* The node with a block of indices, and one with a block of such blocks.
WithIndirect(s, i) ==
  IF s.nodes[i].indirect # 0 THEN s
  ELSE [AllocIndex(s) EXCEPT !.nodes[i].indirect = s.next]

WithDouble(s, i) ==
  IF s.nodes[i].db # 0 THEN s ELSE [AllocIndex(s) EXCEPT !.nodes[i].db = s.next]

\* Block b behind the n blocks of node i: direct, indirect or double indirect.
Placed(s, i, n, b) ==
  LET m == n - ND - NE
  IN  IF n < ND THEN [s EXCEPT !.nodes[i].direct[n] = b]
      ELSE IF n < ND + NE
        THEN LET t == WithIndirect(s, i)
             IN  [t EXCEPT !.index[t.nodes[i].indirect][IndirectSlot(n)] = b]
        ELSE LET t == Inner(WithDouble(s, i), i, m \div NE)
             IN  [t EXCEPT !.index[t.index[t.nodes[i].db][m \div NE]][m % NE] = b]

\* append_block(): block b becomes the next one of node i.
AppendBlock(s, i, bytes, b) ==
  IF s.full \/ s.nodes[i].blocks >= MaxBlocks THEN [s EXCEPT !.full = TRUE]
  ELSE [Placed(s, i, s.nodes[i].blocks, b) EXCEPT
          !.nodes[i].blocks = @ + 1, !.nodes[i].size = @ + bytes]

\* The entry of node i in a block of its own, the next one of directory dir.
WriteEntry(s, dir, i, name) ==
  AppendBlock([AllocIno(s) EXCEPT
                 !.entries = @ @@ (s.next :> [ino |-> s.nodes[i].ino, name |-> name])],
              dir, EntryBytes, s.next)

\* add_entry(): node i appears under the name in directory dir.
AddEntry(s, dir, i, name) == [WriteEntry(s, dir, i, name) EXCEPT !.nodes[i].nlinks = @ + 1]

\* alloc_cache_inode(); the node is the last.
AddNode(s, type, real) ==
  [AllocIno(s) EXCEPT !.nodes = Append(@, NewNode(s.next, type, real))]

\* open_file(): size bytes in pieces of a block, and open_link(): one piece.
Fill(s, i, size) ==
  LET piece(t, k) ==
        AppendBlock([AllocIno(t) EXCEPT !.pieces = @ @@ (t.next :> <<i, k>>)], i,
                    Min({PB, size - k * PB}), t.next)
  IN  FoldLeft(piece, s, [k \in 1 .. (size + PB - 1) \div PB |-> k - 1])

-----------------------------------------------------------------------------
\* open_dir() begins with the entries of the directory itself and of its parent.
OpenDir(s, i, parent) == AddEntry(AddEntry(s, i, i, Dot), i, parent, DotDot)

Current == open[Len(open)]
Newest(s) == Len(s.nodes)

\* What is read of a directory: its node, its name, and the names met so far.
Reading(i, name) == [node |-> i, name |-> name, met |-> {}]

\* The stack when the directory being read has yielded the name.
Met(name) == [open EXCEPT ![Len(open)].met = @ \union {name}]

\* create_sfs(), and open_dir() of the home directory.
Init ==
  /\ fs = OpenDir([next |-> FirstFree, unused |-> NB - FirstFree,
                   nodes |-> <<NewNode(Root, "dir", 0)>>, index |-> <<>>, entries |-> <<>>,
                   pieces |-> <<>>, full |-> FALSE], 1, 1)
  /\ open = <<Reading(1, Dot)>> /\ phase = "reading"

\* A call has led to s; out of disk space and a file too big end the program, and
\* close_sfs() with it.
Becomes(s, stack) ==
  IF s.full THEN phase' = "failed" /\ UNCHANGED <<fs, open>>
  ELSE fs' = s /\ open' = stack /\ UNCHANGED phase

NewName(name) == phase = "reading" /\ name \in FileNames \ Current.met

\* add_dir() up to and into the open_dir() of the directory.
AddDir(name) ==
  /\ NewName(name)
  /\ \E s \in {AddNode(fs, "dir", 0)} :
       Becomes(OpenDir(s, Newest(s), Current.node), Append(Met(name), Reading(Newest(s), name)))

\* add_file(); a host inode that was met before is linked, not copied.
AddFile(name, real, size) ==
  /\ NewName(name)
  /\ \E known \in {{i \in DOMAIN fs.nodes : fs.nodes[i].type = "file" /\ fs.nodes[i].real = real}} :
       \E s \in {IF known # {} THEN fs ELSE Fill(AddNode(fs, "file", real), Newest(fs) + 1, size)} :
         Becomes(AddEntry(s, Current.node, IF known # {} THEN Min(known) ELSE Newest(s), name),
                 Met(name))

\* add_link(): the text of a symbolic link, shorter than a block.
AddLink(name) ==
  /\ NewName(name)
  /\ \E s \in {Fill(AddNode(fs, "link", 0), Newest(fs) + 1, 1)} :
       Becomes(AddEntry(s, Current.node, Newest(s), name), Met(name))

\* The directory is read: add_dir() enters it in its parent, create_img() ends.
CloseDir ==
  /\ phase = "reading"
  /\ IF Len(open) = 1 THEN phase' = "closed" /\ UNCHANGED <<fs, open>>
     ELSE Becomes(AddEntry(fs, open[Len(open) - 1].node, Current.node, Current.name),
                  SubSeq(open, 1, Len(open) - 1))

Next ==
  \/ \E name \in FileNames : AddDir(name) \/ AddLink(name)
  \/ \E name \in FileNames, real \in Reals, size \in FileSizes : AddFile(name, real, size)
  \/ CloseDir

-----------------------------------------------------------------------------
\* close_sfs(): the bits it sets in the block of the free map that begins at bit
\* first, and those of the whole image.
FreeFrom(first) ==
  LET start == IF first < fs.next THEN fs.next - first ELSE 0
      end   == IF first + BlkBits > NB THEN NB - first ELSE BlkBits
  IN  IF first + BlkBits > fs.next THEN {first + j : j \in start .. end - 1} ELSE {}

FreeBits == UNION {FreeFrom(k * BlkBits) : k \in 0 .. (NB - 1) \div BlkBits}

\* sfs_bmap_get_nolock() of the kernel: block n of a node, 0 if it is out of range.
Bmap(node, n) ==
  CASE n < ND -> node.direct[n]
    [] ND <= n /\ n < ND + NE -> fs.index[node.indirect][n - ND]
    [] OTHER -> 0

Readable(node) == node.blocks <= ND + NE

Blocks(node) ==
  {node.ino} \union {node.direct[n] : n \in 0 .. Min({node.blocks, ND}) - 1}
    \union UNION {{x} \union {fs.index[x][k] : k \in 0 .. NE - 1}
                    : x \in {node.indirect, node.db} \ {0}}
    \union (IF node.db = 0 THEN {}
            ELSE UNION {{fs.index[x][k] : k \in 0 .. NE - 1}
                          : x \in {fs.index[node.db][k] : k \in 0 .. NE - 1} \ {0}})

\* The finished image is one that the kernel mounts and reads: the super block
\* counts the free bits, as sfs_do_mount() asserts; every block in use belongs to
\* the super block, the free map or one node; the blocks of a node that the kernel
\* reaches hold its entries or the pieces of the file in order; and the links of a
\* node are the entries that name it (mksfs.c, close_sfs, append_block, add_entry).
ImageExact ==
  phase = "closed" =>
    LET Own(i)  == Blocks(fs.nodes[i]) \ {0}
        Holds(i) == {n \in 0 .. fs.nodes[i].blocks - 1 : Readable(fs.nodes[i])}
    IN  /\ fs.unused = Cardinality(FreeBits)
        /\ UNION {Own(i) : i \in DOMAIN fs.nodes} \union 0 .. FirstFree - 1
             = (0 .. NB - 1) \ FreeBits
        /\ \A i \in DOMAIN fs.nodes : Own(i) \intersect (0 .. FirstFree - 1) \subseteq {Root}
        /\ \A i, j \in DOMAIN fs.nodes : i # j => Own(i) \intersect Own(j) = {}
        /\ \A i \in DOMAIN fs.nodes :
             /\ fs.nodes[i].nlinks
                  = Cardinality({b \in DOMAIN fs.entries : fs.entries[b].ino = fs.nodes[i].ino})
             /\ IF fs.nodes[i].type = "dir"
                THEN \A n \in Holds(i) : Bmap(fs.nodes[i], n) \in DOMAIN fs.entries
                ELSE \A n \in Holds(i) : /\ Bmap(fs.nodes[i], n) \in DOMAIN fs.pieces
                                         /\ fs.pieces[Bmap(fs.nodes[i], n)] = <<i, n>>

\* The directories of the image as the kernel reads them.
Dirs ==
  [ino \in {node.ino : node \in {m \in ToSet(fs.nodes) : m.type = "dir"}} |->
     LET node == CHOOSE m \in ToSet(fs.nodes) : m.ino = ino
     IN  [n \in 1 .. node.blocks |-> fs.entries[Bmap(node, n - 1)]]]

\* In an image that the kernel can read, sfs_namefile() gives the path of every
\* directory whenever it fits, -E_NO_MEM otherwise, and all references back; who
\* changes directory along that path gets there, sfs_getdirentry() lists each entry
\* of a directory once, and every entry is found by its name (sfs_inode.c,
\* sfs_namefile, sfs_getdirentry, sfs_lookup).
NamesExact ==
  (phase = "closed" /\ \A i \in DOMAIN fs.nodes : Readable(fs.nodes[i])) =>
    \E dirs \in {Dirs} :
      /\ \A d \in DOMAIN dirs :
           \E full \in {NameFile(dirs, d, NB * NB)} :
             LET room == FoldLeft(LAMBDA n, name : n + name + 1, 2, full.path)
                 Walk(cwd, name) == Chdir(dirs, cwd, Root, "relative", <<name>>)
             IN  /\ full.ret = "done"
                 /\ FoldLeft(Walk, Chdir(dirs, d, Root, "device", <<>>), full.path) = d
                 /\ \A size \in 1 .. room + 1 :
                      LET r == NameFile(dirs, d, size)
                      IN  /\ r.ret = (IF size < Max({room, 3}) THEN "nomem" ELSE "done")
                          /\ \A i \in DOMAIN dirs : r.refs[i] = 0
      /\ \A d \in DOMAIN dirs :
           /\ {GetDirEntry(dirs[d], k) : k \in 2 .. Len(dirs[d]) - 1}
                = {dirs[d][k].name : k \in 3 .. Len(dirs[d])}
           /\ \A k \in DOMAIN dirs[d] :
                VfsLookup(dirs, d, Root, "relative", <<dirs[d][k].name>>) = dirs[d][k].ino
=============================================================================
