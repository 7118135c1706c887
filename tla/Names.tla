------------------------------- MODULE Names -------------------------------
(***************************************************************************)
(* Names of SFS files: how lab8/kern/fs/sfs/sfs_inode.c searches and lists *)
(* directories and computes the path of one, and how vfslookup.c and       *)
(* vfspath.c find the inode a path means.  dirs gives the entries of each  *)
(* directory in the order of their slots.  A name is a number, its length  *)
(* in characters; inode 0 is no inode.                                     *)
(***************************************************************************)
EXTENDS Integers, Sequences, FiniteSets, FiniteSetsExt, SequencesExt

Dot == -1
DotDot == -2
NoIno == 0

First(slots) == IF slots = {} THEN 0 ELSE Min(slots)

\* sfs_dirent_search_nolock(): the inode of a name; an entry of inode 0 is free.
Search(dir, name) ==
  LET i == First({k \in DOMAIN dir : dir[k].ino # NoIno /\ dir[k].name = name})
  IN  IF i = 0 THEN NoIno ELSE dir[i].ino

\* sfs_dirent_findino_nolock(): the entry of an inode.
FindIno(dir, ino) == First({k \in DOMAIN dir : dir[k].ino = ino})

\* sfs_getdirentry() at the offset of slot: the entries in use, one after the other.
GetDirEntry(dir, slot) ==
  LET used == SelectSeq(dir, LAMBDA e : e.ino # NoIno)
  IN  IF slot > Len(dir) \/ slot >= Len(used) THEN Dot ELSE used[slot + 1].name

-----------------------------------------------------------------------------
\* References that a call holds: a count for each inode.
Held(refs, ino, by) == [refs EXCEPT ![ino] = @ + by]

\* Fault: a name and its slash may not take the last byte.
FitsNot(alen, resid) == alen < resid

\* There is room for a name with its slash.
Fits(alen, resid) == alen <= resid

\* One turn of the loop of sfs_namefile() at st.node: its parent is looked up and
\* referenced, the node given back, its name put in front of the path.
NameStep(dirs, st) ==
  LET parent == Search(dirs[st.node], DotDot)
      here   == Held(st.refs, st.node, -1)
      slot   == FindIno(dirs[parent], st.node)
      alen   == dirs[parent][slot].name + 1
  IN  IF st.ret # "on" THEN st
      ELSE IF parent = NoIno THEN [st EXCEPT !.ret = "noent", !.refs = here]
      ELSE IF parent = st.node THEN [st EXCEPT !.ret = "done", !.refs = here]
      ELSE IF slot = 0 THEN [st EXCEPT !.ret = "noent", !.refs = here]
      ELSE IF ~ Fits(alen, st.resid) THEN [st EXCEPT !.ret = "nomem", !.refs = here]
      ELSE [node |-> parent, path |-> <<dirs[parent][slot].name>> \o st.path,
            resid |-> st.resid - alen, refs |-> Held(here, parent, 1), ret |-> "on"]

\* sfs_namefile() of node into a buffer of size bytes, of which '/' and the final
\* zero take two.
NameFile(dirs, node, size) ==
  LET none  == [ino \in DOMAIN dirs |-> 0]
      start == [node |-> node, path |-> <<>>, resid |-> size - 2,
                refs |-> Held(none, node, 1), ret |-> "on"]
  IN  IF size <= 2 THEN [start EXCEPT !.refs = none, !.ret = "nomem"]
      ELSE FoldLeft(LAMBDA st, k : NameStep(dirs, st), start,
                    [k \in 1 .. Cardinality(DOMAIN dirs) |-> k])

-----------------------------------------------------------------------------
\* get_device(): where a path begins.  "name:" is the root of the device, "/" the
\* boot file system, ":" the root of the current file system; there is one disk.
StartOf(lead, cwd, root) == IF lead = "relative" THEN cwd ELSE root

\* vfs_lookup() of a path of the given components: sfs_lookup() takes all that
\* follows the start for one name, so that a path of several components is none.
VfsLookup(dirs, cwd, root, lead, names) ==
  CASE names = <<>>   -> StartOf(lead, cwd, root)
    [] Len(names) = 1 -> IF StartOf(lead, cwd, root) \in DOMAIN dirs
                         THEN Search(dirs[StartOf(lead, cwd, root)], names[1]) ELSE NoIno
    [] OTHER          -> NoIno

\* vfs_chdir(): the working directory after it; a file is refused.
Chdir(dirs, cwd, root, lead, names) ==
  LET node == VfsLookup(dirs, cwd, root, lead, names)
  IN  IF node \in DOMAIN dirs THEN node ELSE cwd
=============================================================================
