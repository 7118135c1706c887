-------------------------------- MODULE MCFs --------------------------------
(***************************************************************************)
(* The file system for TLC: the blocks of files on the disk (module        *)
(* SfsFile) and the inodes in memory under open files (module OpenFiles).  *)
(* One of the two moves in a behaviour; the other rests in its initial     *)
(* state.                                                                  *)
(***************************************************************************)
EXTENDS SfsFile, TLC

CONSTANTS Procs, First, Nodes, NULL, NFds, NStd, MaxSize, MaxLeaks

VARIABLES
  part,                                  \* the module that moves
  node, disk, table, job, leaked, down   \* of module OpenFiles

openVars == <<node, disk, table, job, leaked, down>>

OpenPart == INSTANCE OpenFiles

ASSUME MCFsAssumption == OpenPart!ConstantsOK

fsVars == <<part, vars, openVars>>

FsInit == part \in {"blocks", "inodes"} /\ Init /\ OpenPart!Init

FsNext ==
  /\ \/ part = "blocks" /\ Next /\ UNCHANGED openVars
     \/ part = "inodes" /\ OpenPart!Next /\ UNCHANGED vars
  /\ UNCHANGED part

FsSpec == FsInit /\ [][FsNext]_fsVars

Symmetry == Permutations(Files) \cup Permutations(Nodes)

-----------------------------------------------------------------------------
\* sfs_inode.c, inode.c: the counters say who refers to an inode, none in use is
\* freed and none exists twice (module OpenFiles).
NodesExact == OpenPart!CountsExact /\ OpenPart!NodesValid

\* sfs_inode.c: going in and out of memory loses nothing (module OpenFiles).
ContentKept == OpenPart!ContentKept

\* proc.c, sfs_fs.c: in the end everything is on the disk (module OpenFiles).
WrittenInTheEnd == OpenPart!WrittenInTheEnd
=============================================================================
