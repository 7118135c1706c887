----------------------------- MODULE OpenFiles -----------------------------
(***************************************************************************)
(* Open files of lab8/kern/fs: the descriptors of processes (file.c, fs.c),*)
(* open and close (vfs/vfsfile.c), reference counts (vfs/inode.c) and the  *)
(* inodes SFS keeps in memory (sfs_load_inode() and sfs_reclaim() of       *)
(* sfs/sfs_inode.c).                                                       *)
(*                                                                         *)
(* A step ends where a semaphore is taken or given back, and processes     *)
(* interleave there.  The kernel as built switches at even fewer places.   *)
(* The size of a file stands for all its inode holds.  Working             *)
(* directories are left out: they refer to the root, which stays.          *)
(***************************************************************************)
EXTENDS Integers, FiniteSets, Functions

CONSTANTS
  Procs,    \* processes, each created at most once
  First,    \* the first of them
  Files,    \* the files on the disk
  Nodes,    \* memory for struct inode
  NULL,
  NFds,     \* FILES_STRUCT_NENTRY
  NStd,     \* the descriptors files_closeall() leaves open
  MaxSize,  \* bound of the model: no file grows beyond it
  MaxLeaks  \* bound of the model: how many opens with O_CREAT | O_EXCL fail

VARIABLES
  node,    \* file, ref_count, open_count, reclaim_count, dirty, size; file is
           \* NULL for memory that is free
  disk,    \* the size on the disk
  table,   \* the inode of each descriptor, NULL if its status is FD_NONE
  job,     \* what a process does: at, and what it needs to go on
  leaked,  \* references vfs_open() has dropped without giving them back
  down     \* fs_cleanup() is done

vars == <<node, disk, table, job, leaked, down>>

ConstantsOK ==
  /\ First \in Procs /\ NULL \notin Files \cup Nodes
  /\ NFds \in Nat /\ NStd \in 0 .. NFds /\ MaxSize \in Nat /\ MaxLeaks \in Nat

FdNums == 0 .. NFds - 1
Free   == [file |-> NULL, ref |-> 0, open |-> 0, reclaim |-> 0, dirty |-> FALSE, size |-> 0]

\* In user mode, or not created yet, or exited.
Resting(l) == [at |-> l, file |-> NULL, how |-> "plain", node |-> NULL, fd |-> 0, then |-> l]

TypeOK ==
  /\ node \in [Nodes -> [file : Files \cup {NULL}, ref : Int, open : Int, reclaim : Int,
                         dirty : BOOLEAN, size : 0 .. MaxSize]]
  /\ disk \in [Files -> 0 .. MaxSize]
  /\ table \in [Procs -> [FdNums -> Nodes \cup {NULL}]]
  /\ leaked \in [Nodes -> Nat]
  /\ down \in BOOLEAN

Init ==
  /\ node = [n \in Nodes |-> Free]
  /\ disk = [f \in Files |-> 0]
  /\ table = [p \in Procs |-> [fd \in FdNums |-> NULL]]
  /\ job = [p \in Procs |-> Resting(IF p = First THEN "user" ELSE "unborn")]
  /\ leaked = [n \in Nodes |-> 0]
  /\ down = FALSE

At(p, l)  == job[p].at = l /\ ~down
Go(p, j)  == job' = [job EXCEPT ![p] = j]
NoFd(p)   == \A fd \in FdNums : table[p][fd] # NULL
FreeFd(p) ==
  CHOOSE fd \in FdNums : table[p][fd] = NULL /\ \A e \in 0 .. fd - 1 : table[p][e] # NULL

\* Where a process goes whose open fails: execve() exits.
AfterFailure(p) == Resting(IF job[p].then = "image" THEN "dead" ELSE "user")

-----------------------------------------------------------------------------
\* Fault: fsync clears dirty and writes nothing.
SyncedNot(n) == node' = [node EXCEPT ![n].dirty = FALSE] /\ UNCHANGED disk

\* sfs_fsync().
Synced(n) ==
  /\ node' = [node EXCEPT ![n].dirty = FALSE]
  /\ disk' = IF node[n].dirty THEN [disk EXCEPT ![node[n].file] = node[n].size] ELSE disk

\* The leaks so far, and those of opens in progress.
Leaks ==
  FoldFunction(+, 0, leaked) + Cardinality({p \in Procs : job[p].how = "excl"})

\* file_open(): a descriptor is free, and the directory has the file.
Open(p, f, how) ==
  /\ At(p, "user") /\ ~NoFd(p)
  /\ how = "excl" => Leaks < MaxLeaks
  /\ Go(p, [Resting("load") EXCEPT !.file = f, !.how = how, !.then = "user"])
  /\ UNCHANGED <<node, disk, table, leaked, down>>

\* Fault: a lookup that brings an inode back does not count in reclaim_count.
RevivedNot(n) == [node EXCEPT ![n].ref = @ + 1]

\* lookup_sfs_nolock() of an inode in memory, also one about to be reclaimed.
Revived(n) ==
  [node EXCEPT ![n].ref = @ + 1,
               ![n].reclaim = IF node[n].ref = 0 THEN @ + 1 ELSE @]

\* sfs_load_inode(), under fs_sem.
Load(p) ==
  LET f     == job[p].file
      found == {n \in Nodes : node[n].file = f}
      Got(n) == Go(p, [job[p] EXCEPT !.at = "loaded", !.node = n])
  IN  /\ At(p, "load")
      /\ \/ \E n \in found : node' = Revived(n) /\ Got(n)
         \/ /\ found = {}
            /\ \E n \in {m \in Nodes : node[m].file = NULL} :
                 /\ node' = [node EXCEPT ![n] =
                      [Free EXCEPT !.file = f, !.ref = 1, !.reclaim = 1, !.size = disk[f]]]
                 /\ Got(n)
         \/ found = {} /\ Go(p, AfterFailure(p)) /\ UNCHANGED node
      /\ UNCHANGED <<disk, table, leaked, down>>

\* vfs_open() fails with -E_EXISTS and keeps the reference of vfs_lookup().
OpenExcl(p) ==
  LET n == job[p].node
  IN  /\ At(p, "loaded") /\ job[p].how = "excl"
      /\ leaked' = [leaked EXCEPT ![n] = @ + 1]
      /\ Go(p, AfterFailure(p))
      /\ UNCHANGED <<node, disk, table, down>>

\* vfs_open() goes on, truncates, and file_open() fills in the descriptor.
OpenDone(p) ==
  LET n   == job[p].node
      cut == job[p].how = "trunc" /\ node[n].size # 0
  IN  /\ At(p, "loaded") /\ job[p].how # "excl"
      /\ node' = [node EXCEPT ![n].open = @ + 1,
                              ![n].size = IF cut THEN 0 ELSE @,
                              ![n].dirty = @ \/ cut]
      /\ table' = [table EXCEPT ![p][FreeFd(p)] = n]
      /\ Go(p, [Resting(job[p].then) EXCEPT !.fd = IF job[p].then = "image" THEN FreeFd(p) ELSE 0])
      /\ UNCHANGED <<disk, leaked, down>>

\* fd_array_close(), fd_array_free() and vfs_close() up to inode_open_dec().
CloseFd(p, fd, then) ==
  LET n == table[p][fd]
  IN  /\ n # NULL
      /\ table' = [table EXCEPT ![p][fd] = NULL]
      /\ node' = [node EXCEPT ![n].open = @ - 1]
      /\ Go(p, [job[p] EXCEPT !.at = IF node[n].open = 1 THEN "sync" ELSE "drop",
                              !.node = n, !.fd = 0, !.then = then])
      /\ UNCHANGED <<disk, leaked, down>>

\* file_close().
Close(p, fd) == At(p, "user") /\ CloseFd(p, fd, "user")

\* sfs_close() after the last close of an inode.
Sync(p) ==
  /\ At(p, "sync")
  /\ Synced(job[p].node)
  /\ Go(p, [job[p] EXCEPT !.at = "drop"])
  /\ UNCHANGED <<table, leaked, down>>

Back(p) ==
  IF job[p].then = "user" THEN Resting("user") ELSE [job[p] EXCEPT !.at = "exec", !.node = NULL]

\* inode_ref_dec().
Drop(p) ==
  LET n == job[p].node
  IN  /\ At(p, "drop")
      /\ node' = [node EXCEPT ![n].ref = @ - 1]
      /\ Go(p, IF node[n].ref = 1 THEN [job[p] EXCEPT !.at = "reclaim"] ELSE Back(p))
      /\ UNCHANGED <<disk, table, leaked, down>>

\* Neither a lookup nor another sfs_reclaim() is interested in n.
Last(n) == node[n].reclaim = 1 /\ node[n].ref = 0

\* sfs_reclaim(), under fs_sem, and inode_kill().
Reclaim(p) ==
  LET n == job[p].node
  IN  /\ At(p, "reclaim")
      /\ \/ /\ Last(n)
            /\ node' = [node EXCEPT ![n] = Free]
            /\ disk' = IF node[n].dirty THEN [disk EXCEPT ![node[n].file] = node[n].size] ELSE disk
         \/ /\ ~Last(n)
            /\ node' = [node EXCEPT ![n].reclaim = @ - 1]
            /\ UNCHANGED disk
      /\ Go(p, Back(p))
      /\ UNCHANGED <<table, leaked, down>>

-----------------------------------------------------------------------------
\* sfs_io(): a write that makes the file longer changes the inode.
Write(p, fd) ==
  LET n == table[p][fd]
  IN  /\ At(p, "user") /\ n # NULL /\ node[n].size < MaxSize
      /\ node' = [node EXCEPT ![n].size = @ + 1, ![n].dirty = TRUE]
      /\ UNCHANGED <<disk, table, job, leaked, down>>

\* file_fsync().
Fsync(p, fd) ==
  /\ At(p, "user") /\ table[p][fd] # NULL
  /\ Synced(table[p][fd])
  /\ UNCHANGED <<table, job, leaked, down>>

\* file_dup(): the new descriptor is the lowest free one or a given free one.
Dup(p, from, to) ==
  LET n == table[p][from]
  IN  /\ At(p, "user") /\ n # NULL /\ table[p][to] = NULL
      /\ table' = [table EXCEPT ![p][to] = n]
      /\ node' = [node EXCEPT ![n].ref = @ + 1, ![n].open = @ + 1]
      /\ UNCHANGED <<disk, job, leaked, down>>

\* do_fork() and dup_files().
Fork(p, q) ==
  LET copies(n) == Cardinality({fd \in FdNums : table[p][fd] = n})
  IN  /\ At(p, "user") /\ At(q, "unborn")
      /\ table' = [table EXCEPT ![q] = table[p]]
      /\ node' = [n \in Nodes |-> [node[n] EXCEPT !.ref = @ + copies(n), !.open = @ + copies(n)]]
      /\ job' = [job EXCEPT ![q] = Resting("user")]
      /\ UNCHANGED <<disk, leaked, down>>

\* do_execve(): files_closeall(), and then the program is opened, read and closed.
Exec(p, f) ==
  /\ At(p, "user")
  /\ Go(p, [Resting("exec") EXCEPT !.file = f])
  /\ UNCHANGED <<node, disk, table, leaked, down>>

ExecGoesOn(p) ==
  LET open == {fd \in NStd .. NFds - 1 : table[p][fd] # NULL}
  IN  /\ At(p, "exec")
      /\ \/ \E fd \in open : (\A e \in open : fd <= e) /\ CloseFd(p, fd, "exec")
         \/ /\ open = {}
            /\ Go(p, IF NoFd(p) THEN Resting("dead")
                     ELSE [Resting("load") EXCEPT !.file = job[p].file, !.then = "image"])
            /\ UNCHANGED <<node, disk, table, leaked, down>>

ExecEnds(p) == At(p, "image") /\ CloseFd(p, job[p].fd, "user")

\* do_exit(), also when load_icode() fails: the descriptors stay as they are.
Exit(p) ==
  /\ At(p, "user") \/ At(p, "image")
  /\ Go(p, Resting("dead"))
  /\ UNCHANGED <<node, disk, table, leaked, down>>

\* Fault: inodes that are still referred to are passed over.
ToSyncIdle == {n \in Nodes : node[n].file # NULL /\ node[n].ref = 0}

\* The inodes in memory, which are all in inode_list.
ToSync == {n \in Nodes : node[n].file # NULL}

\* init_main() when no process is left: fs_cleanup() and sfs_sync().
Cleanup ==
  /\ ~down /\ \A p \in Procs : job[p].at \in {"unborn", "dead"}
  /\ node' = [n \in Nodes |-> IF n \in ToSync THEN [node[n] EXCEPT !.dirty = FALSE] ELSE node[n]]
  /\ disk' = [f \in Files |->
       LET dirty == {n \in ToSync : node[n].file = f /\ node[n].dirty}
       IN  IF dirty = {} THEN disk[f] ELSE node[CHOOSE n \in dirty : TRUE].size]
  /\ down' = TRUE
  /\ UNCHANGED <<table, job, leaked>>

Halted == down /\ UNCHANGED vars

Step(p) ==
  \/ \E f \in Files : Exec(p, f) \/ \E how \in {"plain", "trunc", "excl"} : Open(p, f, how)
  \/ Load(p) \/ OpenExcl(p) \/ OpenDone(p)
  \/ \E fd \in FdNums : \/ Close(p, fd) \/ Write(p, fd) \/ Fsync(p, fd)
                       \/ \E to \in FdNums : Dup(p, fd, to)
  \/ Sync(p) \/ Drop(p) \/ Reclaim(p)
  \/ ExecGoesOn(p) \/ ExecEnds(p) \/ Exit(p)
  \/ \E q \in Procs : Fork(p, q)

Next == Cleanup \/ Halted \/ \E p \in Procs : Step(p)

Spec == Init /\ [][Next]_vars

-----------------------------------------------------------------------------
Named(n)       == {x \in Procs \X FdNums : table[x[1]][x[2]] = n}
Working(n, at) == {p \in Procs : job[p].node = n /\ job[p].at \in at}

\* open_count counts the descriptors, those that exited processes left behind
\* included; ref_count also the operations in progress and the leaked references;
\* reclaim_count the calls of sfs_reclaim() still to come (inode.c, inode_check;
\* sfs_inode.c, lookup_sfs_nolock and sfs_reclaim).
CountsExact ==
  \A n \in Nodes : node[n].file # NULL =>
    /\ node[n].open = Cardinality(Named(n))
    /\ node[n].ref = node[n].open + leaked[n] + Cardinality(Working(n, {"loaded", "sync", "drop"}))
    /\ node[n].reclaim = Cardinality(Working(n, {"reclaim"})) + (IF node[n].ref > 0 THEN 1 ELSE 0)

\* An inode that a descriptor or an operation refers to is not freed, and no file
\* has two of them (sfs_inode.c, sfs_load_inode against sfs_reclaim).
NodesValid ==
  /\ \A n \in Nodes :
       Named(n) # {} \/ Working(n, {"loaded", "sync", "drop", "reclaim"}) # {}
         => node[n].file # NULL
  /\ \A m, n \in Nodes : m # n /\ node[m].file # NULL => node[m].file # node[n].file

\* What a process finds when it opens f.
Content(f) ==
  LET found == {n \in Nodes : node[n].file = f}
  IN  IF found = {} THEN disk[f] ELSE node[CHOOSE n \in found : TRUE].size

\* Only writes and truncating opens change a file: what goes in and out of memory
\* in between loses nothing (sfs_inode.c, sfs_close, sfs_reclaim, sfs_load_inode).
Cut(f) ==
  \E p \in Procs : /\ job[p].at = "loaded" /\ job[p].how = "trunc" /\ job[p].file = f
                   /\ job'[p].at # "loaded"

ContentKept ==
  [][\A f \in Files : \/ Content(f)' \in {Content(f), Content(f) + 1}
                      \/ Content(f)' = 0 /\ Cut(f)]_vars

\* fs_cleanup() writes what is left in memory, although exited processes have
\* closed nothing (proc.c, init_main; sfs_fs.c, sfs_sync).
WrittenInTheEnd == down => \A f \in Files : disk[f] = Content(f)

\* fs.c:47 says of files_destroy(), which closes every descriptor, "Called when a
\* proc exit".
ExitCloses == \A p \in Procs : job[p].at = "dead" => \A fd \in FdNums : table[p][fd] = NULL
=============================================================================
