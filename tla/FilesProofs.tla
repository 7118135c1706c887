---------------------------- MODULE FilesProofs ----------------------------
(***************************************************************************)
(* Proof, for every number of processes, files, inodes and descriptors,    *)
(* that the three counters of an inode are exact, that none in use is      *)
(* freed, that going in and out of memory loses nothing, and that all is   *)
(* on the disk in the end (module OpenFiles).                              *)
(*                                                                         *)
(* uses, works and leaves turn what the counters count into numbers;       *)
(* JobMoves, TableMoves and ForkCounts say once how a step changes them,   *)
(* and StepAt what is left to be shown of a step that stays in one inode.  *)
(***************************************************************************)
EXTENDS MCFs, Loops, FiniteSetTheorems, SequenceTheorems, WellFoundedInduction, TLAPS

FdNums == 0 .. NFds - 1

Labels ==
  {"unborn", "user", "load", "loaded", "sync", "drop", "reclaim", "exec", "image", "dead"}

Jobs == [at : Labels, file : Files \cup {NULL}, how : {"plain", "trunc", "excl"},
         node : Nodes \cup {NULL}, fd : Int, then : Labels]

NodeRec == [file : Files \cup {NULL}, ref : Int, open : Int, reclaim : Int,
            dirty : BOOLEAN, size : 0 .. MaxSize]

\* An operation at one of these labels has a reference of its own.
Busy == {"loaded", "sync", "drop"}

\* How many descriptors, operations and calls of sfs_reclaim() to come n has.
uses   == [n \in Nodes |-> Cardinality(OpenPart!Named(n))]
works  == [n \in Nodes |-> Cardinality(OpenPart!Working(n, Busy))]
leaves == [n \in Nodes |-> Cardinality(OpenPart!Working(n, {"reclaim"}))]

Counted(n) ==
  /\ node[n].open = uses[n]
  /\ node[n].ref = node[n].open + leaked[n] + works[n]
  /\ node[n].reclaim = leaves[n] + (IF node[n].ref > 0 THEN 1 ELSE 0)

\* Nothing refers to memory that is free.
FreeNode(n) ==
  node[n].file = NULL => leaked[n] = 0 /\ uses[n] = 0 /\ works[n] = 0 /\ leaves[n] = 0

\* What is not dirty is on the disk.
CleanNode(n) ==
  node[n].file # NULL /\ ~node[n].dirty => disk[node[n].file] = node[n].size

\* What a process has while it is at a label.
JobOK(p) ==
  /\ job[p].at \in Busy \cup {"reclaim"} => job[p].node \in Nodes
  /\ job[p].at \in {"load", "loaded"} =>
       /\ job[p].file \in Files /\ job[p].then \in {"user", "image"}
       /\ \E fd \in FdNums : table[p][fd] = NULL
  /\ job[p].at = "loaded" => node[job[p].node].file = job[p].file
  /\ job[p].at = "exec" => job[p].file \in Files
  /\ job[p].at = "image" => job[p].fd \in FdNums
  /\ job[p].at \in {"sync", "drop", "reclaim"} /\ job[p].then # "user" => job[p].file \in Files
  /\ job[p].at = "unborn" => \A fd \in FdNums : table[p][fd] = NULL

Born == {p \in Procs : job[p].at # "unborn"}

FilesTypes ==
  /\ node \in [Nodes -> NodeRec]
  /\ disk \in [Files -> 0 .. MaxSize]
  /\ table \in [Procs -> [FdNums -> Nodes \cup {NULL}]]
  /\ job \in [Procs -> Jobs]
  /\ leaked \in [Nodes -> Nat]
  /\ down \in BOOLEAN

OneEach == \A m, n \in Nodes : m # n /\ node[m].file # NULL => node[m].file # node[n].file

\* The inductive invariant.
FilesInv ==
  /\ FilesTypes
  /\ IsFiniteSet(Born)
  /\ \A n \in Nodes : FreeNode(n) /\ CleanNode(n)
  /\ \A n \in Nodes : node[n].file # NULL => Counted(n)
  /\ OneEach
  /\ \A p \in Procs : JobOK(p)
  /\ down => \A n \in Nodes : node[n].file # NULL => ~node[n].dirty

-----------------------------------------------------------------------------
Bit(b) == IF b THEN 1 ELSE 0

\* What the constants satisfy.
LEMMA ConstantsFit ==
  /\ NULL \notin Files /\ NULL \notin Nodes
  /\ NFds \in Nat /\ NStd \in Nat /\ NStd <= NFds /\ MaxSize \in Nat
  /\ First \in Procs
  BY MCFsAssumption DEF OpenPart!ConstantsOK

\* Cardinality is the same in the instance.
LEMMA SameCount == \A S : OpenPart!Cardinality(S) = Cardinality(S)
  BY Zenon DEF OpenPart!Cardinality, Cardinality

\* A process has finitely many descriptors (FILES_STRUCT_NENTRY).
LEMMA FdsFinite == IsFiniteSet(FdNums)
  BY ConstantsFit, FS_Interval DEF FdNums

\* Two sets that differ in one element at most.
LEMMA CountChange ==
  ASSUME NEW S, NEW T, NEW x, IsFiniteSet(S), S \ {x} = T \ {x}
  PROVE  /\ IsFiniteSet(T)
         /\ Cardinality(S) \in Nat /\ Cardinality(T) \in Nat
         /\ Cardinality(T) = Cardinality(S) + Bit(x \in T) - Bit(x \in S)
<1>1. CASE x \in S /\ x \notin T
  <2>1. T = S \ {x}
    BY <1>1
  <2>2. IsFiniteSet(T) /\ Cardinality(T) = Cardinality(S) - 1
    BY <1>1, <2>1, FS_RemoveElement
  <2> QED BY <1>1, <2>2, FS_CardinalityType DEF Bit
<1>2. CASE x \notin S /\ x \in T
  <2>1. T = S \cup {x}
    BY <1>2
  <2> QED BY <1>2, <2>1, FS_AddElement, FS_CardinalityType DEF Bit
<1>3. CASE x \in S <=> x \in T
  <2>1. T = S
    BY <1>3
  <2> QED BY <1>3, <2>1, FS_CardinalityType DEF Bit
<1> QED BY <1>1, <1>2, <1>3

\* The sets that are counted are finite, and the counts numbers.
LEMMA CountsFinite ==
  ASSUME FilesTypes, IsFiniteSet(Born), \A p \in Procs : JobOK(p), NEW n \in Nodes
  PROVE  /\ IsFiniteSet(OpenPart!Named(n)) /\ uses[n] \in Nat
         /\ IsFiniteSet(OpenPart!Working(n, Busy)) /\ works[n] \in Nat
         /\ IsFiniteSet(OpenPart!Working(n, {"reclaim"})) /\ leaves[n] \in Nat
<1>1. OpenPart!Named(n) \subseteq Born \X FdNums
  BY ConstantsFit DEF OpenPart!Named, OpenPart!FdNums, FdNums, Born, FilesTypes, JobOK
<1>2. IsFiniteSet(Born \X FdNums)
  BY FdsFinite, FS_Product
<1>3. OpenPart!Working(n, Busy) \subseteq Born /\ OpenPart!Working(n, {"reclaim"}) \subseteq Born
  BY DEF OpenPart!Working, Born, Busy
<1> QED BY <1>1, <1>2, <1>3, FS_Subset, FS_CardinalityType DEF uses, works, leaves

\* All counts are numbers.
LEMMA CountsNat ==
  ASSUME FilesInv
  PROVE  \A n \in Nodes : uses[n] \in Nat /\ works[n] \in Nat /\ leaves[n] \in Nat
  BY CountsFinite DEF FilesInv

\* Who is counted makes the count positive.
LEMMA CountsPositive ==
  ASSUME FilesInv, NEW n \in Nodes, NEW p \in Procs
  PROVE  /\ \A fd \in FdNums : table[p][fd] = n => uses[n] > 0
         /\ job[p].node = n /\ job[p].at \in Busy => works[n] > 0
         /\ job[p].node = n /\ job[p].at = "reclaim" => leaves[n] > 0
<1>1. \A S : IsFiniteSet(S) /\ S # {} => Cardinality(S) \in Nat /\ Cardinality(S) > 0
  BY FS_EmptySet, FS_CardinalityType
<1>2. ASSUME NEW fd \in FdNums, table[p][fd] = n PROVE uses[n] > 0
  <2>1. <<p, fd>> \in OpenPart!Named(n)
    BY <1>2 DEF OpenPart!Named, OpenPart!FdNums, FdNums
  <2> QED BY <1>1, <2>1, CountsFinite DEF uses, FilesInv
<1>3. ASSUME job[p].node = n, job[p].at \in Busy PROVE works[n] > 0
  <2>1. p \in OpenPart!Working(n, Busy)
    BY <1>3 DEF OpenPart!Working
  <2> QED BY <1>1, <2>1, CountsFinite DEF works, FilesInv
<1>4. ASSUME job[p].node = n, job[p].at = "reclaim" PROVE leaves[n] > 0
  <2>1. p \in OpenPart!Working(n, {"reclaim"})
    BY <1>4 DEF OpenPart!Working
  <2> QED BY <1>1, <2>1, CountsFinite DEF leaves, FilesInv
<1> QED BY <1>2, <1>3, <1>4

\* What a job is counted as for n.
Works(j, n)  == j.node = n /\ j.at \in Busy
Leaves(j, n) == j.node = n /\ j.at = "reclaim"

\* p goes on from its job to j.
LEMMA JobMoves ==
  ASSUME FilesInv, NEW p \in Procs, NEW j \in Jobs, j.at # "unborn",
         job' = [job EXCEPT ![p] = j]
  PROVE  /\ job' \in [Procs -> Jobs] /\ job'[p] = j
         /\ \A q \in Procs : q # p => job'[q] = job[q]
         /\ IsFiniteSet(Born)'
         /\ \A n \in Nodes :
              /\ works[n] \in Nat /\ leaves[n] \in Nat
              /\ (Works(j, n) <=> Works(job[p], n)) => works'[n] = works[n]
              /\ Works(j, n) /\ ~Works(job[p], n) => works'[n] = works[n] + 1
              /\ ~Works(j, n) /\ Works(job[p], n) => works'[n] = works[n] - 1
              /\ (Leaves(j, n) <=> Leaves(job[p], n)) => leaves'[n] = leaves[n]
              /\ Leaves(j, n) /\ ~Leaves(job[p], n) => leaves'[n] = leaves[n] + 1
              /\ ~Leaves(j, n) /\ Leaves(job[p], n) => leaves'[n] = leaves[n] - 1
<1>1. /\ job' \in [Procs -> Jobs] /\ job'[p] = j
      /\ \A q \in Procs : q # p => job'[q] = job[q]
  BY DEF FilesInv, FilesTypes
<1>2. IsFiniteSet(Born')
  <2>1. Born \ {p} = Born' \ {p}
    BY <1>1 DEF Born
  <2> QED BY <2>1, CountChange DEF FilesInv
<1>3. ASSUME NEW n \in Nodes, NEW L
      PROVE  IsFiniteSet(OpenPart!Working(n, L)) =>
               Cardinality(OpenPart!Working(n, L)') = Cardinality(OpenPart!Working(n, L))
                  + Bit(j.node = n /\ j.at \in L) - Bit(job[p].node = n /\ job[p].at \in L)
  <2> DEFINE S == {q \in Procs : job[q].node = n /\ job[q].at \in L}
             T == {q \in Procs : job'[q].node = n /\ job'[q].at \in L}
  <2>1. S \ {p} = T \ {p}
    BY <1>1
  <2>2. p \in S <=> job[p].node = n /\ job[p].at \in L
    OBVIOUS
  <2>3. p \in T <=> j.node = n /\ j.at \in L
    BY <1>1
  <2> HIDE DEF S, T
  <2>4. IsFiniteSet(S) => Cardinality(T) = Cardinality(S)
           + Bit(j.node = n /\ j.at \in L) - Bit(job[p].node = n /\ job[p].at \in L)
    BY <2>1, <2>2, <2>3, CountChange DEF Bit
  <2> QED BY <2>4 DEF OpenPart!Working, S, T
<1>4. ASSUME NEW n \in Nodes
      PROVE  /\ works'[n] = works[n] + Bit(j.node = n /\ j.at \in Busy)
                               - Bit(job[p].node = n /\ job[p].at \in Busy)
             /\ leaves'[n] = leaves[n] + Bit(j.node = n /\ j.at = "reclaim")
                               - Bit(job[p].node = n /\ job[p].at = "reclaim")
  <2>1. /\ works[n] = Cardinality(OpenPart!Working(n, Busy))
        /\ works'[n] = Cardinality(OpenPart!Working(n, Busy)')
        /\ leaves[n] = Cardinality(OpenPart!Working(n, {"reclaim"}))
        /\ leaves'[n] = Cardinality(OpenPart!Working(n, {"reclaim"})')
    BY DEF works, leaves, Busy
  <2>2. /\ IsFiniteSet(OpenPart!Working(n, Busy))
        /\ IsFiniteSet(OpenPart!Working(n, {"reclaim"}))
    BY CountsFinite DEF FilesInv
  <2>3. works'[n] = works[n] + Bit(j.node = n /\ j.at \in Busy)
                      - Bit(job[p].node = n /\ job[p].at \in Busy)
    BY <1>3, <2>1, <2>2
  <2>4. leaves'[n] = leaves[n] + Bit(j.node = n /\ j.at \in {"reclaim"})
                      - Bit(job[p].node = n /\ job[p].at \in {"reclaim"})
    BY <1>3, <2>1, <2>2
  <2> QED BY <2>3, <2>4 DEF Bit
<1>5. \A n \in Nodes : works[n] \in Nat /\ leaves[n] \in Nat
  BY CountsNat
<1> QED BY <1>1, <1>2, <1>4, <1>5 DEF Works, Leaves, Bit

\* Descriptor fd of p gets value v: the table, and what it counts.
LEMMA TableTyped ==
  ASSUME FilesInv, NEW p \in Procs, NEW fd \in FdNums, NEW v \in Nodes \cup {NULL},
         table' = [table EXCEPT ![p][fd] = v]
  PROVE  /\ table' \in [Procs -> [FdNums -> Nodes \cup {NULL}]]
         /\ \A q \in Procs : q # p => table'[q] = table[q]
  BY DEF FilesInv, FilesTypes

\* Only the count of the old value and that of the new change.
LEMMA TableMoves ==
  ASSUME FilesInv, NEW p \in Procs, NEW fd \in FdNums, NEW v \in Nodes \cup {NULL},
         table' = [table EXCEPT ![p][fd] = v]
  PROVE  /\ \A n \in Nodes : uses[n] \in Nat
         /\ \A n \in Nodes : v # n /\ table[p][fd] # n => uses'[n] = uses[n]
         /\ \A n \in Nodes : v = n /\ table[p][fd] # n => uses'[n] = uses[n] + 1
         /\ \A n \in Nodes : v # n /\ table[p][fd] = n => uses'[n] = uses[n] - 1
<1>1. /\ table' \in [Procs -> [FdNums -> Nodes \cup {NULL}]]
      /\ table'[p] = [table[p] EXCEPT ![fd] = v]
      /\ \A q \in Procs : q # p => table'[q] = table[q]
  BY DEF FilesInv, FilesTypes
<1>2. ASSUME NEW n \in Nodes PROVE uses'[n] = uses[n] + Bit(v = n) - Bit(table[p][fd] = n)
  <2> DEFINE S == {x \in Procs \X FdNums : table[x[1]][x[2]] = n}
             T == {x \in Procs \X FdNums : table'[x[1]][x[2]] = n}
  <2>1. ASSUME NEW x \in Procs \X FdNums, x # <<p, fd>>
        PROVE  table'[x[1]][x[2]] = table[x[1]][x[2]]
    <3>1. x[1] \in Procs /\ x[2] \in FdNums /\ (x[1] # p \/ x[2] # fd)
      BY <2>1
    <3> QED BY <1>1, <3>1 DEF FilesInv, FilesTypes
  <2>2. S \ {<<p, fd>>} = T \ {<<p, fd>>}
    BY <2>1
  <2>3. <<p, fd>> \in S <=> table[p][fd] = n
    OBVIOUS
  <2>4. <<p, fd>> \in T <=> v = n
    BY <1>1 DEF FilesInv, FilesTypes
  <2>5. uses[n] = Cardinality(S) /\ uses'[n] = Cardinality(T)
    BY DEF uses, OpenPart!Named, OpenPart!FdNums, FdNums
  <2>6. IsFiniteSet(S)
    BY CountsFinite DEF FilesInv, OpenPart!Named, OpenPart!FdNums, FdNums
  <2> HIDE DEF S, T
  <2> QED BY <2>2, <2>3, <2>4, <2>5, <2>6, CountChange DEF Bit
<1> QED BY <1>1, <1>2, CountsNat DEF Bit

\* A free descriptor is filled in (fd_array_open).
LEMMA DescriptorFilled ==
  ASSUME FilesInv, NEW p \in Procs, NEW fd \in FdNums, NEW n \in Nodes,
         table[p][fd] = NULL, table' = [table EXCEPT ![p][fd] = n]
  PROVE  /\ table' \in [Procs -> [FdNums -> Nodes \cup {NULL}]]
         /\ \A q \in Procs : q # p => table'[q] = table[q]
         /\ \A m \in Nodes : m # n => uses'[m] = uses[m]
         /\ uses'[n] = uses[n] + 1
<1>1. n \in Nodes \cup {NULL}
  OBVIOUS
<1>2. \A m \in Nodes : table[p][fd] # m
  BY ConstantsFit
<1>3. /\ table' \in [Procs -> [FdNums -> Nodes \cup {NULL}]]
      /\ \A q \in Procs : q # p => table'[q] = table[q]
  BY <1>1, TableTyped
<1>4. \A m \in Nodes : m # n => uses'[m] = uses[m]
  BY <1>1, <1>2, TableMoves, ZenonT(30)
<1>5. uses'[n] = uses[n] + 1
  BY <1>1, <1>2, TableMoves
<1> QED BY <1>3, <1>4, <1>5

\* A descriptor in use is freed (fd_array_close).
LEMMA DescriptorFreed ==
  ASSUME FilesInv, NEW p \in Procs, NEW fd \in FdNums, NEW n \in Nodes,
         table[p][fd] = n, table' = [table EXCEPT ![p][fd] = NULL]
  PROVE  /\ \A m \in Nodes : m # n => uses'[m] = uses[m]
         /\ uses'[n] = uses[n] - 1
<1>1. NULL \in Nodes \cup {NULL} /\ \A m \in Nodes : NULL # m
  BY ConstantsFit
<1>2. \A m \in Nodes : m # n => uses'[m] = uses[m]
  BY <1>1, TableMoves
<1>3. uses'[n] = uses[n] - 1
  BY <1>1, TableMoves
<1> QED BY <1>2, <1>3

-----------------------------------------------------------------------------
content == [f \in Files |-> OpenPart!Content(f)]

\* Where the content of a file is, now and after a step.
LEMMA ContentIs ==
  ASSUME NEW f \in Files
  PROVE  /\ OneEach => /\ \A n \in Nodes : node[n].file = f => content[f] = node[n].size
                       /\ (\A n \in Nodes : node[n].file # f) => content[f] = disk[f]
         /\ OneEach' => /\ \A n \in Nodes : node'[n].file = f => content'[f] = node'[n].size
                        /\ (\A n \in Nodes : node'[n].file # f) => content'[f] = disk'[f]
<1>1. ASSUME NEW S, NEW n \in S, \A m \in S : m = n PROVE (CHOOSE m \in S : TRUE) = n
  BY <1>1
<1>2. ASSUME OneEach, NEW n \in Nodes, node[n].file = f PROVE content[f] = node[n].size
  <2> DEFINE S == {m \in Nodes : node[m].file = f}
  <2>1. n \in S /\ \A m \in S : m = n
    BY <1>2, ConstantsFit DEF OneEach
  <2>2. (CHOOSE m \in S : TRUE) = n
    BY <1>1, <2>1
  <2> QED BY <2>1, <2>2 DEF content, OpenPart!Content
<1>3. ASSUME \A n \in Nodes : node[n].file # f PROVE content[f] = disk[f]
  BY <1>3 DEF content, OpenPart!Content
<1>4. ASSUME OneEach', NEW n \in Nodes, node'[n].file = f
      PROVE  content'[f] = node'[n].size
  <2> DEFINE S == {m \in Nodes : node'[m].file = f}
  <2>1. n \in S /\ \A m \in S : m = n
    BY <1>4, ConstantsFit DEF OneEach
  <2>2. (CHOOSE m \in S : TRUE) = n
    BY <1>1, <2>1
  <2> QED BY <2>1, <2>2 DEF content, OpenPart!Content
<1>5. ASSUME \A n \in Nodes : node'[n].file # f PROVE content'[f] = disk'[f]
  BY <1>5 DEF content, OpenPart!Content
<1> QED BY <1>2, <1>3, <1>4, <1>5

\* What a step may do to the content of a file.
Kept == \A f \in Files : \/ content'[f] \in {content[f], content[f] + 1}
                         \/ content'[f] = 0 /\ OpenPart!Cut(f)

\* A step that leaves the files and sizes in memory alone, and on the disk what is
\* not in memory.
LEMMA ContentStays ==
  ASSUME FilesInv, FilesInv',
         \A n \in Nodes : node'[n].file = node[n].file /\ node'[n].size = node[n].size,
         \A f \in Files : (\A n \in Nodes : node[n].file # f) => disk'[f] = disk[f]
  PROVE  Kept
<1> SUFFICES ASSUME NEW f \in Files PROVE content'[f] = content[f]
  BY DEF Kept
<1>1. OneEach /\ OneEach'
  BY DEF FilesInv
<1>2. CASE \A n \in Nodes : node[n].file # f
  BY <1>1, <1>2, ContentIs
<1>3. ASSUME NEW n \in Nodes, node[n].file = f
      PROVE  content'[f] = content[f]
  BY <1>1, <1>3, ContentIs
<1> QED BY <1>2, <1>3

\* p moves and memory n becomes r: what is left to be shown of such a step.
LEMMA NodeMoves ==
  ASSUME FilesInv, NEW p \in Procs, NEW n \in Nodes, NEW r \in NodeRec, ~down, down' = down,
         node' = [node EXCEPT ![n] = r],
         job' \in [Procs -> Jobs], IsFiniteSet(Born)',
         \A q \in Procs : q # p => job'[q] = job[q],
         table' \in [Procs -> [FdNums -> Nodes \cup {NULL}]],
         \A q \in Procs : q # p => table'[q] = table[q],
         leaked' \in [Nodes -> Nat], disk' \in [Files -> 0 .. MaxSize],
         \A m \in Nodes : m # n => /\ uses'[m] = uses[m] /\ works'[m] = works[m]
                                   /\ leaves'[m] = leaves[m] /\ leaked'[m] = leaked[m]
                                   /\ node[m].file # NULL =>
                                        disk'[node[m].file] = disk[node[m].file],
         r.file = node[n].file \/ works[n] = 0,
         r.file = node[n].file \/ r.file = NULL \/ \A m \in Nodes : node[m].file # r.file,
         FreeNode(n)', CleanNode(n)', r.file # NULL => Counted(n)', JobOK(p)'
  PROVE  FilesInv'
<1>1. FilesTypes'
  BY DEF FilesInv, FilesTypes
<1>2. node'[n] = r /\ \A m \in Nodes : m # n => node'[m] = node[m]
  BY DEF FilesInv, FilesTypes
<1>3. ASSUME NEW m \in Nodes PROVE /\ FreeNode(m)' /\ CleanNode(m)'
                                   /\ node'[m].file # NULL => Counted(m)'
  BY <1>2 DEF FilesInv, FreeNode, CleanNode, Counted
<1>4. OneEach'
  BY <1>2 DEF FilesInv, OneEach
<1>5. ASSUME NEW q \in Procs, q # p PROVE JobOK(q)'
  <2>1. job[q].at = "loaded" => node'[job[q].node].file = node[job[q].node].file
    BY <1>2, CountsPositive DEF FilesInv, JobOK, Busy
  <2> QED BY <1>5, <2>1 DEF FilesInv, JobOK
<1> QED BY <1>1, <1>3, <1>4, <1>5 DEF FilesInv

\* Only p moves, and is counted neither before nor behind the step.
LEMMA JobOnly ==
  ASSUME FilesInv, NEW p \in Procs, NEW j \in Jobs, ~down,
         job' = [job EXCEPT ![p] = j], UNCHANGED <<node, disk, table, leaked, down>>,
         job[p].at \notin Busy \cup {"reclaim"}, j.at \notin Busy \cup {"reclaim", "unborn"},
         JobOK(p)'
  PROVE  FilesInv' /\ Kept
<1>1. /\ job' \in [Procs -> Jobs] /\ IsFiniteSet(Born)'
      /\ \A q \in Procs : q # p => job'[q] = job[q]
      /\ \A n \in Nodes : works'[n] = works[n] /\ leaves'[n] = leaves[n]
  <2>1. \A n : /\ ~Works(j, n) /\ ~Works(job[p], n)
              /\ ~Leaves(j, n) /\ ~Leaves(job[p], n)
    BY DEF Works, Leaves
  <2>2. j.at # "unborn"
    OBVIOUS
  <2> QED BY <2>1, <2>2, JobMoves
<1>2. \A n \in Nodes : uses'[n] = uses[n]
  BY DEF uses, OpenPart!Named
<1>3. FilesTypes' /\ OneEach'
  BY <1>1 DEF FilesInv, FilesTypes, OneEach
<1>4. ASSUME NEW n \in Nodes PROVE /\ FreeNode(n)' /\ CleanNode(n)'
                                   /\ node'[n].file # NULL => Counted(n)'
  BY <1>1, <1>2 DEF FilesInv, FreeNode, CleanNode, Counted
<1>5. ASSUME NEW q \in Procs, q # p PROVE JobOK(q)'
  BY <1>1, <1>5 DEF FilesInv, JobOK
<1>6. FilesInv'
  BY <1>1, <1>3, <1>4, <1>5 DEF FilesInv
<1> QED BY <1>6, ContentStays

-----------------------------------------------------------------------------
\* Steps that only change what the process is at.
LEMMA Starts ==
  ASSUME FilesInv, NEW p \in Procs,
         \/ \E f \in Files : \/ OpenPart!Exec(p, f)
                             \/ \E how \in {"plain", "trunc", "excl"} : OpenPart!Open(p, f, how)
         \/ OpenPart!Exit(p)
  PROVE  FilesInv' /\ Kept
<1> USE DEF OpenPart!At, OpenPart!Go, OpenPart!Resting, OpenPart!NoFd, OpenPart!FdNums, FdNums
<1>1. ASSUME NEW f \in Files, OpenPart!Exec(p, f) PROVE FilesInv' /\ Kept
  <2> DEFINE j == [OpenPart!Resting("exec") EXCEPT !.file = f]
  <2>1. /\ j \in Jobs /\ j.at = "exec" /\ j.file = f
        /\ job' = [job EXCEPT ![p] = j] /\ job[p].at = "user" /\ ~down
        /\ UNCHANGED <<node, disk, table, leaked, down>>
    BY <1>1 DEF OpenPart!Exec, Jobs, Labels
  <2> HIDE DEF j
  <2>2. JobOK(p)'
    BY <2>1 DEF JobOK, Busy, FilesInv, FilesTypes
  <2> QED BY <2>1, <2>2, JobOnly DEF Busy
<1>2. ASSUME NEW f \in Files, NEW how \in {"plain", "trunc", "excl"}, OpenPart!Open(p, f, how)
      PROVE  FilesInv' /\ Kept
  <2> DEFINE j == [OpenPart!Resting("load") EXCEPT !.file = f, !.how = how, !.then = "user"]
  <2>1. /\ j \in Jobs /\ j.at = "load" /\ j.file = f /\ j.then = "user"
        /\ job' = [job EXCEPT ![p] = j] /\ job[p].at = "user" /\ ~down
        /\ UNCHANGED <<node, disk, table, leaked, down>>
    <3> DEFINE j0 == OpenPart!Resting("load")
    <3>1. j0 \in Jobs /\ j0.at = "load"
      BY DEF Jobs, Labels
    <3> HIDE DEF j0
    <3>2. \A t \in Labels : [j0 EXCEPT !.file = f, !.how = how, !.then = t] \in Jobs
      BY <3>1 DEF Jobs
    <3>3. j \in Jobs
      BY <3>2 DEF Labels, j0
    <3>4. j.at = "load" /\ j.file = f /\ j.then = "user"
      BY <3>1 DEF Jobs, j0
    <3> QED BY <1>2, <3>3, <3>4 DEF OpenPart!Open
  <2> HIDE DEF j
  <2>2. \E fd \in FdNums : table[p][fd] = NULL
    BY <1>2 DEF OpenPart!Open
  <2>3. JobOK(p)'
    BY <2>1, <2>2 DEF JobOK, Busy, FilesInv, FilesTypes
  <2> QED BY <2>1, <2>3, JobOnly DEF Busy
<1>3. ASSUME OpenPart!Exit(p) PROVE FilesInv' /\ Kept
  <2> DEFINE j == OpenPart!Resting("dead")
  <2>1. /\ j \in Jobs /\ j.at = "dead"
        /\ job' = [job EXCEPT ![p] = j] /\ job[p].at \in {"user", "image"} /\ ~down
        /\ UNCHANGED <<node, disk, table, leaked, down>>
    BY <1>3 DEF OpenPart!Exit, Jobs, Labels
  <2> HIDE DEF j
  <2>2. JobOK(p)'
    BY <2>1 DEF JobOK, Busy, FilesInv, FilesTypes
  <2> QED BY <2>1, <2>2, JobOnly DEF Busy
<1> QED BY <1>1, <1>2, <1>3

\* sfs_load_inode(): an inode in memory counts one reference more, also one about
\* to be reclaimed; a new one begins with one.
LEMMA Loads ==
  ASSUME FilesInv, NEW p \in Procs, OpenPart!Load(p)
  PROVE  FilesInv' /\ Kept
<1> USE DEF OpenPart!At, OpenPart!Go
<1> DEFINE f == job[p].file
<1>1. /\ job[p] \in Jobs /\ job[p].at = "load" /\ ~down /\ f \in Files
      /\ job[p].then \in {"user", "image"} /\ \E fd \in FdNums : table[p][fd] = NULL
      /\ UNCHANGED <<disk, table, leaked, down>>
  BY DEF OpenPart!Load, FilesInv, FilesTypes, JobOK
<1>2. uses' = uses
  BY <1>1 DEF uses, OpenPart!Named
<1>3. ASSUME NEW n \in Nodes, NEW r \in NodeRec, node' = [node EXCEPT ![n] = r], r.file = f,
             job' = [job EXCEPT ![p] = [job[p] EXCEPT !.at = "loaded", !.node = n]],
             \/ r.file = node[n].file
             \/ works[n] = 0 /\ \A m \in Nodes : node[m].file # f,
             ~r.dirty => disk[f] = r.size,
             /\ r.open = uses[n]
             /\ r.ref = r.open + leaked[n] + works[n] + 1
             /\ r.reclaim = leaves[n] + (IF r.ref > 0 THEN 1 ELSE 0)
      PROVE  FilesInv'
  <2> DEFINE j == [job[p] EXCEPT !.at = "loaded", !.node = n]
  <2>1. /\ j \in Jobs /\ j.at = "loaded" /\ j.node = n /\ j.file = f /\ j.then = job[p].then
        /\ job' = [job EXCEPT ![p] = j]
    BY <1>1, <1>3 DEF Jobs, Labels
  <2> HIDE DEF j
  <2>2. /\ job' \in [Procs -> Jobs] /\ IsFiniteSet(Born)' /\ job'[p] = j
        /\ \A q \in Procs : q # p => job'[q] = job[q]
        /\ \A m \in Nodes : /\ m = n => works'[m] = works[m] + 1
                            /\ m # n => works'[m] = works[m]
                            /\ leaves'[m] = leaves[m]
    <3>1. \A m : /\ (Works(j, m) <=> m = n) /\ ~Works(job[p], m)
                /\ ~Leaves(j, m) /\ ~Leaves(job[p], m)
      BY <1>1, <2>1 DEF Works, Leaves, Busy
    <3>2. j.at # "unborn"
      BY <2>1
    <3>3. /\ job' \in [Procs -> Jobs] /\ IsFiniteSet(Born)' /\ job'[p] = j
          /\ \A q \in Procs : q # p => job'[q] = job[q]
      BY <2>1, <3>2, JobMoves
    <3>4. ASSUME NEW m \in Nodes
          PROVE  /\ m = n => works'[m] = works[m] + 1
                 /\ m # n => works'[m] = works[m]
                 /\ leaves'[m] = leaves[m]
      BY <2>1, <3>1, <3>2, JobMoves, ZenonT(30)
    <3> QED BY <3>3, <3>4
  <2>3. node'[n] = r
    BY <1>3 DEF FilesInv, FilesTypes
  <2>4. Counted(n)' /\ FreeNode(n)' /\ CleanNode(n)'
    <3>1. leaked' = leaked /\ disk' = disk /\ node'[n].file = f /\ f # NULL
      BY <1>1, <1>3, <2>3, ConstantsFit
    <3>2. Counted(n)'
      BY <1>2, <1>3, <2>2, <2>3, <3>1, CountsNat DEF Counted, FilesInv, FilesTypes
    <3>3. CleanNode(n)'
      BY <1>3, <2>3, <3>1 DEF CleanNode
    <3> QED BY <3>1, <3>2, <3>3 DEF FreeNode
  <2>5. JobOK(p)'
    BY <1>1, <1>3, <2>1, <2>2, <2>3 DEF JobOK, Busy
  <2>6. \A m \in Nodes : m # n => /\ uses'[m] = uses[m] /\ works'[m] = works[m]
                                  /\ leaves'[m] = leaves[m] /\ leaked'[m] = leaked[m]
                                  /\ disk' = disk
    BY <1>1, <1>2, <2>2, CountsNat
  <2>7. /\ r.file = node[n].file \/ works[n] = 0
        /\ r.file = node[n].file \/ \A m \in Nodes : node[m].file # r.file
    BY <1>3
  <2>8. /\ table' \in [Procs -> [FdNums -> Nodes \cup {NULL}]] /\ table' = table
        /\ leaked' \in [Nodes -> Nat] /\ disk' \in [Files -> 0 .. MaxSize]
    BY <1>1 DEF FilesInv, FilesTypes
  <2> QED BY <1>1, <1>3, <2>2, <2>4, <2>5, <2>6, <2>7, <2>8, NodeMoves
<1>4. ASSUME NEW n \in Nodes, node[n].file = f, node' = OpenPart!Revived(n),
             job' = [job EXCEPT ![p] = [job[p] EXCEPT !.at = "loaded", !.node = n]]
      PROVE  FilesInv' /\ Kept
  <2> DEFINE r == [node[n] EXCEPT !.ref = @ + 1,
                                  !.reclaim = IF node[n].ref = 0 THEN @ + 1 ELSE @]
  <2>1. /\ node[n] \in NodeRec /\ node' = [node EXCEPT ![n] = r]
    BY <1>4 DEF FilesInv, FilesTypes, OpenPart!Revived
  <2>2. /\ r \in NodeRec /\ r.file = f /\ r.size = node[n].size /\ r.open = node[n].open
        /\ r.dirty = node[n].dirty /\ r.ref = node[n].ref + 1
        /\ r.reclaim = IF node[n].ref = 0 THEN node[n].reclaim + 1 ELSE node[n].reclaim
    <3>1. /\ r.file = f /\ r.size = node[n].size /\ r.open = node[n].open
          /\ r.dirty = node[n].dirty /\ r.ref = node[n].ref + 1
          /\ r.reclaim = IF node[n].ref = 0 THEN node[n].reclaim + 1 ELSE node[n].reclaim
      BY <1>4, <2>1 DEF NodeRec
    <3>2. r \in NodeRec
      <4>1. node[n].ref + 1 \in Int /\ node[n].reclaim \in Int /\ node[n].reclaim + 1 \in Int
        BY <2>1 DEF NodeRec
      <4> QED BY <2>1, <4>1 DEF NodeRec
    <3> QED BY <3>1, <3>2
  <2> HIDE DEF r
  <2>3. Counted(n) /\ CleanNode(n) /\ leaked[n] \in Nat /\ node[n].ref \in Int
    BY <1>1, <1>4, <2>1, ConstantsFit DEF FilesInv, FilesTypes, NodeRec
  <2>4. /\ r.open = uses[n]
        /\ r.ref = r.open + leaked[n] + works[n] + 1
        /\ r.reclaim = leaves[n] + (IF r.ref > 0 THEN 1 ELSE 0)
    BY <2>2, <2>3, CountsNat DEF Counted
  <2>5. ~r.dirty => disk[f] = r.size
    BY <1>1, <1>4, <2>2, <2>3, ConstantsFit DEF CleanNode
  <2>6. FilesInv'
    BY <1>3, <1>4, <2>1, <2>2, <2>4, <2>5
  <2>7. \A m \in Nodes : node'[m].file = node[m].file /\ node'[m].size = node[m].size
    BY <1>4, <2>1, <2>2 DEF FilesInv, FilesTypes
  <2> QED BY <1>1, <2>6, <2>7, ContentStays
<1>5. ASSUME NEW n \in Nodes, node[n].file = NULL, \A m \in Nodes : node[m].file # f,
             node' = [node EXCEPT ![n] =
                [OpenPart!Free EXCEPT !.file = f, !.ref = 1, !.reclaim = 1, !.size = disk[f]]],
             job' = [job EXCEPT ![p] = [job[p] EXCEPT !.at = "loaded", !.node = n]]
      PROVE  FilesInv' /\ Kept
  <2> DEFINE r == [OpenPart!Free EXCEPT !.file = f, !.ref = 1, !.reclaim = 1, !.size = disk[f]]
  <2>1. /\ r \in NodeRec /\ r.file = f /\ r.size = disk[f] /\ r.open = 0
        /\ r.dirty = FALSE /\ r.ref = 1 /\ r.reclaim = 1
    <3>1. disk[f] \in 0 .. MaxSize
      BY <1>1 DEF FilesInv, FilesTypes
    <3>2. OpenPart!Free \in NodeRec /\ OpenPart!Free.open = 0 /\ OpenPart!Free.dirty = FALSE
      BY ConstantsFit DEF OpenPart!Free, NodeRec
    <3>3. \A i, k \in Int : [OpenPart!Free EXCEPT !.file = f, !.ref = i, !.reclaim = k,
                                                 !.size = disk[f]] \in NodeRec
      BY <1>1, <3>1, <3>2 DEF NodeRec
    <3>4. r \in NodeRec
      <4>1. 1 \in Int
        OBVIOUS
      <4> QED BY <3>3, <4>1, Zenon
    <3> QED BY <3>2, <3>4 DEF NodeRec
  <2>2. node' = [node EXCEPT ![n] = r]
    BY <1>5
  <2> HIDE DEF r
  <2>3. leaked[n] = 0 /\ uses[n] = 0 /\ works[n] = 0 /\ leaves[n] = 0
    BY <1>5 DEF FilesInv, FreeNode
  <2>4. FilesInv'
    <3>1. /\ r.open = uses[n]
          /\ r.ref = r.open + leaked[n] + works[n] + 1
          /\ r.reclaim = leaves[n] + (IF r.ref > 0 THEN 1 ELSE 0)
          /\ ~r.dirty => disk[f] = r.size
      BY <2>1, <2>3
    <3>2. works[n] = 0 /\ \A m \in Nodes : node[m].file # f
      BY <1>5, <2>3
    <3> QED BY <1>3, <1>5, <2>1, <2>2, <3>1, <3>2
  <2>5. /\ node'[n] = r /\ \A m \in Nodes : m # n => node'[m] = node[m]
        /\ OneEach /\ OneEach'
    BY <2>2, <2>4 DEF FilesInv, FilesTypes
  <2>6. ASSUME NEW g \in Files PROVE content'[g] = content[g]
    <3>1. CASE g = f
      BY <1>1, <1>5, <2>1, <2>5, <3>1, ContentIs
    <3>2. CASE g # f /\ \A m \in Nodes : node[m].file # g
      <4>1. \A m \in Nodes : node'[m].file # g
        BY <2>1, <2>5, <3>2
      <4> QED BY <1>1, <2>5, <3>2, <4>1, ContentIs
    <3>3. ASSUME g # f, NEW m \in Nodes, node[m].file = g
          PROVE  content'[g] = content[g]
      <4>1. m # n
        BY <1>5, <3>3, ConstantsFit
      <4> QED BY <2>5, <3>3, <4>1, ContentIs
    <3> QED BY <3>1, <3>2, <3>3
  <2> QED BY <2>4, <2>6 DEF Kept
<1>6. ASSUME job' = [job EXCEPT ![p] = OpenPart!AfterFailure(p)], UNCHANGED node
      PROVE  FilesInv' /\ Kept
  <2> DEFINE j == OpenPart!AfterFailure(p)
  <2>1. j \in Jobs /\ job' = [job EXCEPT ![p] = j] /\ j.at \in {"dead", "user"}
    BY <1>6 DEF OpenPart!AfterFailure, OpenPart!Resting, Jobs, Labels
  <2> HIDE DEF j
  <2>2. JobOK(p)'
    BY <2>1 DEF JobOK, Busy, FilesInv, FilesTypes
  <2> QED BY <1>1, <1>6, <2>1, <2>2, JobOnly DEF Busy
<1> QED BY <1>4, <1>5, <1>6 DEF OpenPart!Load

-----------------------------------------------------------------------------
\* What a descriptor or an operation refers to is in memory, and counted.
LEMMA InUse ==
  ASSUME FilesInv, NEW p \in Procs, NEW n \in Nodes,
         \/ \E fd \in FdNums : table[p][fd] = n
         \/ job[p].node = n /\ job[p].at \in Busy \cup {"reclaim"}
  PROVE  /\ node[n] \in NodeRec /\ node[n].file \in Files /\ node[n].size \in 0 .. MaxSize
         /\ node[n].ref \in Int /\ node[n].open \in Int /\ node[n].reclaim \in Int
         /\ Counted(n) /\ CleanNode(n)
         /\ uses[n] \in Nat /\ works[n] \in Nat /\ leaves[n] \in Nat /\ leaked[n] \in Nat
<1>1. node[n] \in NodeRec /\ leaked[n] \in Nat
  BY DEF FilesInv, FilesTypes
<1>2. uses[n] \in Nat /\ works[n] \in Nat /\ leaves[n] \in Nat
  BY CountsNat
<1>3. node[n].file # NULL
  BY <1>2, CountsPositive DEF FilesInv, FreeNode
<1> QED BY <1>1, <1>2, <1>3 DEF FilesInv, NodeRec

\* p goes on to j.
LEMMA JobTyped ==
  ASSUME FilesInv, NEW p \in Procs, NEW j \in Jobs, j.at # "unborn",
         job' = [job EXCEPT ![p] = j]
  PROVE  /\ job' \in [Procs -> Jobs] /\ job'[p] = j /\ IsFiniteSet(Born)'
         /\ \A q \in Procs : q # p => job'[q] = job[q]
  BY JobMoves

\* What p refers to, before and after, can be n only.
LEMMA JobElsewhere ==
  ASSUME FilesInv, NEW p \in Procs, NEW j \in Jobs, j.at # "unborn",
         job' = [job EXCEPT ![p] = j], NEW n \in Nodes,
         job[p].at \in Busy \cup {"reclaim"} => job[p].node = n,
         j.at \in Busy \cup {"reclaim"} => j.node = n
  PROVE  \A m \in Nodes : m # n => works'[m] = works[m] /\ leaves'[m] = leaves[m]
<1>1. \A m \in Nodes : m # n => /\ ~Works(j, m) /\ ~Works(job[p], m)
                                /\ ~Leaves(j, m) /\ ~Leaves(job[p], m)
  BY DEF Works, Leaves
<1>2. ASSUME NEW m \in Nodes, m # n PROVE works'[m] = works[m] /\ leaves'[m] = leaves[m]
  BY <1>1, <1>2, JobMoves, ZenonT(30)
<1> QED BY <1>2

\* What p is counted as for n before and after says how the counts of n change.
LEMMA JobMovesAt ==
  ASSUME FilesInv, NEW p \in Procs, NEW j \in Jobs, j.at # "unborn",
         job' = [job EXCEPT ![p] = j], NEW n \in Nodes,
         job[p].at \in Busy \cup {"reclaim"} => job[p].node = n,
         j.at \in Busy \cup {"reclaim"} => j.node = n
  PROVE  /\ (j.at \in Busy <=> job[p].at \in Busy) => works'[n] = works[n]
         /\ j.at \in Busy /\ job[p].at \notin Busy => works'[n] = works[n] + 1
         /\ j.at \notin Busy /\ job[p].at \in Busy => works'[n] = works[n] - 1
         /\ (j.at = "reclaim" <=> job[p].at = "reclaim") => leaves'[n] = leaves[n]
         /\ j.at = "reclaim" /\ job[p].at # "reclaim" => leaves'[n] = leaves[n] + 1
         /\ j.at # "reclaim" /\ job[p].at = "reclaim" => leaves'[n] = leaves[n] - 1
<1>1. /\ Works(j, n) <=> j.at \in Busy
      /\ Works(job[p], n) <=> job[p].at \in Busy
      /\ Leaves(j, n) <=> j.at = "reclaim"
      /\ Leaves(job[p], n) <=> job[p].at = "reclaim"
  BY DEF Works, Leaves
<1> QED BY <1>1, JobMoves, ZenonT(30)

\* Only the size of n may change.
LEMMA ContentAt ==
  ASSUME FilesInv, FilesInv', NEW n \in Nodes, NEW r \in NodeRec, NEW f \in Files, node[n].file = f,
         node' = [node EXCEPT ![n] = r], r.file = f,
         \A g \in Files : g # f => disk'[g] = disk[g]
  PROVE  /\ content[f] = node[n].size
         /\ content'[f] = r.size
         /\ \A g \in Files : g # f => content'[g] = content[g]
<1>1. /\ node'[n] = r /\ \A m \in Nodes : m # n => node'[m] = node[m]
      /\ OneEach /\ OneEach'
  BY DEF FilesInv, FilesTypes
<1>2. content[f] = node[n].size /\ content'[f] = node'[n].size
  BY <1>1, ContentIs
<1>3. ASSUME NEW g \in Files, g # f PROVE content'[g] = content[g]
  <2>1. CASE \A m \in Nodes : node[m].file # g
    <3>1. \A m \in Nodes : node'[m].file # g
      BY <1>1, <1>3, <2>1
    <3> QED BY <1>1, <1>3, <2>1, <3>1, ContentIs
  <2>2. ASSUME NEW m \in Nodes, node[m].file = g
        PROVE  content'[g] = content[g]
    <3>1. m # n
      BY <1>3, <2>2
    <3> QED BY <1>1, <2>2, <3>1, ContentIs
  <2> QED BY <2>1, <2>2
<1> QED BY <1>1, <1>2, <1>3

-----------------------------------------------------------------------------
\* vfs_open(): the reference of the lookup is lost, and counted as such.
LEMMA OpenFails ==
  ASSUME FilesInv, NEW p \in Procs, OpenPart!OpenExcl(p)
  PROVE  FilesInv' /\ Kept
<1>1. PICK n \in Nodes : n = job[p].node
  BY DEF OpenPart!OpenExcl, OpenPart!At, FilesInv, JobOK, Busy
<1>2. PICK j \in Jobs : j = OpenPart!AfterFailure(p)
  <2>1. OpenPart!AfterFailure(p) \in Jobs
    BY DEF OpenPart!AfterFailure, OpenPart!Resting, Jobs, Labels
  <2> QED BY <2>1
<1>3. /\ job[p] \in Jobs /\ job[p].at = "loaded" /\ ~down /\ j.at \in {"dead", "user"}
      /\ leaked' = [leaked EXCEPT ![n] = leaked[n] + 1]
      /\ job' = [job EXCEPT ![p] = j] /\ UNCHANGED <<node, disk, table, down>>
  BY <1>1, <1>2 DEF OpenPart!OpenExcl, OpenPart!At, OpenPart!Go, OpenPart!AfterFailure,
    OpenPart!Resting, FilesInv, FilesTypes
<1>4. /\ node[n] \in NodeRec /\ node[n].file \in Files /\ Counted(n) /\ CleanNode(n)
      /\ node[n].ref \in Int /\ node[n].open \in Int
      /\ uses[n] \in Nat /\ works[n] \in Nat /\ leaves[n] \in Nat /\ leaked[n] \in Nat
  BY <1>3, <1>1, InUse DEF Busy
<1>5. /\ job' \in [Procs -> Jobs] /\ job'[p] = j /\ IsFiniteSet(Born)'
      /\ \A q \in Procs : q # p => job'[q] = job[q]
      /\ \A m \in Nodes : m # n => works'[m] = works[m] /\ leaves'[m] = leaves[m]
      /\ works'[n] = works[n] - 1 /\ leaves'[n] = leaves[n]
  <2>1. /\ j.at # "unborn" /\ j.at \notin Busy /\ j.at # "reclaim"
        /\ job[p].at \in Busy /\ job[p].at # "reclaim" /\ job[p].node = n
    BY <1>3, <1>1 DEF Busy
  <2>3. /\ job' \in [Procs -> Jobs] /\ job'[p] = j /\ IsFiniteSet(Born)'
        /\ \A q \in Procs : q # p => job'[q] = job[q]
    BY <1>3, <2>1, JobTyped
  <2>4. \A m \in Nodes : m # n => works'[m] = works[m] /\ leaves'[m] = leaves[m]
    BY <1>3, <2>1, JobElsewhere
  <2>5. works'[n] = works[n] - 1
    BY <1>3, <2>1, JobMovesAt
  <2>6. leaves'[n] = leaves[n]
    BY <1>3, <2>1, JobMovesAt
  <2> QED BY <2>3, <2>4, <2>5, <2>6
<1>6. uses' = uses
  BY <1>3 DEF uses, OpenPart!Named
<1>7. /\ leaked' \in [Nodes -> Nat] /\ leaked'[n] = leaked[n] + 1
      /\ \A m \in Nodes : m # n => leaked'[m] = leaked[m]
  BY <1>3, <1>4 DEF FilesInv, FilesTypes
<1>8. Counted(n)' /\ FreeNode(n)' /\ CleanNode(n)'
  <2>1. Counted(n)'
    BY <1>3, <1>4, <1>5, <1>6, <1>7 DEF Counted
  <2> QED BY <1>3, <1>4, <2>1, ConstantsFit DEF FreeNode, CleanNode
<1>9. JobOK(p)'
  BY <1>3, <1>5 DEF JobOK, Busy
<1>10. FilesInv'
  <2>1. /\ node' = [node EXCEPT ![n] = node[n]]
        /\ table' \in [Procs -> [FdNums -> Nodes \cup {NULL}]]
        /\ disk' \in [Files -> 0 .. MaxSize]
    BY <1>3 DEF FilesInv, FilesTypes
  <2>2. \A m \in Nodes : m # n => /\ uses'[m] = uses[m] /\ works'[m] = works[m]
                                  /\ leaves'[m] = leaves[m] /\ leaked'[m] = leaked[m]
                                  /\ node[m].file # NULL =>
                                       disk'[node[m].file] = disk[node[m].file]
    BY <1>3, <1>5, <1>6, <1>7
  <2>3. \A q \in Procs : q # p => table'[q] = table[q]
    BY <1>3
  <2>4. down' = down
    BY <1>3
  <2> QED BY <1>3, <1>4, <1>5, <1>7, <1>8, <1>9, <2>1, <2>2, <2>3, <2>4, NodeMoves
<1> QED BY <1>3, <1>10, ContentStays

\* r agrees with what is counted for n, and if clean with the disk, behind a step
\* that leaks nothing.
Agrees(r, n, f) ==
  /\ r.open = uses'[n] /\ r.ref = r.open + leaked[n] + works'[n]
  /\ r.reclaim = leaves'[n] + (IF r.ref > 0 THEN 1 ELSE 0)
  /\ ~r.dirty => disk'[f] = r.size

\* Memory n, in use for file f, becomes r, and is still in use for f.
LEMMA StepAt ==
  ASSUME FilesInv, NEW p \in Procs, NEW n \in Nodes, NEW r \in NodeRec, NEW f \in Files,
         ~down, down' = down, node' = [node EXCEPT ![n] = r], node[n].file = f, r.file = f,
         job' \in [Procs -> Jobs], IsFiniteSet(Born)',
         \A q \in Procs : q # p => job'[q] = job[q],
         table' \in [Procs -> [FdNums -> Nodes \cup {NULL}]],
         \A q \in Procs : q # p => table'[q] = table[q],
         leaked' = leaked, disk' \in [Files -> 0 .. MaxSize],
         \A g \in Files : g # f => disk'[g] = disk[g],
         \A m \in Nodes : m # n => /\ uses'[m] = uses[m] /\ works'[m] = works[m]
                                   /\ leaves'[m] = leaves[m],
         Agrees(r, n, f), JobOK(p)'
  PROVE  /\ FilesInv'
         /\ content[f] = node[n].size /\ content'[f] = r.size
         /\ \A g \in Files : g # f => content'[g] = content[g]
<1>1. node'[n] = r
  BY DEF FilesInv, FilesTypes
<1>2. Counted(n)' /\ FreeNode(n)' /\ CleanNode(n)'
  BY <1>1, ConstantsFit DEF Agrees, Counted, FreeNode, CleanNode
<1>3. leaked' \in [Nodes -> Nat]
  BY DEF FilesInv, FilesTypes
<1>4. \A m \in Nodes : m # n => /\ uses'[m] = uses[m] /\ works'[m] = works[m]
                                /\ leaves'[m] = leaves[m] /\ leaked'[m] = leaked[m]
                                /\ node[m].file # NULL =>
                                     disk'[node[m].file] = disk[node[m].file]
  <2>1. ASSUME NEW m \in Nodes, m # n, node[m].file # NULL
        PROVE  node[m].file \in Files /\ node[m].file # f
    BY <2>1 DEF FilesInv, FilesTypes, NodeRec, OneEach
  <2> QED BY <2>1
<1>5. r.file = node[n].file
  OBVIOUS
<1>6. FilesInv'
  BY <1>2, <1>3, <1>4, <1>5, NodeMoves
<1> QED BY <1>6, ContentAt

\* There is a lowest free descriptor.
LEMMA LowestFree ==
  ASSUME FilesInv, NEW p \in Procs, \E fd \in FdNums : table[p][fd] = NULL
  PROVE  OpenPart!FreeFd(p) \in FdNums /\ table[p][OpenPart!FreeFd(p)] = NULL
<1> DEFINE T == {fd \in FdNums : table[p][fd] = NULL}
<1>1. T \subseteq Nat /\ T # {}
  BY ConstantsFit DEF FdNums
<1>2. PICK x \in T : \A y \in T : <<y, x>> \notin OpToRel(<, Nat)
  BY <1>1, WFMin, NatLessThanWellFounded, Zenon
<1>3. \A y \in T : ~(y < x)
  BY <1>1, <1>2, Zenon DEF OpToRel
<1>4. x \in FdNums /\ \A e \in 0 .. x - 1 : e \in FdNums /\ e < x
  BY ConstantsFit DEF FdNums
<1>5. x \in FdNums /\ table[p][x] = NULL /\ \A e \in 0 .. x - 1 : table[p][e] # NULL
  BY <1>3, <1>4
<1> QED BY <1>5 DEF OpenPart!FreeFd, OpenPart!FdNums, FdNums

\* vfs_open() and file_open(): the operation's reference becomes the descriptor's.
LEMMA OpenEnds ==
  ASSUME FilesInv, NEW p \in Procs, OpenPart!OpenDone(p)
  PROVE  FilesInv' /\ Kept
<1>1. PICK n \in Nodes : n = job[p].node
  BY DEF OpenPart!OpenDone, OpenPart!At, FilesInv, JobOK, Busy
<1>2. PICK fd \in FdNums : fd = OpenPart!FreeFd(p) /\ table[p][fd] = NULL
  BY LowestFree DEF OpenPart!OpenDone, OpenPart!At, FilesInv, JobOK
<1>3. PICK j \in Jobs : j = [OpenPart!Resting(job[p].then) EXCEPT !.fd =
                                 IF job[p].then = "image" THEN OpenPart!FreeFd(p) ELSE 0]
  <2>1. job[p].then \in Labels /\ fd \in Int /\ 0 \in Int
    BY ConstantsFit DEF FilesInv, FilesTypes, Jobs, FdNums
  <2>2. OpenPart!Resting(job[p].then) \in Jobs
    BY <2>1 DEF OpenPart!Resting, Jobs
  <2>3. \A i \in Int : [OpenPart!Resting(job[p].then) EXCEPT !.fd = i] \in Jobs
    BY <2>2 DEF Jobs
  <2>4. (IF job[p].then = "image" THEN OpenPart!FreeFd(p) ELSE 0) \in Int
    BY <1>2, <2>1
  <2> QED BY <2>3, <2>4, Zenon
<1>4. /\ job[p] \in Jobs /\ job[p].at = "loaded" /\ ~down
      /\ job[p].then \in {"user", "image"} /\ job[p].file = node[n].file
      /\ table' = [table EXCEPT ![p][fd] = n]
      /\ job' = [job EXCEPT ![p] = j] /\ UNCHANGED <<disk, leaked, down>>
  BY <1>1, <1>2, <1>3
  DEF OpenPart!OpenDone, OpenPart!At, OpenPart!Go, FilesInv, FilesTypes, JobOK
<1>5. j.at = job[p].then /\ (j.at = "image" => j.fd = fd)
  <2>1. OpenPart!Resting(job[p].then) \in Jobs /\ OpenPart!Resting(job[p].then).at = job[p].then
    BY <1>4 DEF OpenPart!Resting, Jobs
  <2> QED BY <1>2, <1>3, <2>1 DEF Jobs
<1>6. /\ node[n] \in NodeRec /\ node[n].file \in Files /\ node[n].size \in 0 .. MaxSize
      /\ node[n].ref \in Int /\ node[n].open \in Int /\ node[n].reclaim \in Int
      /\ Counted(n) /\ CleanNode(n)
      /\ uses[n] \in Nat /\ works[n] \in Nat /\ leaves[n] \in Nat /\ leaked[n] \in Nat
  BY <1>1, <1>4, InUse DEF Busy
<1> DEFINE cut == job[p].how = "trunc" /\ node[n].size # 0
<1>7. PICK r \in NodeRec :
        /\ node' = [node EXCEPT ![n] = r] /\ r.file = node[n].file
        /\ r.ref = node[n].ref /\ r.open = node[n].open + 1 /\ r.reclaim = node[n].reclaim
        /\ cut => r.size = 0 /\ r.dirty
        /\ ~cut => r.size = node[n].size /\ r.dirty = node[n].dirty
  <2>1. PICK o \in Int : o = node[n].open + 1
    BY <1>6
  <2>2. PICK z \in 0 .. MaxSize : z = IF cut THEN 0 ELSE node[n].size
    BY <1>6, ConstantsFit
  <2>3. PICK d \in BOOLEAN : d = (node[n].dirty \/ cut)
    BY Zenon
  <2> DEFINE r == [node[n] EXCEPT !.open = o, !.size = z, !.dirty = d]
  <2>4. /\ r \in NodeRec /\ r.file = node[n].file /\ r.ref = node[n].ref
        /\ r.open = o /\ r.reclaim = node[n].reclaim /\ r.size = z /\ r.dirty = d
    BY <1>6 DEF NodeRec
  <2>5. node' = [node EXCEPT ![n] = r]
    BY <1>1, <2>1, <2>2, <2>3, Zenon DEF OpenPart!OpenDone
  <2> HIDE DEF r
  <2>6. cut => d = TRUE
    BY <2>3
  <2>7. ~cut => d = node[n].dirty
    BY <1>6, <2>3 DEF NodeRec
  <2> QED BY <2>1, <2>2, <2>4, <2>5, <2>6, <2>7
<1>8. /\ job' \in [Procs -> Jobs] /\ job'[p] = j /\ IsFiniteSet(Born)'
      /\ \A q \in Procs : q # p => job'[q] = job[q]
      /\ \A m \in Nodes : m # n => works'[m] = works[m] /\ leaves'[m] = leaves[m]
      /\ works'[n] = works[n] - 1 /\ leaves'[n] = leaves[n]
  <2>1. /\ j.at # "unborn" /\ j.at \notin Busy /\ j.at # "reclaim"
        /\ job[p].at \in Busy /\ job[p].at # "reclaim" /\ job[p].node = n
    BY <1>1, <1>4, <1>5 DEF Busy
  <2>3. /\ job' \in [Procs -> Jobs] /\ job'[p] = j /\ IsFiniteSet(Born)'
        /\ \A q \in Procs : q # p => job'[q] = job[q]
    BY <1>4, <2>1, JobTyped
  <2>4. \A m \in Nodes : m # n => works'[m] = works[m] /\ leaves'[m] = leaves[m]
    BY <1>4, <2>1, JobElsewhere
  <2>5. works'[n] = works[n] - 1
    BY <1>4, <2>1, JobMovesAt
  <2>6. leaves'[n] = leaves[n]
    BY <1>4, <2>1, JobMovesAt
  <2> QED BY <2>3, <2>4, <2>5, <2>6
<1>9. /\ table' \in [Procs -> [FdNums -> Nodes \cup {NULL}]]
      /\ \A q \in Procs : q # p => table'[q] = table[q]
      /\ \A m \in Nodes : m # n => uses'[m] = uses[m]
      /\ uses'[n] = uses[n] + 1
  BY <1>2, <1>4, DescriptorFilled
<1>10. Agrees(r, n, node[n].file)
  <2>1. /\ node[n].open = uses[n] /\ node[n].ref = node[n].open + leaked[n] + works[n]
        /\ node[n].reclaim = leaves[n] + (IF node[n].ref > 0 THEN 1 ELSE 0)
    BY <1>6 DEF Counted
  <2>2. ~r.dirty => disk'[node[n].file] = r.size
    BY <1>4, <1>6, <1>7, ConstantsFit DEF CleanNode
  <2>3. /\ r.open = uses'[n] /\ r.ref = r.open + leaked[n] + works'[n]
        /\ r.reclaim = leaves'[n] + (IF r.ref > 0 THEN 1 ELSE 0)
    <3>1. r.open = node[n].open + 1 /\ r.ref = node[n].ref /\ r.reclaim = node[n].reclaim
      BY <1>7
    <3> QED BY <1>6, <1>8, <1>9, <2>1, <3>1
  <2> QED BY <2>2, <2>3 DEF Agrees
<1>11. JobOK(p)'
  BY <1>4, <1>5, <1>8 DEF JobOK, Busy
<1>12. PICK f \in Files : f = node[n].file
  BY <1>6
<1>13. /\ FilesInv'
       /\ content[f] = node[n].size /\ content'[f] = r.size
       /\ \A g \in Files : g # f => content'[g] = content[g]
  <2>1. /\ disk' \in [Files -> 0 .. MaxSize] /\ leaked' = leaked /\ down' = down
        /\ \A g \in Files : g # f => disk'[g] = disk[g]
    BY <1>4 DEF FilesInv, FilesTypes
  <2>2. node[n].file = f /\ r.file = f /\ Agrees(r, n, f)
    BY <1>7, <1>10, <1>12
  <2>3. \A m \in Nodes : m # n => /\ uses'[m] = uses[m] /\ works'[m] = works[m]
                                  /\ leaves'[m] = leaves[m]
    BY <1>8, <1>9
  <2>4. ~down /\ node' = [node EXCEPT ![n] = r]
    BY <1>4, <1>7
  <2> QED BY <1>8, <1>9, <1>11, <2>1, <2>2, <2>3, <2>4, StepAt
<1>14. cut => OpenPart!Cut(f)
  BY <1>4, <1>5, <1>8, <1>12 DEF OpenPart!Cut
<1> QED BY <1>6, <1>7, <1>13, <1>14 DEF Kept

\* vfs_close(): the descriptor's reference becomes the operation's.
LEMMA Closes ==
  ASSUME FilesInv, NEW p \in Procs, NEW fd \in FdNums, NEW then \in {"user", "exec"}, ~down,
         job[p].at \in {"user", "exec", "image"}, then # "user" => job[p].file \in Files,
         OpenPart!CloseFd(p, fd, then)
  PROVE  FilesInv' /\ Kept
<1>1. PICK n \in Nodes : n = table[p][fd]
  BY DEF OpenPart!CloseFd, FilesInv, FilesTypes
<1>2. /\ node[n] \in NodeRec /\ node[n].file \in Files /\ node[n].size \in 0 .. MaxSize
      /\ node[n].ref \in Int /\ node[n].open \in Int /\ node[n].reclaim \in Int
      /\ Counted(n) /\ CleanNode(n)
      /\ uses[n] \in Nat /\ works[n] \in Nat /\ leaves[n] \in Nat /\ leaked[n] \in Nat
  BY <1>1, InUse
<1>3. PICK j \in Jobs :
        /\ job' = [job EXCEPT ![p] = j] /\ j.at \in {"sync", "drop"} /\ j.node = n
        /\ j.then = then /\ j.file = job[p].file
  <2>1. PICK l \in {"sync", "drop"} : l = IF node[n].open = 1 THEN "sync" ELSE "drop"
    OBVIOUS
  <2>2. l \in Labels /\ then \in Labels /\ 0 \in Int /\ job[p] \in Jobs
    BY DEF Labels, FilesInv, FilesTypes
  <2> DEFINE j == [job[p] EXCEPT !.at = l, !.node = n, !.fd = 0, !.then = then]
  <2>3. job' = [job EXCEPT ![p] = j]
    BY <1>1, <2>1, Zenon DEF OpenPart!CloseFd, OpenPart!Go
  <2>4. j \in Jobs
    <3>1. \A i \in Int : [job[p] EXCEPT !.at = l, !.node = n, !.fd = i, !.then = then] \in Jobs
      BY <2>2 DEF Jobs
    <3> QED BY <2>2, <3>1
  <2>5. j.at = l /\ j.node = n /\ j.then = then /\ j.file = job[p].file
    BY <2>2 DEF Jobs
  <2> HIDE DEF j
  <2> QED BY <2>3, <2>4, <2>5
<1>4. /\ table' = [table EXCEPT ![p][fd] = NULL] /\ UNCHANGED <<disk, leaked, down>>
  BY DEF OpenPart!CloseFd
<1>5. PICK r \in NodeRec :
        /\ node' = [node EXCEPT ![n] = r] /\ r.file = node[n].file
        /\ r.ref = node[n].ref /\ r.open = node[n].open - 1 /\ r.reclaim = node[n].reclaim
        /\ r.size = node[n].size /\ r.dirty = node[n].dirty
  <2>1. PICK o \in Int : o = node[n].open - 1
    BY <1>2
  <2> DEFINE r == [node[n] EXCEPT !.open = o]
  <2>2. r \in NodeRec /\ r.file = node[n].file /\ r.ref = node[n].ref /\ r.open = o
        /\ r.reclaim = node[n].reclaim /\ r.size = node[n].size /\ r.dirty = node[n].dirty
    BY <1>2 DEF NodeRec
  <2>3. node' = [node EXCEPT ![n] = r]
    BY <1>1, <2>1, Zenon DEF OpenPart!CloseFd
  <2> HIDE DEF r
  <2> QED BY <2>1, <2>2, <2>3
<1>6. /\ job' \in [Procs -> Jobs] /\ job'[p] = j /\ IsFiniteSet(Born)'
      /\ \A q \in Procs : q # p => job'[q] = job[q]
      /\ \A m \in Nodes : m # n => works'[m] = works[m] /\ leaves'[m] = leaves[m]
      /\ works'[n] = works[n] + 1 /\ leaves'[n] = leaves[n]
  <2>1. /\ j.at # "unborn" /\ j.at \in Busy /\ j.at # "reclaim"
        /\ job[p].at \notin Busy /\ job[p].at # "reclaim"
        /\ job[p].at \in Busy \cup {"reclaim"} => job[p].node = n
        /\ j.at \in Busy \cup {"reclaim"} => j.node = n
    BY <1>3 DEF Busy
  <2>2. job' = [job EXCEPT ![p] = j]
    BY <1>3
  <2>3. /\ job' \in [Procs -> Jobs] /\ job'[p] = j /\ IsFiniteSet(Born)'
        /\ \A q \in Procs : q # p => job'[q] = job[q]
    BY <2>1, <2>2, JobTyped
  <2>4. \A m \in Nodes : m # n => works'[m] = works[m] /\ leaves'[m] = leaves[m]
    BY <2>1, <2>2, JobElsewhere
  <2>5. works'[n] = works[n] + 1
    BY <2>1, <2>2, JobMovesAt
  <2>6. leaves'[n] = leaves[n]
    BY <2>1, <2>2, JobMovesAt
  <2> QED BY <2>3, <2>4, <2>5, <2>6
<1>7. /\ table' \in [Procs -> [FdNums -> Nodes \cup {NULL}]]
      /\ \A q \in Procs : q # p => table'[q] = table[q]
      /\ \A m \in Nodes : m # n => uses'[m] = uses[m]
      /\ uses'[n] = uses[n] - 1
  <2>1. table[p][fd] = n /\ table' = [table EXCEPT ![p][fd] = NULL]
    BY <1>1, <1>4
  <2>2. /\ \A m \in Nodes : m # n => uses'[m] = uses[m]
        /\ uses'[n] = uses[n] - 1
    BY <2>1, DescriptorFreed
  <2> QED BY <2>1, <2>2, TableTyped
<1>8. Agrees(r, n, node[n].file)
  <2>1. /\ node[n].open = uses[n] /\ node[n].ref = node[n].open + leaked[n] + works[n]
        /\ node[n].reclaim = leaves[n] + (IF node[n].ref > 0 THEN 1 ELSE 0)
    BY <1>2 DEF Counted
  <2>2. ~r.dirty => disk'[node[n].file] = r.size
    BY <1>2, <1>4, <1>5, ConstantsFit DEF CleanNode
  <2>3. /\ r.open = uses'[n] /\ r.ref = r.open + leaked[n] + works'[n]
        /\ r.reclaim = leaves'[n] + (IF r.ref > 0 THEN 1 ELSE 0)
    BY <1>2, <1>5, <1>6, <1>7, <2>1
  <2> QED BY <2>2, <2>3 DEF Agrees
<1>9. JobOK(p)'
  BY <1>3, <1>6 DEF JobOK, Busy
<1>10. PICK f \in Files : f = node[n].file
  BY <1>2
<1>11. /\ FilesInv' /\ content[f] = node[n].size /\ content'[f] = r.size
       /\ \A g \in Files : g # f => content'[g] = content[g]
  <2>1. /\ disk' \in [Files -> 0 .. MaxSize] /\ leaked' = leaked /\ down' = down
        /\ \A g \in Files : g # f => disk'[g] = disk[g]
    BY <1>4 DEF FilesInv, FilesTypes
  <2>2. node[n].file = f /\ r.file = f /\ Agrees(r, n, f)
    BY <1>5, <1>8, <1>10
  <2>3. \A m \in Nodes : m # n => /\ uses'[m] = uses[m] /\ works'[m] = works[m]
                                  /\ leaves'[m] = leaves[m]
    BY <1>6, <1>7
  <2> QED BY <1>5, <1>6, <1>7, <1>9, <2>1, <2>2, <2>3, StepAt
<1> QED BY <1>5, <1>11 DEF Kept

\* Where a process goes on after a close.
LEMMA BackOK ==
  ASSUME FilesInv, NEW p \in Procs, job[p].at \in {"drop", "reclaim"}
  PROVE  /\ OpenPart!Back(p) \in Jobs /\ OpenPart!Back(p).at \in {"user", "exec"}
         /\ OpenPart!Back(p).at = "exec" => OpenPart!Back(p).file \in Files
<1>1. job[p] \in Jobs /\ (job[p].then # "user" => job[p].file \in Files)
  BY DEF FilesInv, FilesTypes, JobOK
<1>2. CASE job[p].then = "user"
  BY <1>2 DEF OpenPart!Back, OpenPart!Resting, Jobs, Labels
<1>3. CASE job[p].then # "user"
  <2> DEFINE j == [job[p] EXCEPT !.at = "exec", !.node = NULL]
  <2>1. "exec" \in Labels
    BY DEF Labels
  <2>2. j \in Jobs /\ j.at = "exec" /\ j.file = job[p].file
    BY <1>1, <2>1 DEF Jobs
  <2> HIDE DEF j
  <2>3. OpenPart!Back(p) = j
    BY <1>3 DEF OpenPart!Back, j
  <2> QED BY <1>1, <1>3, <2>2, <2>3
<1> QED BY <1>2, <1>3

\* What sfs_fsync() does to memory in use for f.
LEMMA SyncedIs ==
  ASSUME FilesInv, NEW n \in Nodes, NEW f \in Files, node[n].file = f, OpenPart!Synced(n)
  PROVE  /\ \E r \in NodeRec :
              /\ node' = [node EXCEPT ![n] = r] /\ r.file = f /\ r.size = node[n].size
              /\ r.ref = node[n].ref /\ r.open = node[n].open /\ r.reclaim = node[n].reclaim
         /\ disk' \in [Files -> 0 .. MaxSize] /\ disk'[f] = node[n].size
         /\ \A g \in Files : g # f => disk'[g] = disk[g]
<1>1. node[n] \in NodeRec /\ node[n].size \in 0 .. MaxSize /\ CleanNode(n)
  BY DEF FilesInv, FilesTypes, NodeRec
<1> DEFINE r == [node[n] EXCEPT !.dirty = FALSE]
<1>2. /\ r \in NodeRec /\ node' = [node EXCEPT ![n] = r] /\ r.file = f
      /\ r.size = node[n].size /\ r.ref = node[n].ref /\ r.open = node[n].open
      /\ r.reclaim = node[n].reclaim
  BY <1>1 DEF NodeRec, OpenPart!Synced
<1> HIDE DEF r
<1>3. CASE node[n].dirty
  <2>1. disk' = [disk EXCEPT ![f] = node[n].size]
    BY <1>3 DEF OpenPart!Synced
  <2>2. /\ disk' \in [Files -> 0 .. MaxSize] /\ disk'[f] = node[n].size
        /\ \A g \in Files : g # f => disk'[g] = disk[g]
    BY <1>1, <2>1 DEF FilesInv, FilesTypes
  <2> QED BY <1>2, <2>2
<1>4. CASE ~node[n].dirty
  <2>1. disk' = disk
    BY <1>4 DEF OpenPart!Synced
  <2>2. /\ disk' \in [Files -> 0 .. MaxSize] /\ disk'[f] = node[n].size
        /\ \A g \in Files : g # f => disk'[g] = disk[g]
    BY <1>1, <1>4, <2>1, ConstantsFit DEF FilesInv, FilesTypes, CleanNode
  <2> QED BY <1>2, <2>2
<1> QED BY <1>3, <1>4

\* sfs_close().
LEMMA Syncs ==
  ASSUME FilesInv, NEW p \in Procs, OpenPart!Sync(p)
  PROVE  FilesInv' /\ Kept
<1>1. PICK n \in Nodes : n = job[p].node
  BY DEF OpenPart!Sync, OpenPart!At, FilesInv, JobOK, Busy
<1>2. /\ job[p] \in Jobs /\ job[p].at = "sync" /\ ~down /\ OpenPart!Synced(n)
      /\ job' = [job EXCEPT ![p] = [job[p] EXCEPT !.at = "drop"]]
      /\ UNCHANGED <<table, leaked, down>>
      /\ job[p].then # "user" => job[p].file \in Files
  BY <1>1 DEF OpenPart!Sync, OpenPart!At, OpenPart!Go, FilesInv, FilesTypes, JobOK
<1>3. PICK j \in Jobs : /\ job' = [job EXCEPT ![p] = j] /\ j.at = "drop" /\ j.node = n
                        /\ j.then = job[p].then /\ j.file = job[p].file
  <2> DEFINE j == [job[p] EXCEPT !.at = "drop"]
  <2>1. "drop" \in Labels
    BY DEF Labels
  <2>2. j \in Jobs /\ j.at = "drop" /\ j.node = n /\ j.then = job[p].then /\ j.file = job[p].file
    BY <1>1, <1>2, <2>1 DEF Jobs
  <2> HIDE DEF j
  <2>3. job' = [job EXCEPT ![p] = j]
    BY <1>2 DEF j
  <2> QED BY <2>2, <2>3
<1>4. /\ node[n] \in NodeRec /\ node[n].file \in Files /\ node[n].size \in 0 .. MaxSize
      /\ node[n].ref \in Int /\ node[n].open \in Int /\ node[n].reclaim \in Int
      /\ Counted(n) /\ CleanNode(n)
      /\ uses[n] \in Nat /\ works[n] \in Nat /\ leaves[n] \in Nat /\ leaked[n] \in Nat
  BY <1>1, <1>2, InUse DEF Busy
<1>5. PICK f \in Files : f = node[n].file
  BY <1>4
<1>6. /\ disk' \in [Files -> 0 .. MaxSize] /\ disk'[f] = node[n].size
      /\ \A g \in Files : g # f => disk'[g] = disk[g]
  BY <1>2, <1>5, SyncedIs
<1>7. PICK r \in NodeRec :
        /\ node' = [node EXCEPT ![n] = r] /\ r.file = f /\ r.size = node[n].size
        /\ r.ref = node[n].ref /\ r.open = node[n].open /\ r.reclaim = node[n].reclaim
  BY <1>2, <1>5, SyncedIs
<1>8. /\ job' \in [Procs -> Jobs] /\ job'[p] = j /\ IsFiniteSet(Born)'
      /\ \A q \in Procs : q # p => job'[q] = job[q]
      /\ \A m \in Nodes : m # n => works'[m] = works[m] /\ leaves'[m] = leaves[m]
      /\ works'[n] = works[n] /\ leaves'[n] = leaves[n]
  <2>1. /\ j.at # "unborn" /\ j.at \in Busy /\ j.at # "reclaim"
        /\ job[p].at \in Busy /\ job[p].at # "reclaim"
        /\ job[p].at \in Busy \cup {"reclaim"} => job[p].node = n
        /\ j.at \in Busy \cup {"reclaim"} => j.node = n
    BY <1>1, <1>2, <1>3 DEF Busy
  <2>2. job' = [job EXCEPT ![p] = j]
    BY <1>3
  <2>3. /\ job' \in [Procs -> Jobs] /\ job'[p] = j /\ IsFiniteSet(Born)'
        /\ \A q \in Procs : q # p => job'[q] = job[q]
    BY <2>1, <2>2, JobTyped
  <2>4. \A m \in Nodes : m # n => works'[m] = works[m] /\ leaves'[m] = leaves[m]
    BY <2>1, <2>2, JobElsewhere
  <2>5. works'[n] = works[n] /\ leaves'[n] = leaves[n]
    BY <2>1, <2>2, JobMovesAt
  <2> QED BY <2>3, <2>4, <2>5
<1>9. uses' = uses
  BY <1>2 DEF uses, OpenPart!Named
<1>10. Agrees(r, n, f)
  <2>1. /\ node[n].open = uses[n] /\ node[n].ref = node[n].open + leaked[n] + works[n]
        /\ node[n].reclaim = leaves[n] + (IF node[n].ref > 0 THEN 1 ELSE 0)
    BY <1>4 DEF Counted
  <2>2. disk'[f] = r.size
    BY <1>6, <1>7
  <2>3. /\ r.open = uses'[n] /\ r.ref = r.open + leaked[n] + works'[n]
        /\ r.reclaim = leaves'[n] + (IF r.ref > 0 THEN 1 ELSE 0)
    BY <1>4, <1>7, <1>8, <1>9, <2>1
  <2> QED BY <2>2, <2>3 DEF Agrees
<1>11. JobOK(p)'
  BY <1>2, <1>3, <1>8 DEF JobOK, Busy
<1>12. /\ FilesInv' /\ content[f] = node[n].size /\ content'[f] = r.size
       /\ \A g \in Files : g # f => content'[g] = content[g]
  <2>1. /\ leaked' = leaked /\ down' = down /\ ~down
        /\ table' \in [Procs -> [FdNums -> Nodes \cup {NULL}]]
        /\ \A q \in Procs : q # p => table'[q] = table[q]
    BY <1>2 DEF FilesInv, FilesTypes
  <2>2. \A m \in Nodes : m # n => /\ uses'[m] = uses[m] /\ works'[m] = works[m]
                                  /\ leaves'[m] = leaves[m]
    BY <1>8, <1>9
  <2>3. node[n].file = f
    BY <1>5
  <2> QED BY <1>6, <1>7, <1>8, <1>10, <1>11, <2>1, <2>2, <2>3, StepAt
<1> QED BY <1>7, <1>12 DEF Kept

\* inode_ref_dec(): who gives the last reference back has to reclaim.
LEMMA Drops ==
  ASSUME FilesInv, NEW p \in Procs, OpenPart!Drop(p)
  PROVE  FilesInv' /\ Kept
<1>1. PICK n \in Nodes : n = job[p].node
  BY DEF OpenPart!Drop, OpenPart!At, FilesInv, JobOK, Busy
<1>2. /\ job[p] \in Jobs /\ job[p].at = "drop" /\ ~down
      /\ node' = [node EXCEPT ![n].ref = @ - 1]
      /\ job' = [job EXCEPT ![p] = IF node[n].ref = 1 THEN [job[p] EXCEPT !.at = "reclaim"]
                                   ELSE OpenPart!Back(p)]
      /\ UNCHANGED <<disk, table, leaked, down>>
      /\ job[p].then # "user" => job[p].file \in Files
  BY <1>1 DEF OpenPart!Drop, OpenPart!At, OpenPart!Go, FilesInv, FilesTypes, JobOK
<1>3. PICK j \in Jobs :
        /\ job' = [job EXCEPT ![p] = j] /\ j.at \in {"reclaim", "user", "exec"}
        /\ j.at = "reclaim" <=> node[n].ref = 1
        /\ j.at = "reclaim" => /\ j.node = n /\ j.then = job[p].then /\ j.file = job[p].file
        /\ j.at = "exec" => j.file \in Files
  <2>1. CASE node[n].ref = 1
    <3> DEFINE j == [job[p] EXCEPT !.at = "reclaim"]
    <3>1. "reclaim" \in Labels
      BY DEF Labels
    <3>2. /\ j \in Jobs /\ j.at = "reclaim" /\ j.node = n /\ j.then = job[p].then
          /\ j.file = job[p].file
      BY <1>1, <1>2, <3>1 DEF Jobs
    <3> HIDE DEF j
    <3>3. job' = [job EXCEPT ![p] = j]
      BY <1>2, <2>1 DEF j
    <3> QED BY <2>1, <3>2, <3>3
  <2>2. CASE node[n].ref # 1
    <3>1. PICK j \in Jobs : j = OpenPart!Back(p)
      BY <1>2, BackOK
    <3>2. j.at \in {"user", "exec"} /\ (j.at = "exec" => j.file \in Files)
      BY <1>2, <3>1, BackOK
    <3>3. job' = [job EXCEPT ![p] = j]
      BY <1>2, <2>2, <3>1
    <3> QED BY <2>2, <3>2, <3>3
  <2> QED BY <2>1, <2>2
<1>4. /\ node[n] \in NodeRec /\ node[n].file \in Files /\ node[n].size \in 0 .. MaxSize
      /\ node[n].ref \in Int /\ node[n].open \in Int /\ node[n].reclaim \in Int
      /\ Counted(n) /\ CleanNode(n)
      /\ uses[n] \in Nat /\ works[n] \in Nat /\ leaves[n] \in Nat /\ leaked[n] \in Nat
  BY <1>1, <1>2, InUse DEF Busy
<1>5. works[n] > 0
  BY <1>1, <1>2, CountsPositive DEF Busy
<1>6. PICK r \in NodeRec :
        /\ node' = [node EXCEPT ![n] = r] /\ r.file = node[n].file /\ r.size = node[n].size
        /\ r.ref = node[n].ref - 1 /\ r.open = node[n].open /\ r.reclaim = node[n].reclaim
        /\ r.dirty = node[n].dirty
  <2>1. PICK i \in Int : i = node[n].ref - 1
    BY <1>4
  <2> DEFINE r == [node[n] EXCEPT !.ref = i]
  <2>2. /\ r \in NodeRec /\ r.file = node[n].file /\ r.size = node[n].size /\ r.ref = i
        /\ r.open = node[n].open /\ r.reclaim = node[n].reclaim /\ r.dirty = node[n].dirty
    BY <1>4 DEF NodeRec
  <2>3. node' = [node EXCEPT ![n] = r]
    BY <1>2, <2>1, Zenon
  <2> HIDE DEF r
  <2> QED BY <2>1, <2>2, <2>3
<1>7. /\ job' \in [Procs -> Jobs] /\ job'[p] = j /\ IsFiniteSet(Born)'
      /\ \A q \in Procs : q # p => job'[q] = job[q]
      /\ \A m \in Nodes : m # n => works'[m] = works[m] /\ leaves'[m] = leaves[m]
      /\ works'[n] = works[n] - 1
      /\ j.at = "reclaim" => leaves'[n] = leaves[n] + 1
      /\ j.at # "reclaim" => leaves'[n] = leaves[n]
  <2>1. /\ j.at # "unborn" /\ j.at \notin Busy
        /\ job[p].at \in Busy /\ job[p].at # "reclaim"
        /\ job[p].at \in Busy \cup {"reclaim"} => job[p].node = n
        /\ j.at \in Busy \cup {"reclaim"} => j.node = n
    BY <1>1, <1>2, <1>3 DEF Busy
  <2>2. job' = [job EXCEPT ![p] = j]
    BY <1>3
  <2>3. /\ job' \in [Procs -> Jobs] /\ job'[p] = j /\ IsFiniteSet(Born)'
        /\ \A q \in Procs : q # p => job'[q] = job[q]
    BY <2>1, <2>2, JobTyped
  <2>4. \A m \in Nodes : m # n => works'[m] = works[m] /\ leaves'[m] = leaves[m]
    BY <2>1, <2>2, JobElsewhere
  <2>5. works'[n] = works[n] - 1
    BY <2>1, <2>2, JobMovesAt
  <2>6. /\ j.at = "reclaim" => leaves'[n] = leaves[n] + 1
        /\ j.at # "reclaim" => leaves'[n] = leaves[n]
    BY <2>1, <2>2, JobMovesAt
  <2> QED BY <2>3, <2>4, <2>5, <2>6
<1>8. uses' = uses
  BY <1>2 DEF uses, OpenPart!Named
<1>9. Agrees(r, n, node[n].file)
  <2>1. /\ node[n].open = uses[n] /\ node[n].ref = node[n].open + leaked[n] + works[n]
        /\ node[n].reclaim = leaves[n] + (IF node[n].ref > 0 THEN 1 ELSE 0)
    BY <1>4 DEF Counted
  <2>2. ~r.dirty => disk'[node[n].file] = r.size
    BY <1>2, <1>4, <1>6, ConstantsFit DEF CleanNode
  <2>3. /\ r.open = uses'[n] /\ r.ref = r.open + leaked[n] + works'[n]
        /\ r.reclaim = leaves'[n] + (IF r.ref > 0 THEN 1 ELSE 0)
    BY <1>3, <1>4, <1>5, <1>6, <1>7, <1>8, <2>1
  <2> QED BY <2>2, <2>3 DEF Agrees
<1>10. JobOK(p)'
  BY <1>2, <1>3, <1>7 DEF JobOK, Busy
<1>11. PICK f \in Files : f = node[n].file
  BY <1>4
<1>12. /\ FilesInv' /\ content[f] = node[n].size /\ content'[f] = r.size
       /\ \A g \in Files : g # f => content'[g] = content[g]
  <2>1. /\ leaked' = leaked /\ down' = down /\ ~down
        /\ table' \in [Procs -> [FdNums -> Nodes \cup {NULL}]]
        /\ \A q \in Procs : q # p => table'[q] = table[q]
        /\ disk' \in [Files -> 0 .. MaxSize]
        /\ \A g \in Files : g # f => disk'[g] = disk[g]
    BY <1>2 DEF FilesInv, FilesTypes
  <2>2. \A m \in Nodes : m # n => /\ uses'[m] = uses[m] /\ works'[m] = works[m]
                                  /\ leaves'[m] = leaves[m]
    BY <1>7, <1>8
  <2>3. node[n].file = f /\ r.file = f /\ Agrees(r, n, f)
    BY <1>6, <1>9, <1>11
  <2> QED BY <1>6, <1>7, <1>10, <2>1, <2>2, <2>3, StepAt
<1> QED BY <1>6, <1>12 DEF Kept

\* sfs_reclaim(): who is neither the last to come nor alone only says so; who is
\* frees the memory, and what was in it is on the disk.
LEMMA Reclaims ==
  ASSUME FilesInv, NEW p \in Procs, OpenPart!Reclaim(p)
  PROVE  FilesInv' /\ Kept
<1>1. PICK n \in Nodes : n = job[p].node
  BY DEF OpenPart!Reclaim, OpenPart!At, FilesInv, JobOK, Busy
<1>2. PICK j \in Jobs : j = OpenPart!Back(p)
  BY BackOK DEF OpenPart!Reclaim, OpenPart!At
<1>3. /\ job[p].at = "reclaim" /\ ~down /\ job' = [job EXCEPT ![p] = j]
      /\ UNCHANGED <<table, leaked, down>>
  BY <1>2 DEF OpenPart!Reclaim, OpenPart!At, OpenPart!Go
<1>4. j.at \in {"user", "exec"} /\ (j.at = "exec" => j.file \in Files)
  BY <1>2, <1>3, BackOK
<1>5. /\ node[n] \in NodeRec /\ node[n].file \in Files /\ node[n].size \in 0 .. MaxSize
      /\ node[n].ref \in Int /\ node[n].open \in Int /\ node[n].reclaim \in Int
      /\ Counted(n) /\ CleanNode(n)
      /\ uses[n] \in Nat /\ works[n] \in Nat /\ leaves[n] \in Nat /\ leaked[n] \in Nat
  BY <1>1, <1>3, InUse
<1>6. /\ node[n].open = uses[n] /\ node[n].ref = node[n].open + leaked[n] + works[n]
      /\ node[n].reclaim = leaves[n] + (IF node[n].ref > 0 THEN 1 ELSE 0)
  BY <1>5 DEF Counted
<1>7. PICK f \in Files : f = node[n].file
  BY <1>5
<1>8. /\ job' \in [Procs -> Jobs] /\ job'[p] = j /\ IsFiniteSet(Born)'
      /\ \A q \in Procs : q # p => job'[q] = job[q]
      /\ \A m \in Nodes : m # n => works'[m] = works[m] /\ leaves'[m] = leaves[m]
      /\ works'[n] = works[n] /\ leaves'[n] = leaves[n] - 1
  <2>1. /\ j.at # "unborn" /\ j.at \notin Busy /\ j.at # "reclaim"
        /\ job[p].at \notin Busy /\ job[p].at = "reclaim"
        /\ job[p].at \in Busy \cup {"reclaim"} => job[p].node = n
        /\ j.at \in Busy \cup {"reclaim"} => j.node = n
    BY <1>1, <1>3, <1>4 DEF Busy
  <2>2. job' = [job EXCEPT ![p] = j]
    BY <1>3
  <2>3. /\ job' \in [Procs -> Jobs] /\ job'[p] = j /\ IsFiniteSet(Born)'
        /\ \A q \in Procs : q # p => job'[q] = job[q]
    BY <2>1, <2>2, JobTyped
  <2>4. \A m \in Nodes : m # n => works'[m] = works[m] /\ leaves'[m] = leaves[m]
    BY <2>1, <2>2, JobElsewhere
  <2>5. works'[n] = works[n]
    BY <2>1, <2>2, JobMovesAt
  <2>6. leaves'[n] = leaves[n] - 1
    BY <2>1, <2>2, JobMovesAt
  <2> QED BY <2>3, <2>4, <2>5, <2>6
<1>9. uses' = uses
  BY <1>3 DEF uses, OpenPart!Named
<1>10. JobOK(p)'
  BY <1>4, <1>8 DEF JobOK, Busy
<1>11. /\ leaked' = leaked /\ leaked' \in [Nodes -> Nat] /\ down' = down
       /\ table' \in [Procs -> [FdNums -> Nodes \cup {NULL}]]
       /\ \A q \in Procs : q # p => table'[q] = table[q]
  BY <1>3 DEF FilesInv, FilesTypes
<1>12. ASSUME ~OpenPart!Last(n), node' = [node EXCEPT ![n].reclaim = @ - 1], disk' = disk
       PROVE  FilesInv' /\ Kept
  <2>1. PICK r \in NodeRec :
          /\ node' = [node EXCEPT ![n] = r] /\ r.file = f /\ r.size = node[n].size
          /\ r.ref = node[n].ref /\ r.open = node[n].open /\ r.reclaim = node[n].reclaim - 1
          /\ r.dirty = node[n].dirty
    <3>1. PICK i \in Int : i = node[n].reclaim - 1
      BY <1>5
    <3> DEFINE r == [node[n] EXCEPT !.reclaim = i]
    <3>2. /\ r \in NodeRec /\ r.file = f /\ r.size = node[n].size /\ r.ref = node[n].ref
          /\ r.open = node[n].open /\ r.reclaim = i /\ r.dirty = node[n].dirty
      BY <1>5, <1>7 DEF NodeRec
    <3>3. node' = [node EXCEPT ![n] = r]
      BY <1>12, <3>1, Zenon
    <3> HIDE DEF r
    <3> QED BY <3>1, <3>2, <3>3
  <2>2. Agrees(r, n, f)
    <3>1. ~r.dirty => disk'[f] = r.size
      BY <1>5, <1>7, <1>12, <2>1, ConstantsFit DEF CleanNode
    <3>2. /\ r.open = uses'[n] /\ r.ref = r.open + leaked[n] + works'[n]
          /\ r.reclaim = leaves'[n] + (IF r.ref > 0 THEN 1 ELSE 0)
      BY <1>5, <1>6, <1>8, <1>9, <2>1
    <3> QED BY <3>1, <3>2 DEF Agrees
  <2>3. /\ FilesInv' /\ content[f] = node[n].size /\ content'[f] = r.size
        /\ \A g \in Files : g # f => content'[g] = content[g]
    <3>1. /\ disk' \in [Files -> 0 .. MaxSize] /\ node[n].file = f /\ ~down
          /\ \A g \in Files : g # f => disk'[g] = disk[g]
      BY <1>3, <1>7, <1>12 DEF FilesInv, FilesTypes
    <3>2. \A m \in Nodes : m # n => /\ uses'[m] = uses[m] /\ works'[m] = works[m]
                                    /\ leaves'[m] = leaves[m]
      BY <1>8, <1>9
    <3> QED BY <1>8, <1>10, <1>11, <2>1, <2>2, <3>1, <3>2, StepAt, ZenonT(30)
  <2> QED BY <2>1, <2>3 DEF Kept
<1>13. ASSUME OpenPart!Last(n), node' = [node EXCEPT ![n] = OpenPart!Free],
              disk' = IF node[n].dirty THEN [disk EXCEPT ![f] = node[n].size] ELSE disk
       PROVE  FilesInv' /\ Kept
  <2>1. PICK r \in NodeRec : r = OpenPart!Free
    <3>1. OpenPart!Free \in NodeRec
      BY ConstantsFit DEF OpenPart!Free, NodeRec
    <3> QED BY <3>1
  <2>2. r.file = NULL
    BY <2>1 DEF OpenPart!Free
  <2>3. leaked[n] = 0 /\ uses[n] = 0 /\ works[n] = 0 /\ leaves[n] = 1
    <3>1. node[n].reclaim = 1 /\ node[n].ref = 0
      BY <1>13 DEF OpenPart!Last
    <3>2. leaves[n] = 1
      BY <1>5, <1>6, <3>1
    <3>3. 0 = uses[n] + leaked[n] + works[n]
      BY <1>6, <3>1
    <3>4. uses[n] \in Nat /\ leaked[n] \in Nat /\ works[n] \in Nat
      BY <1>5
    <3>5. uses[n] = 0 /\ leaked[n] = 0 /\ works[n] = 0
      <4>1. \A a, b, c \in Nat : 0 = a + b + c => a = 0 /\ b = 0 /\ c = 0
        OBVIOUS
      <4> QED BY <3>3, <3>4, <4>1, Zenon
    <3> QED BY <3>2, <3>5
  <2>4. /\ node' = [node EXCEPT ![n] = r] /\ node'[n] = r
        /\ \A m \in Nodes : m # n => node'[m] = node[m]
    BY <1>13, <2>1 DEF FilesInv, FilesTypes
  <2>5. /\ disk' \in [Files -> 0 .. MaxSize] /\ disk'[f] = node[n].size
        /\ \A g \in Files : g # f => disk'[g] = disk[g]
    <3>1. CASE node[n].dirty
      BY <1>5, <1>13, <3>1 DEF FilesInv, FilesTypes
    <3>2. CASE ~node[n].dirty
      <4>1. disk[f] = node[n].size
        BY <1>5, <1>7, <3>2, ConstantsFit DEF CleanNode
      <4> QED BY <1>13, <3>2, <4>1 DEF FilesInv, FilesTypes
    <3> QED BY <3>1, <3>2
  <2>6. FreeNode(n)' /\ CleanNode(n)'
    BY <1>8, <1>9, <1>11, <2>1, <2>2, <2>3, <2>4 DEF FreeNode, CleanNode
  <2>7. FilesInv'
    <3>1. \A m \in Nodes : m # n => /\ uses'[m] = uses[m] /\ works'[m] = works[m]
                                    /\ leaves'[m] = leaves[m] /\ leaked'[m] = leaked[m]
                                    /\ node[m].file # NULL =>
                                         disk'[node[m].file] = disk[node[m].file]
      <4>1. ASSUME NEW m \in Nodes, m # n, node[m].file # NULL
            PROVE  node[m].file \in Files /\ node[m].file # f
        BY <1>7, <4>1 DEF FilesInv, FilesTypes, NodeRec, OneEach
      <4> QED BY <1>8, <1>9, <1>11, <2>5, <4>1
    <3> QED BY <1>3, <1>8, <1>10, <1>11, <2>2, <2>3, <2>4, <2>5, <2>6, <3>1, NodeMoves
  <2>8. OneEach /\ OneEach'
    BY <2>7 DEF FilesInv
  <2>9. content'[f] = content[f]
    <3>1. content[f] = node[n].size
      BY <1>7, <2>8, ContentIs
    <3>2. \A m \in Nodes : node'[m].file # f
      BY <1>7, <2>2, <2>4, <2>8, ConstantsFit DEF OneEach
    <3>3. content'[f] = disk'[f]
      BY <2>8, <3>2, ContentIs
    <3> QED BY <2>5, <3>1, <3>3
  <2>10. ASSUME NEW g \in Files, g # f PROVE content'[g] = content[g]
    <3>1. CASE \A m \in Nodes : node[m].file # g
      <4>1. \A m \in Nodes : node'[m].file # g
        BY <2>2, <2>4, <3>1, ConstantsFit
      <4> QED BY <2>5, <2>8, <2>10, <3>1, <4>1, ContentIs
    <3>2. ASSUME NEW m \in Nodes, node[m].file = g PROVE content'[g] = content[g]
      <4>1. m # n /\ node'[m] = node[m]
        BY <1>7, <2>4, <2>10, <3>2
      <4> QED BY <2>8, <3>2, <4>1, ContentIs
    <3> QED BY <3>1, <3>2
  <2> QED BY <2>7, <2>9, <2>10 DEF Kept
<1> QED BY <1>1, <1>7, <1>12, <1>13 DEF OpenPart!Reclaim

-----------------------------------------------------------------------------
\* A process in user mode works on memory n, and stays there.
LEMMA UserStep ==
  ASSUME FilesInv, NEW p \in Procs, job[p].at = "user", ~down,
         job' = job, down' = down, leaked' = leaked,
         NEW n \in Nodes, NEW r \in NodeRec, NEW f \in Files, node[n].file = f, r.file = f,
         node' = [node EXCEPT ![n] = r],
         table' \in [Procs -> [FdNums -> Nodes \cup {NULL}]],
         \A q \in Procs : q # p => table'[q] = table[q],
         \A m \in Nodes : m # n => uses'[m] = uses[m],
         disk' \in [Files -> 0 .. MaxSize], \A g \in Files : g # f => disk'[g] = disk[g],
         r.open = uses'[n], r.ref - node[n].ref = r.open - node[n].open,
         r.ref >= node[n].ref, r.reclaim = node[n].reclaim, node[n].ref > 0,
         ~r.dirty => disk'[f] = r.size
  PROVE  /\ FilesInv' /\ content[f] = node[n].size /\ content'[f] = r.size
         /\ \A g \in Files : g # f => content'[g] = content[g]
<1>1. /\ job' \in [Procs -> Jobs] /\ IsFiniteSet(Born)'
      /\ \A q \in Procs : q # p => job'[q] = job[q]
  BY DEF FilesInv, FilesTypes, Born
<1>2. works' = works /\ leaves' = leaves
  BY DEF works, leaves, OpenPart!Working, Busy
<1>3. /\ node[n].open = uses[n] /\ node[n].ref = node[n].open + leaked[n] + works[n]
      /\ node[n].reclaim = leaves[n] + (IF node[n].ref > 0 THEN 1 ELSE 0)
  BY ConstantsFit DEF FilesInv, Counted
<1>4. Agrees(r, n, f)
  <2>1. /\ r.ref \in Int /\ r.open \in Int /\ node[n].ref \in Int /\ node[n].open \in Int
        /\ leaked[n] \in Nat
    BY DEF NodeRec, FilesInv, FilesTypes
  <2>2. uses[n] \in Nat /\ works[n] \in Nat /\ leaves[n] \in Nat
    BY CountsNat
  <2>a. works'[n] = works[n] /\ leaves'[n] = leaves[n]
    BY <1>2
  <2>b. r.open = uses'[n] /\ r.ref - node[n].ref = r.open - node[n].open
    OBVIOUS
  <2>3. r.ref = r.open + leaked[n] + works'[n]
    <3>1. node[n].ref - node[n].open = leaked[n] + works[n]
      BY <1>3, <2>1, <2>2
    <3>2. r.ref - r.open = node[n].ref - node[n].open
      BY <1>3, <2>1, <2>2, <2>b
    <3>3. r.ref - r.open = leaked[n] + works[n]
      BY <3>1, <3>2
    <3>4. r.ref = r.open + leaked[n] + works[n]
      BY <2>1, <2>2, <3>3
    <3> QED BY <2>a, <3>4, Zenon
  <2>4. r.reclaim = leaves'[n] + (IF r.ref > 0 THEN 1 ELSE 0)
    BY <1>3, <2>1, <2>2, <2>a
  <2> QED BY <2>3, <2>4 DEF Agrees
<1>5. JobOK(p)'
  BY DEF JobOK, Busy
<1>6. \A m \in Nodes : m # n => /\ uses'[m] = uses[m] /\ works'[m] = works[m]
                                /\ leaves'[m] = leaves[m]
  BY <1>2
<1> QED BY <1>1, <1>4, <1>5, <1>6, StepAt

\* What a process has a descriptor of.
LEMMA HasOpen ==
  ASSUME FilesInv, NEW p \in Procs, NEW fd \in FdNums, table[p][fd] # NULL
  PROVE  \E n \in Nodes : \E f \in Files :
           /\ table[p][fd] = n /\ node[n].file = f /\ node[n].ref > 0 /\ node[n].open = uses[n]
           /\ node[n] \in NodeRec /\ uses[n] \in Nat
           /\ node[n].ref \in Int /\ node[n].open \in Int /\ node[n].reclaim \in Int
           /\ node[n].size \in 0 .. MaxSize
<1>1. PICK n \in Nodes : table[p][fd] = n
  BY DEF FilesInv, FilesTypes
<1>2. /\ node[n] \in NodeRec /\ node[n].file \in Files /\ node[n].size \in 0 .. MaxSize
      /\ node[n].ref \in Int /\ node[n].open \in Int /\ node[n].reclaim \in Int
      /\ Counted(n)
      /\ uses[n] \in Nat /\ works[n] \in Nat /\ leaked[n] \in Nat
  BY <1>1, InUse
<1>3. uses[n] > 0
  BY <1>1, CountsPositive
<1>4. node[n].ref = uses[n] + leaked[n] + works[n] /\ node[n].open = uses[n]
  BY <1>2 DEF Counted
<1>5. node[n].ref > 0
  BY <1>2, <1>3, <1>4
<1> QED BY <1>1, <1>2, <1>4, <1>5

\* sfs_io(): the inode is dirty from now on.
LEMMA Writes ==
  ASSUME FilesInv, NEW p \in Procs, NEW fd \in FdNums, OpenPart!Write(p, fd)
  PROVE  FilesInv' /\ Kept
<1>1. /\ job[p].at = "user" /\ ~down /\ table[p][fd] # NULL
      /\ UNCHANGED <<disk, table, job, leaked, down>>
  BY DEF OpenPart!Write, OpenPart!At
<1>2. PICK n \in Nodes, f \in Files :
        /\ table[p][fd] = n /\ node[n].file = f /\ node[n].ref > 0 /\ node[n].open = uses[n]
        /\ node[n] \in NodeRec /\ uses[n] \in Nat
        /\ node[n].ref \in Int /\ node[n].open \in Int /\ node[n].reclaim \in Int
        /\ node[n].size \in 0 .. MaxSize
  BY <1>1, HasOpen
<1>3. PICK r \in NodeRec :
        /\ node' = [node EXCEPT ![n] = r] /\ r.file = f /\ r.ref = node[n].ref
        /\ r.open = node[n].open /\ r.reclaim = node[n].reclaim
        /\ r.dirty = TRUE /\ r.size = node[n].size + 1
  <2>1. PICK z \in 0 .. MaxSize : z = node[n].size + 1
    BY <1>2, ConstantsFit DEF OpenPart!Write
  <2> DEFINE r == [node[n] EXCEPT !.size = z, !.dirty = TRUE]
  <2>2. /\ r \in NodeRec /\ r.file = f /\ r.ref = node[n].ref /\ r.open = node[n].open
        /\ r.reclaim = node[n].reclaim /\ r.dirty = TRUE /\ r.size = z
    BY <1>2 DEF NodeRec
  <2>3. node' = [node EXCEPT ![n] = r]
    BY <1>2, <2>1, Zenon DEF OpenPart!Write
  <2> HIDE DEF r
  <2> QED BY <2>1, <2>2, <2>3
<1>4. uses' = uses
  BY <1>1 DEF uses, OpenPart!Named
<1>5. /\ FilesInv' /\ content[f] = node[n].size /\ content'[f] = r.size
      /\ \A g \in Files : g # f => content'[g] = content[g]
  <2>1. /\ table' \in [Procs -> [FdNums -> Nodes \cup {NULL}]] /\ disk' \in [Files -> 0 .. MaxSize]
        /\ \A q \in Procs : q # p => table'[q] = table[q]
        /\ \A g \in Files : g # f => disk'[g] = disk[g]
        /\ job' = job /\ down' = down /\ leaked' = leaked
    BY <1>1 DEF FilesInv, FilesTypes
  <2>2. /\ r.open = uses'[n] /\ r.ref - node[n].ref = r.open - node[n].open
        /\ r.ref >= node[n].ref /\ \A m \in Nodes : m # n => uses'[m] = uses[m]
    BY <1>2, <1>3, <1>4
  <2>3. ~r.dirty => disk'[f] = r.size
    BY <1>3
  <2> QED BY <1>1, <1>2, <1>3, <2>1, <2>2, <2>3, UserStep, ZenonT(30)
<1> QED BY <1>3, <1>5 DEF Kept

\* file_fsync().
LEMMA Fsyncs ==
  ASSUME FilesInv, NEW p \in Procs, NEW fd \in FdNums, OpenPart!Fsync(p, fd)
  PROVE  FilesInv' /\ Kept
<1>1. /\ job[p].at = "user" /\ ~down /\ table[p][fd] # NULL
      /\ UNCHANGED <<table, job, leaked, down>>
  BY DEF OpenPart!Fsync, OpenPart!At
<1>2. PICK n \in Nodes, f \in Files :
        /\ table[p][fd] = n /\ node[n].file = f /\ node[n].ref > 0 /\ node[n].open = uses[n]
        /\ node[n] \in NodeRec /\ uses[n] \in Nat
        /\ node[n].ref \in Int /\ node[n].open \in Int /\ node[n].reclaim \in Int
        /\ node[n].size \in 0 .. MaxSize
  BY <1>1, HasOpen
<1>3. OpenPart!Synced(n)
  BY <1>2 DEF OpenPart!Fsync
<1>4. /\ disk' \in [Files -> 0 .. MaxSize] /\ disk'[f] = node[n].size
      /\ \A g \in Files : g # f => disk'[g] = disk[g]
  BY <1>2, <1>3, SyncedIs
<1>5. PICK r \in NodeRec :
        /\ node' = [node EXCEPT ![n] = r] /\ r.file = f /\ r.size = node[n].size
        /\ r.ref = node[n].ref /\ r.open = node[n].open /\ r.reclaim = node[n].reclaim
  BY <1>2, <1>3, SyncedIs
<1>6. uses' = uses
  BY <1>1 DEF uses, OpenPart!Named
<1>7. /\ FilesInv' /\ content[f] = node[n].size /\ content'[f] = r.size
      /\ \A g \in Files : g # f => content'[g] = content[g]
  <2>1. /\ table' \in [Procs -> [FdNums -> Nodes \cup {NULL}]]
        /\ \A q \in Procs : q # p => table'[q] = table[q]
        /\ job' = job /\ down' = down /\ leaked' = leaked
    BY <1>1 DEF FilesInv, FilesTypes
  <2>2. /\ r.open = uses'[n] /\ r.ref - node[n].ref = r.open - node[n].open
        /\ r.ref >= node[n].ref /\ \A m \in Nodes : m # n => uses'[m] = uses[m]
    BY <1>2, <1>5, <1>6
  <2>3. ~r.dirty => disk'[f] = r.size
    BY <1>4, <1>5
  <2> QED BY <1>1, <1>2, <1>4, <1>5, <2>1, <2>2, <2>3, UserStep
<1> QED BY <1>5, <1>7 DEF Kept

\* file_dup().
LEMMA Dups ==
  ASSUME FilesInv, NEW p \in Procs, NEW from \in FdNums, NEW to \in FdNums,
         OpenPart!Dup(p, from, to)
  PROVE  FilesInv' /\ Kept
<1>1. /\ job[p].at = "user" /\ ~down /\ table[p][from] # NULL /\ table[p][to] = NULL
      /\ UNCHANGED <<disk, job, leaked, down>>
  BY DEF OpenPart!Dup, OpenPart!At
<1>2. PICK n \in Nodes, f \in Files :
        /\ table[p][from] = n /\ node[n].file = f /\ node[n].ref > 0 /\ node[n].open = uses[n]
        /\ node[n] \in NodeRec /\ uses[n] \in Nat
        /\ node[n].ref \in Int /\ node[n].open \in Int /\ node[n].reclaim \in Int
        /\ node[n].size \in 0 .. MaxSize
  BY <1>1, HasOpen
<1>3. PICK r \in NodeRec :
        /\ node' = [node EXCEPT ![n] = r] /\ r.file = f /\ r.ref = node[n].ref + 1
        /\ r.open = node[n].open + 1 /\ r.reclaim = node[n].reclaim
        /\ r.dirty = node[n].dirty /\ r.size = node[n].size
  <2>1. PICK i \in Int, o \in Int : i = node[n].ref + 1 /\ o = node[n].open + 1
    BY <1>2
  <2> DEFINE r == [node[n] EXCEPT !.ref = i, !.open = o]
  <2>2. /\ r \in NodeRec /\ r.file = f /\ r.ref = i /\ r.open = o
        /\ r.reclaim = node[n].reclaim /\ r.dirty = node[n].dirty /\ r.size = node[n].size
    BY <1>2 DEF NodeRec
  <2>3. node' = [node EXCEPT ![n] = r]
    BY <1>2, <2>1, Zenon DEF OpenPart!Dup
  <2> HIDE DEF r
  <2> QED BY <2>1, <2>2, <2>3
<1>4. /\ table' \in [Procs -> [FdNums -> Nodes \cup {NULL}]]
      /\ \A q \in Procs : q # p => table'[q] = table[q]
      /\ \A m \in Nodes : m # n => uses'[m] = uses[m]
      /\ uses'[n] = uses[n] + 1
  <2>1. table' = [table EXCEPT ![p][to] = n]
    BY <1>2 DEF OpenPart!Dup
  <2> QED BY <1>1, <2>1, DescriptorFilled, ZenonT(30)
<1>5. ~node[n].dirty => disk[f] = node[n].size
  BY <1>2, ConstantsFit DEF FilesInv, CleanNode
<1>6. /\ FilesInv' /\ content[f] = node[n].size /\ content'[f] = r.size
      /\ \A g \in Files : g # f => content'[g] = content[g]
  <2>1. /\ disk' \in [Files -> 0 .. MaxSize] /\ \A g \in Files : g # f => disk'[g] = disk[g]
        /\ job' = job /\ down' = down /\ leaked' = leaked
    BY <1>1 DEF FilesInv, FilesTypes
  <2>2. r.open = uses'[n] /\ r.ref - node[n].ref = r.open - node[n].open /\ r.ref >= node[n].ref
    BY <1>2, <1>3, <1>4
  <2>3. ~r.dirty => disk'[f] = r.size
    BY <1>1, <1>3, <1>5
  <2> QED BY <1>1, <1>2, <1>3, <1>4, <2>1, <2>2, <2>3, UserStep
<1> QED BY <1>3, <1>6 DEF Kept

\* dup_files(): the copied descriptors count in every inode of the parent's.
LEMMA ForkCounts ==
  ASSUME FilesInv, NEW p \in Procs, NEW q \in Procs, q # p, job[q].at = "unborn",
         table' = [table EXCEPT ![q] = table[p]], NEW n \in Nodes
  PROVE  /\ Cardinality({fd \in FdNums : table[p][fd] = n}) \in Nat
         /\ uses'[n] = uses[n] + Cardinality({fd \in FdNums : table[p][fd] = n})
         /\ uses[n] = 0 => Cardinality({fd \in FdNums : table[p][fd] = n}) = 0
<1> DEFINE X == {fd \in FdNums : table[p][fd] = n}
           S == {x \in Procs \X FdNums : table[x[1]][x[2]] = n}
           T == {x \in Procs \X FdNums : table'[x[1]][x[2]] = n}
           C == {q} \X X
<1>1. IsFiniteSet(X)
  BY FdsFinite, FS_Subset
<1>2. IsFiniteSet({q}) /\ Cardinality({q}) = 1
  BY FS_Singleton
<1>3. IsFiniteSet(C) /\ Cardinality(C) = Cardinality(X)
  <2>1. Cardinality(X) \in Nat
    BY <1>1, FS_CardinalityType
  <2> HIDE DEF X
  <2>2. IsFiniteSet({q} \X X) /\ Cardinality({q} \X X) = Cardinality({q}) * Cardinality(X)
    BY <1>1, <1>2, FS_Product
  <2> QED BY <1>2, <2>1, <2>2
<1>4. /\ table'[q] = table[p] /\ \A u \in Procs : u # q => table'[u] = table[u]
      /\ \A fd \in FdNums : table[q][fd] # n
  BY ConstantsFit DEF FilesInv, FilesTypes, JobOK
<1>5. S \cap C = {}
  BY <1>4
<1>6. T = S \cup C
  <2>1. ASSUME NEW x \in Procs \X FdNums PROVE x \in T <=> x \in S \cup C
    <3>1. PICK u \in Procs, fd \in FdNums : x = <<u, fd>>
      OBVIOUS
    <3>2. CASE u = q
      BY <1>4, <3>1, <3>2
    <3>3. CASE u # q
      BY <1>4, <3>1, <3>3
    <3> QED BY <3>2, <3>3
  <2>2. \A x : x \in S \cup C => x \in Procs \X FdNums
    OBVIOUS
  <2> QED BY <2>1, <2>2
<1>7. uses[n] = Cardinality(S) /\ uses'[n] = Cardinality(T)
  BY DEF uses, OpenPart!Named, OpenPart!FdNums, FdNums
<1>8. IsFiniteSet(S)
  BY CountsFinite DEF FilesInv, OpenPart!Named, OpenPart!FdNums, FdNums
<1>9. Cardinality(T) = Cardinality(S) + Cardinality(C)
  <2>1. Cardinality(S) \in Nat /\ Cardinality(C) \in Nat
    BY <1>3, <1>8, FS_CardinalityType
  <2> HIDE DEF S, C, T
  <2>2. Cardinality(S \cup C) = Cardinality(S) + Cardinality(C) - Cardinality(S \cap C)
    BY <1>3, <1>8, FS_Union
  <2>3. Cardinality(S \cap C) = 0
    BY <1>5, FS_EmptySet
  <2> QED BY <1>6, <2>1, <2>2, <2>3
<1>10. uses[n] = 0 => X = {}
  <2>1. ASSUME NEW fd \in X PROVE uses[n] > 0
    BY CountsPositive
  <2>2. ~(0 > 0)
    OBVIOUS
  <2> QED BY <2>1, <2>2
<1>11. Cardinality(X) \in Nat /\ Cardinality({}) = 0
  BY <1>1, FS_CardinalityType, FS_EmptySet
<1> QED BY <1>3, <1>7, <1>9, <1>10, <1>11

\* do_fork(): every counter grows with the descriptors, and no content changes.
LEMMA Forks ==
  ASSUME FilesInv, NEW p \in Procs, NEW q \in Procs, OpenPart!Fork(p, q)
  PROVE  FilesInv' /\ Kept
<1> DEFINE copies == [n \in Nodes |-> Cardinality({fd \in FdNums : table[p][fd] = n})]
<1>1. /\ job[p].at = "user" /\ job[q].at = "unborn" /\ q # p /\ ~down
      /\ table' = [table EXCEPT ![q] = table[p]]
      /\ job' = [job EXCEPT ![q] = OpenPart!Resting("user")]
      /\ UNCHANGED <<disk, leaked, down>>
  BY DEF OpenPart!Fork, OpenPart!At
<1>2. node' = [n \in Nodes |-> [node[n] EXCEPT
        !.ref  = @ + OpenPart!Cardinality({fd \in OpenPart!FdNums : table[p][fd] = n}),
        !.open = @ + OpenPart!Cardinality({fd \in OpenPart!FdNums : table[p][fd] = n})]]
  BY DEF OpenPart!Fork
<1>3. \A n \in Nodes : copies[n] \in Nat /\ uses'[n] = uses[n] + copies[n]
                       /\ (uses[n] = 0 => copies[n] = 0)
  BY <1>1, ForkCounts
<1> HIDE DEF copies
<1>4. ASSUME NEW n \in Nodes
      PROVE  /\ node'[n] \in NodeRec /\ node'[n].file = node[n].file
             /\ node'[n].size = node[n].size /\ node'[n].dirty = node[n].dirty
             /\ node'[n].reclaim = node[n].reclaim
             /\ node'[n].ref = node[n].ref + copies[n]
             /\ node'[n].open = node[n].open + copies[n]
  <2>1. node[n] \in NodeRec /\ node[n].ref \in Int /\ node[n].open \in Int
    BY DEF FilesInv, FilesTypes, NodeRec
  <2>2. PICK i \in Int, o \in Int : i = node[n].ref + copies[n] /\ o = node[n].open + copies[n]
    BY <1>3, <2>1
  <2>3. copies[n] = OpenPart!Cardinality({fd \in OpenPart!FdNums : table[p][fd] = n})
    <3>1. copies[n] = Cardinality({fd \in FdNums : table[p][fd] = n})
      BY Zenon DEF copies
    <3>2. OpenPart!FdNums = FdNums
      BY DEF OpenPart!FdNums, FdNums
    <3> QED BY <3>1, <3>2, SameCount
  <2> DEFINE r == [node[n] EXCEPT !.ref = i, !.open = o]
  <2>4. node'[n] = r
    BY <1>2, <2>2, <2>3, Zenon
  <2>5. /\ r \in NodeRec /\ r.file = node[n].file /\ r.size = node[n].size
        /\ r.dirty = node[n].dirty /\ r.reclaim = node[n].reclaim /\ r.ref = i /\ r.open = o
    BY <2>1 DEF NodeRec
  <2> HIDE DEF r
  <2> QED BY <2>2, <2>4, <2>5
<1>5. PICK j \in Jobs : j = OpenPart!Resting("user")
  <2>1. OpenPart!Resting("user") \in Jobs
    BY DEF OpenPart!Resting, Jobs, Labels
  <2> QED BY <2>1
<1>6. j.at = "user" /\ job' = [job EXCEPT ![q] = j]
  BY <1>1, <1>5 DEF OpenPart!Resting
<1>7. /\ job' \in [Procs -> Jobs] /\ job'[q] = j /\ IsFiniteSet(Born)'
      /\ \A u \in Procs : u # q => job'[u] = job[u]
  BY <1>6, JobTyped
<1>8. \A n \in Nodes : works'[n] = works[n] /\ leaves'[n] = leaves[n]
  <2>1. \A n : /\ ~Works(j, n) /\ ~Works(job[q], n)
              /\ ~Leaves(j, n) /\ ~Leaves(job[q], n)
    BY <1>1, <1>6 DEF Works, Leaves, Busy
  <2>2. j.at # "unborn"
    BY <1>6
  <2> QED BY <1>6, <2>1, <2>2, JobMoves
<1>9. FilesTypes'
  <2>1. node' \in [Nodes -> NodeRec]
    <3>1. DOMAIN node' = Nodes /\ node' = [n \in Nodes |-> node'[n]]
      BY <1>2
    <3> QED BY <1>4, <3>1
  <2>2. table' \in [Procs -> [FdNums -> Nodes \cup {NULL}]]
    BY <1>1 DEF FilesInv, FilesTypes
  <2> QED BY <1>1, <1>7, <2>1, <2>2 DEF FilesInv, FilesTypes
<1>10. ASSUME NEW n \in Nodes PROVE FreeNode(n)' /\ CleanNode(n)'
  BY <1>1, <1>3, <1>4, <1>8, <1>10 DEF FilesInv, FreeNode, CleanNode
<1>11. ASSUME NEW n \in Nodes, node'[n].file # NULL PROVE Counted(n)'
  <2>1. node[n].file # NULL
    BY <1>4, <1>11
  <2>2. /\ node[n].open = uses[n] /\ node[n].ref = node[n].open + leaked[n] + works[n]
        /\ node[n].reclaim = leaves[n] + (IF node[n].ref > 0 THEN 1 ELSE 0)
    BY <2>1 DEF FilesInv, Counted
  <2>3. leaked[n] \in Nat /\ uses[n] \in Nat /\ works[n] \in Nat /\ leaves[n] \in Nat
        /\ copies[n] \in Nat
    BY <1>3, CountsNat DEF FilesInv, FilesTypes
  <2>4. node'[n].open = uses'[n]
    BY <1>3, <1>4, <2>2
  <2>5. node'[n].ref = node'[n].open + leaked'[n] + works'[n]
    BY <1>1, <1>4, <1>8, <2>2, <2>3
  <2>6. node'[n].ref > 0 <=> node[n].ref > 0
    <3>1. CASE uses[n] = 0
      BY <1>3, <1>4, <2>2, <2>3, <3>1
    <3>2. CASE uses[n] > 0
      BY <1>4, <2>2, <2>3, <3>2
    <3> QED BY <2>3, <3>1, <3>2
  <2>7. node'[n].reclaim = leaves'[n] + (IF node'[n].ref > 0 THEN 1 ELSE 0)
    BY <1>4, <1>8, <2>2, <2>6
  <2> QED BY <2>4, <2>5, <2>7 DEF Counted
<1>12. OneEach'
  BY <1>4 DEF FilesInv, OneEach
<1>13. ASSUME NEW u \in Procs PROVE JobOK(u)'
  <2>1. CASE u = q
    BY <1>6, <1>7, <2>1 DEF JobOK, Busy
  <2>2. CASE u # q
    <3>1. job'[u] = job[u] /\ table'[u] = table[u] /\ JobOK(u)
      BY <1>1, <1>7, <2>2 DEF FilesInv, FilesTypes
    <3>2. job[u].at = "loaded" => node'[job[u].node].file = node[job[u].node].file
      BY <1>4, <3>1 DEF JobOK, Busy
    <3> QED BY <3>1, <3>2 DEF JobOK
  <2> QED BY <2>1, <2>2
<1>14. FilesInv'
  BY <1>1, <1>7, <1>9, <1>10, <1>11, <1>12, <1>13 DEF FilesInv
<1> QED BY <1>1, <1>4, <1>14, ContentStays

\* fs_cleanup(): what is dirty goes to the disk.
LEMMA Cleans ==
  ASSUME FilesInv, OpenPart!Cleanup
  PROVE  FilesInv' /\ Kept
<1>1. down' = TRUE /\ UNCHANGED <<table, job, leaked>>
  BY DEF OpenPart!Cleanup
<1>2. ASSUME NEW n \in Nodes
      PROVE  /\ node'[n] \in NodeRec /\ node'[n].file = node[n].file
             /\ node'[n].size = node[n].size /\ node'[n].ref = node[n].ref
             /\ node'[n].open = node[n].open /\ node'[n].reclaim = node[n].reclaim
             /\ node[n].file # NULL => node'[n].dirty = FALSE
  <2>1. node[n] \in NodeRec
    BY DEF FilesInv, FilesTypes
  <2>2. CASE node[n].file = NULL
    <3>1. node'[n] = node[n]
      BY <2>2 DEF OpenPart!Cleanup, OpenPart!ToSync
    <3> QED BY <2>1, <2>2, <3>1
  <2>3. CASE node[n].file # NULL
    <3>1. node'[n] = [node[n] EXCEPT !.dirty = FALSE]
      BY <2>3 DEF OpenPart!Cleanup, OpenPart!ToSync
    <3> QED BY <2>1, <2>3, <3>1 DEF NodeRec
  <2> QED BY <2>2, <2>3
<1>3. ASSUME NEW f \in Files, \A n \in Nodes : node[n].file = f => ~node[n].dirty
      PROVE  disk'[f] = disk[f]
  <2> DEFINE D == {n \in OpenPart!ToSync : node[n].file = f /\ node[n].dirty}
  <2>1. D = {}
    BY <1>3 DEF OpenPart!ToSync
  <2> QED BY <2>1 DEF OpenPart!Cleanup
<1>4. ASSUME NEW n \in Nodes, NEW f \in Files, node[n].file = f, node[n].dirty
      PROVE  disk'[f] = node[n].size
  <2> DEFINE D == {m \in OpenPart!ToSync : node[m].file = f /\ node[m].dirty}
  <2>1. n \in D /\ \A m \in D : m = n
    BY <1>4, ConstantsFit DEF OpenPart!ToSync, FilesInv, OneEach
  <2>2. disk'[f] = node[CHOOSE m \in D : TRUE].size
    BY <2>1 DEF OpenPart!Cleanup
  <2> HIDE DEF D
  <2>3. (CHOOSE m \in D : TRUE) = n
    BY <2>1
  <2> QED BY <2>2, <2>3
<1>5. ASSUME NEW n \in Nodes, node[n].file # NULL PROVE disk'[node[n].file] = node[n].size
  <2>1. PICK f \in Files : node[n].file = f
    BY <1>5 DEF FilesInv, FilesTypes, NodeRec
  <2>2. CASE node[n].dirty
    BY <1>4, <2>1, <2>2
  <2>3. CASE ~node[n].dirty
    <3>1. \A m \in Nodes : node[m].file = f => ~node[m].dirty
      BY <2>1, <2>3, ConstantsFit DEF FilesInv, OneEach
    <3>2. disk'[f] = disk[f]
      BY <1>3, <3>1
    <3> QED BY <1>5, <2>1, <2>3, <3>2 DEF FilesInv, CleanNode
  <2> QED BY <2>2, <2>3
<1>6. ASSUME NEW f \in Files PROVE disk'[f] \in 0 .. MaxSize
  <2>1. CASE \A n \in Nodes : node[n].file = f => ~node[n].dirty
    BY <1>3, <2>1 DEF FilesInv, FilesTypes
  <2>2. ASSUME NEW n \in Nodes, node[n].file = f, node[n].dirty PROVE disk'[f] \in 0 .. MaxSize
    <3>1. node[n].size \in 0 .. MaxSize
      BY DEF FilesInv, FilesTypes, NodeRec
    <3> QED BY <1>4, <2>2, <3>1
  <2> QED BY <2>1, <2>2
<1>7. FilesTypes'
  <2>1. node' = [n \in Nodes |-> node'[n]] /\ disk' = [f \in Files |-> disk'[f]]
    BY DEF OpenPart!Cleanup
  <2>2. node' \in [Nodes -> NodeRec]
    BY <1>2, <2>1
  <2>3. disk' \in [Files -> 0 .. MaxSize]
    BY <1>6, <2>1
  <2> QED BY <1>1, <2>2, <2>3 DEF FilesInv, FilesTypes
<1>8. /\ uses' = uses /\ works' = works /\ leaves' = leaves /\ Born' = Born
  BY <1>1 DEF uses, works, leaves, Born, OpenPart!Named, OpenPart!Working
<1>9. ASSUME NEW n \in Nodes PROVE FreeNode(n)' /\ CleanNode(n)'
  BY <1>1, <1>2, <1>5, <1>8 DEF FilesInv, FreeNode, CleanNode
<1>10. ASSUME NEW n \in Nodes, node'[n].file # NULL PROVE Counted(n)'
  <2>1. /\ node[n].open = uses[n] /\ node[n].ref = node[n].open + leaked[n] + works[n]
        /\ node[n].reclaim = leaves[n] + (IF node[n].ref > 0 THEN 1 ELSE 0)
    BY <1>2, <1>10 DEF FilesInv, Counted
  <2> QED BY <1>1, <1>2, <1>8, <2>1 DEF Counted
<1>11. OneEach'
  <2>1. \A n \in Nodes : node'[n].file = node[n].file
    BY <1>2
  <2>2. OneEach
    BY DEF FilesInv
  <2> QED BY <2>1, <2>2 DEF OneEach
<1>12. ASSUME NEW p \in Procs PROVE JobOK(p)'
  BY <1>1, <1>2 DEF FilesInv, JobOK, Busy
<1>13. FilesInv'
  BY <1>2, <1>7, <1>8, <1>9, <1>10, <1>11, <1>12 DEF FilesInv
<1>14. ASSUME NEW f \in Files, \A n \in Nodes : node[n].file # f PROVE disk'[f] = disk[f]
  BY <1>3, <1>14
<1> QED BY <1>2, <1>13, <1>14, ContentStays

\* files_closeall() and load_icode().
LEMMA ExecSteps ==
  ASSUME FilesInv, NEW p \in Procs, OpenPart!ExecGoesOn(p) \/ OpenPart!ExecEnds(p)
  PROVE  FilesInv' /\ Kept
<1>1. job[p] \in Jobs
  BY DEF FilesInv, FilesTypes
<1>2. ASSUME OpenPart!ExecEnds(p) PROVE FilesInv' /\ Kept
  <2>1. /\ job[p].at = "image" /\ ~down /\ OpenPart!CloseFd(p, job[p].fd, "user")
        /\ job[p].fd \in FdNums
    BY <1>2 DEF OpenPart!ExecEnds, OpenPart!At, FilesInv, JobOK
  <2>2. PICK fd \in FdNums : fd = job[p].fd
    BY <2>1
  <2>3. OpenPart!CloseFd(p, fd, "user")
    BY <2>1, <2>2
  <2> QED BY <2>1, <2>3, Closes
<1>3. ASSUME NEW fd \in NStd .. NFds - 1, job[p].at = "exec", ~down, OpenPart!CloseFd(p, fd, "exec")
      PROVE  FilesInv' /\ Kept
  <2>1. fd \in FdNums /\ job[p].file \in Files
    BY <1>3, ConstantsFit DEF FdNums, FilesInv, JobOK
  <2> QED BY <1>3, <2>1, Closes
<1>4. ASSUME job[p].at = "exec", ~down, UNCHANGED <<node, disk, table, leaked, down>>,
             job' = [job EXCEPT ![p] =
                       IF OpenPart!NoFd(p) THEN OpenPart!Resting("dead")
                       ELSE [OpenPart!Resting("load") EXCEPT !.file = job[p].file,
                                                             !.then = "image"]]
      PROVE  FilesInv' /\ Kept
  <2>1. PICK f \in Files : f = job[p].file
    BY <1>4 DEF FilesInv, JobOK
  <2>2. CASE OpenPart!NoFd(p)
    <3>1. PICK j \in Jobs : j = OpenPart!Resting("dead")
      <4>1. OpenPart!Resting("dead") \in Jobs
        BY DEF OpenPart!Resting, Jobs, Labels
      <4> QED BY <4>1
    <3>2. j.at = "dead" /\ job' = [job EXCEPT ![p] = j]
      BY <1>4, <2>2, <3>1 DEF OpenPart!Resting
    <3>3. JobOK(p)'
      BY <3>2 DEF JobOK, Busy, FilesInv, FilesTypes
    <3> QED BY <1>4, <3>2, <3>3, JobOnly DEF Busy
  <2>3. CASE ~OpenPart!NoFd(p)
    <3> DEFINE j0 == OpenPart!Resting("load")
               j  == [j0 EXCEPT !.file = f, !.then = "image"]
    <3>1. j0 \in Jobs /\ j0.at = "load"
      BY DEF OpenPart!Resting, Jobs, Labels
    <3> HIDE DEF j0
    <3>2. j \in Jobs /\ j.at = "load" /\ j.file = f /\ j.then = "image"
      <4>1. "image" \in Labels
        BY DEF Labels
      <4> QED BY <3>1, <4>1 DEF Jobs
    <3>3. job' = [job EXCEPT ![p] = j]
      BY <1>4, <2>1, <2>3 DEF j0
    <3> HIDE DEF j
    <3>4. \E fd \in FdNums : table[p][fd] = NULL
      BY <2>3 DEF OpenPart!NoFd, OpenPart!FdNums, FdNums
    <3>5. JobOK(p)'
      BY <1>4, <3>2, <3>3, <3>4 DEF JobOK, Busy, FilesInv, FilesTypes
    <3> QED BY <1>4, <3>2, <3>3, <3>5, JobOnly DEF Busy
  <2> QED BY <2>2, <2>3
<1> QED BY <1>2, <1>3, <1>4 DEF OpenPart!ExecGoesOn, OpenPart!At, OpenPart!Go

-----------------------------------------------------------------------------
\* In the beginning nothing is in memory, and one process runs.
LEMMA FilesInit ==
  ASSUME OpenPart!Init
  PROVE  FilesInv
<1>1. FilesTypes
  <2>1. OpenPart!Free \in NodeRec
    BY ConstantsFit DEF OpenPart!Free, NodeRec
  <2>2. \A l \in Labels : OpenPart!Resting(l) \in Jobs
    BY DEF OpenPart!Resting, Jobs
  <2>3. job \in [Procs -> Jobs]
    BY <2>2 DEF OpenPart!Init, Labels
  <2>4. node \in [Nodes -> NodeRec]
    BY <2>1 DEF OpenPart!Init
  <2>5. table \in [Procs -> [FdNums -> Nodes \cup {NULL}]]
    BY DEF OpenPart!Init, OpenPart!FdNums, FdNums
  <2>6. disk \in [Files -> 0 .. MaxSize] /\ leaked \in [Nodes -> Nat]
    <3>1. 0 \in 0 .. MaxSize /\ 0 \in Nat
      BY ConstantsFit
    <3> QED BY <3>1 DEF OpenPart!Init
  <2> QED BY <2>3, <2>4, <2>5, <2>6 DEF OpenPart!Init, FilesTypes
<1>2. /\ \A n \in Nodes : node[n].file = NULL /\ leaked[n] = 0
      /\ \A p \in Procs : /\ job[p].node = NULL
                          /\ job[p].at = (IF p = First THEN "user" ELSE "unborn")
                          /\ \A fd \in FdNums : table[p][fd] = NULL
      /\ ~down
  BY DEF OpenPart!Init, OpenPart!Free, OpenPart!Resting, OpenPart!FdNums, FdNums
<1>3. IsFiniteSet(Born)
  <2>1. Born \subseteq {First}
    BY <1>2 DEF Born
  <2> QED BY <2>1, FS_Singleton, FS_Subset
<1>4. ASSUME NEW n \in Nodes PROVE uses[n] = 0 /\ works[n] = 0 /\ leaves[n] = 0
  <2>1. OpenPart!Named(n) = {}
    BY <1>2, ConstantsFit DEF OpenPart!Named, OpenPart!FdNums, FdNums
  <2>2. OpenPart!Working(n, Busy) = {} /\ OpenPart!Working(n, {"reclaim"}) = {}
    BY <1>2, ConstantsFit DEF OpenPart!Working
  <2> QED BY <2>1, <2>2, FS_EmptySet DEF uses, works, leaves
<1>5. \A n \in Nodes : FreeNode(n) /\ CleanNode(n)
  BY <1>2, <1>4 DEF FreeNode, CleanNode
<1>6. \A p \in Procs : JobOK(p)
  BY <1>2 DEF JobOK, Busy
<1> QED BY <1>1, <1>2, <1>3, <1>5, <1>6 DEF FilesInv, OneEach

\* Whatever a process does.
LEMMA FilesStep ==
  ASSUME FilesInv, NEW p \in Procs, OpenPart!Step(p)
  PROVE  FilesInv' /\ Kept
<1>1. ASSUME NEW fd \in FdNums, OpenPart!Close(p, fd) PROVE FilesInv' /\ Kept
  BY <1>1, Closes DEF OpenPart!Close, OpenPart!At
<1> QED BY <1>1, Starts, Loads, OpenFails, OpenEnds, Writes, Fsyncs, Dups, Syncs, Drops,
           Reclaims, ExecSteps, Forks DEF OpenPart!Step, OpenPart!FdNums, FdNums

\* While the blocks of files move.
LEMMA FilesStutter ==
  ASSUME FilesInv, UNCHANGED openVars
  PROVE  FilesInv'
<1>1. uses' = uses /\ works' = works /\ leaves' = leaves /\ Born' = Born
  BY DEF openVars, uses, works, leaves, Born, OpenPart!Named, OpenPart!Working
<1>2. FilesTypes' /\ OneEach' /\ \A p \in Procs : JobOK(p)'
  BY DEF openVars, FilesInv, FilesTypes, OneEach, JobOK
<1>3. \A n \in Nodes : /\ FreeNode(n)' /\ CleanNode(n)'
                       /\ node'[n].file # NULL => Counted(n)'
  BY <1>1 DEF openVars, FilesInv, FreeNode, CleanNode, Counted
<1> QED BY <1>1, <1>2, <1>3 DEF openVars, FilesInv

\* Every step keeps the invariant and, if it moves, what files contain.
LEMMA FilesNext ==
  ASSUME FilesInv, [FsNext]_fsVars
  PROVE  FilesInv' /\ (Kept \/ UNCHANGED openVars)
<1>1. ASSUME UNCHANGED openVars PROVE FilesInv' /\ (Kept \/ UNCHANGED openVars)
  BY <1>1, FilesStutter
<1>2. ASSUME OpenPart!Next PROVE FilesInv' /\ (Kept \/ UNCHANGED openVars)
  <2>1. CASE OpenPart!Cleanup
    BY <2>1, Cleans
  <2>2. CASE OpenPart!Halted
    BY <1>1, <2>2 DEF OpenPart!Halted, OpenPart!vars, openVars
  <2>3. ASSUME NEW p \in Procs, OpenPart!Step(p) PROVE FilesInv' /\ (Kept \/ UNCHANGED openVars)
    BY <2>3, FilesStep
  <2> QED BY <1>2, <2>1, <2>2, <2>3 DEF OpenPart!Next
<1> QED BY <1>1, <1>2 DEF FsNext, fsVars

\* sfs_inode.c, file.c, vfsfile.c: the inductive invariant.
THEOREM FilesInvHolds == FsSpec => []FilesInv
<1>1. FsInit => FilesInv
  BY FilesInit DEF FsInit
<1>2. FilesInv /\ [FsNext]_fsVars => FilesInv'
  BY FilesNext
<1> QED BY <1>1, <1>2, PTL DEF FsSpec

\* inode.c, sfs_inode.c: open_count, ref_count and reclaim_count count exactly who
\* refers to the inode, none in use is freed, and none exists twice.
THEOREM CountersExact == FsSpec => []NodesExact
<1>1. FilesInv => NodesExact
  <2> SUFFICES ASSUME FilesInv PROVE NodesExact
    OBVIOUS
  <2>1. OpenPart!CountsExact
    <3> SUFFICES ASSUME NEW n \in Nodes, node[n].file # NULL
                 PROVE  /\ node[n].open = OpenPart!Cardinality(OpenPart!Named(n))
                        /\ node[n].ref = node[n].open + leaked[n] + OpenPart!Cardinality(
                             OpenPart!Working(n, {"loaded", "sync", "drop"}))
                        /\ node[n].reclaim = OpenPart!Cardinality(
                             OpenPart!Working(n, {"reclaim"})) + (IF node[n].ref > 0 THEN 1 ELSE 0)
      BY DEF OpenPart!CountsExact
    <3>1. Counted(n)
      BY DEF FilesInv
    <3> QED BY <3>1, SameCount DEF Counted, uses, works, leaves, Busy
  <2>2. ASSUME NEW n \in Nodes,
               \/ OpenPart!Named(n) # {}
               \/ OpenPart!Working(n, {"loaded", "sync", "drop", "reclaim"}) # {}
        PROVE  node[n].file # NULL
    <3>1. CASE OpenPart!Named(n) # {}
      <4>1. PICK p \in Procs, fd \in FdNums : table[p][fd] = n
        BY <3>1 DEF OpenPart!Named, OpenPart!FdNums, FdNums
      <4> QED BY <4>1, InUse, ConstantsFit
    <3>2. CASE OpenPart!Working(n, {"loaded", "sync", "drop", "reclaim"}) # {}
      <4>1. PICK p \in Procs : job[p].node = n /\ job[p].at \in Busy \cup {"reclaim"}
        BY <3>2 DEF OpenPart!Working, Busy
      <4> QED BY <4>1, InUse, ConstantsFit
    <3> QED BY <2>2, <3>1, <3>2
  <2>3. OneEach
    BY DEF FilesInv
  <2> QED BY <2>1, <2>2, <2>3 DEF NodesExact, OpenPart!NodesValid, OneEach
<1> QED BY <1>1, FilesInvHolds, PTL

\* proc.c (init_main), sfs_fs.c (sfs_sync): in the end all of every file is on the disk.
THEOREM NothingLeftBehind == FsSpec => []WrittenInTheEnd
<1>1. FilesInv => WrittenInTheEnd
  <2> SUFFICES ASSUME FilesInv, down, NEW f \in Files PROVE disk[f] = content[f]
    BY DEF WrittenInTheEnd, OpenPart!WrittenInTheEnd, content
  <2>1. OneEach
    BY DEF FilesInv
  <2>2. CASE \A n \in Nodes : node[n].file # f
    BY <2>1, <2>2, ContentIs
  <2>3. ASSUME NEW n \in Nodes, node[n].file = f PROVE disk[f] = content[f]
    <3>1. content[f] = node[n].size
      BY <2>1, <2>3, ContentIs
    <3>2. disk[f] = node[n].size
      BY <2>3, ConstantsFit DEF FilesInv, CleanNode
    <3> QED BY <3>1, <3>2
  <2> QED BY <2>2, <2>3
<1> QED BY <1>1, FilesInvHolds, PTL

\* sfs_inode.c (sfs_close, sfs_reclaim, sfs_load_inode): going in and out of memory
\* loses nothing; only writes and truncating opens change what a file contains.
THEOREM NothingLost == FsSpec => ContentKept
<1>1. FilesInv /\ [FsNext]_fsVars =>
        [\A f \in Files : \/ OpenPart!Content(f)' \in {OpenPart!Content(f), OpenPart!Content(f) + 1}
                          \/ OpenPart!Content(f)' = 0 /\ OpenPart!Cut(f)]_(OpenPart!vars)
  BY FilesNext DEF Kept, content, openVars, OpenPart!vars
<1> QED BY <1>1, FilesInvHolds, PTL DEF FsSpec, ContentKept, OpenPart!ContentKept

-----------------------------------------------------------------------------
(***************************************************************************)
(* The blocks of files on the disk (module SfsFile).  Names(s) says in one *)
(* function which block each place names, so that taking a block and       *)
(* giving it back are changes at one argument.  The operators are proved   *)
(* bottom up, each with an operator that says what it does: AllocBlock,    *)
(* Extend, Load, DropLast, the loops of Truncate, the pieces of Io.        *)
(***************************************************************************)
NPlaces == NDirect + NEntries   \* indices of a file

Inode == [size : Nat, blocks : Nat, direct : [0 .. NDirect - 1 -> 0 .. NBlocks],
          indirect : 0 .. NBlocks]

State == [free : SUBSET Block, din : [Files -> Inode],
          table : [Block -> [Entries -> 0 .. NBlocks]], dirty : [Files -> BOOLEAN],
          disk : [Files -> Inode], failed : BOOLEAN, panic : BOOLEAN, refused : BOOLEAN]

\* The places in which a file may name a block, and what a place names.
Places == Files \X {"direct", "indirect", "entry"} \X (0 .. NPlaces)

At(s, o) ==
  LET d == s.din[o[1]]
  IN  IF o[2] = "direct" THEN IF o[3] < NDirect THEN d.direct[o[3]] ELSE 0
      ELSE IF o[2] = "indirect" THEN IF o[3] = 0 THEN d.indirect ELSE 0
      ELSE IF o[3] \in Entries /\ d.indirect # 0 THEN s.table[d.indirect][o[3]] ELSE 0

Names(s) == [o \in Places |-> At(s, o)]

\* No block is named twice, and free are those that no place names.
Exact(names, free) ==
  /\ \A o, q \in Places : names[o] # 0 /\ names[o] = names[q] => o = q
  /\ \A b \in Block : b \in free <=> \A o \in Places : names[o] # b

\* The place of the block at index i of f.
PlaceOf(f, i) == IF i < NDirect THEN <<f, "direct", i>> ELSE <<f, "entry", i - NDirect>>

\* The first indices of f have a block and no others.
NoHoles(s, f) ==
  /\ s.din[f].blocks <= NPlaces
  /\ \A i \in 0 .. NPlaces - 1 : Names(s)[PlaceOf(f, i)] # 0 <=> i < s.din[f].blocks

\* What holds of the file system at all times, even after failures.
Sound(s) == Exact(Names(s), s.free) /\ \A f \in Files : NoHoles(s, f)

\* What the constants satisfy.
LEMMA SizesFit ==
  /\ NBlocks \in Nat /\ NDirect \in Nat /\ NEntries \in Nat /\ BlkSize \in Nat /\ MaxLen \in Nat
  /\ NBlocks > 0 /\ NDirect > 0 /\ NEntries > 0 /\ BlkSize > 0
  /\ NPlaces \in Nat /\ NPlaces = NDirect + NEntries
  BY SfsFileAssumption DEF NPlaces

\* A place that named nothing gets a free block.
LEMMA Gain ==
  ASSUME NEW names, NEW free, names \in [Places -> 0 .. NBlocks], free \in SUBSET Block,
         Exact(names, free), NEW o \in Places, names[o] = 0, NEW b \in free
  PROVE  Exact([names EXCEPT ![o] = b], free \ {b})
<1> b \in Block /\ b # 0
  BY SizesFit DEF Block
<1>1. \A q \in Places : [names EXCEPT ![o] = b][q] = IF q = o THEN b ELSE names[q]
  OBVIOUS
<1>2. \A q \in Places : names[q] # b
  BY DEF Exact
<1> PICK after : after = [names EXCEPT ![o] = b]
  OBVIOUS
<1>3. \A q, r \in Places : after[q] # 0 /\ after[q] = after[r] => q = r
  BY <1>1, <1>2 DEF Exact
<1>4. \A c \in Block : c \in free \ {b} <=> \A q \in Places : after[q] # c
  <2> TAKE c \in Block
  <2>1. CASE c = b
    BY <1>1, <2>1
  <2>2. CASE c # b
    <3>1. c \in free <=> \A q \in Places : names[q] # c
      BY DEF Exact
    <3>2. c # 0
      BY SizesFit DEF Block
    <3>3. (\A q \in Places : names[q] # c) <=> (\A q \in Places : after[q] # c)
      BY <1>1, <2>2, <3>2
    <3> QED BY <2>2, <3>1, <3>3
  <2> QED BY <2>1, <2>2
<1> QED BY <1>3, <1>4 DEF Exact

\* A place gives its block up.
LEMMA Loss ==
  ASSUME NEW names, NEW free, names \in [Places -> 0 .. NBlocks], free \in SUBSET Block,
         Exact(names, free), NEW o \in Places, names[o] # 0
  PROVE  /\ names[o] \in Block /\ names[o] \notin free
         /\ Exact([names EXCEPT ![o] = 0], free \cup {names[o]})
<1>0. names[o] \in Block /\ \A b \in Block : b # 0
  BY SizesFit DEF Block
<1>1. \A q \in Places : [names EXCEPT ![o] = 0][q] = IF q = o THEN 0 ELSE names[q]
  OBVIOUS
<1>2. \A q \in Places : q # o => names[q] # names[o]
  BY DEF Exact
<1>3. names[o] \notin free
  BY <1>0 DEF Exact
<1> QED BY <1>0, <1>1, <1>2, <1>3 DEF Exact

\* The place of an index.
LEMMA PlaceHas ==
  /\ \A f \in Files, i \in 0 .. NPlaces - 1 : PlaceOf(f, i) \in Places
  /\ \A f, g \in Files, i, j \in 0 .. NPlaces - 1 :
       PlaceOf(f, i) = PlaceOf(g, j) => f = g /\ i = j
  /\ \A f \in Files : <<f, "indirect", 0>> \in Places
  /\ \A f, g \in Files, i \in 0 .. NPlaces - 1 : PlaceOf(f, i) # <<g, "indirect", 0>>
<1> USE SizesFit
<1>1. \A f \in Files, i \in 0 .. NPlaces - 1 : PlaceOf(f, i) \in Places
  BY DEF PlaceOf, Places
<1>2. \A f, g \in Files, i, j \in 0 .. NPlaces - 1 :
       PlaceOf(f, i) = PlaceOf(g, j) => f = g /\ i = j
  BY DEF PlaceOf
<1>3. \A f \in Files : <<f, "indirect", 0>> \in Places
  BY DEF Places
<1>4. \A f, g \in Files, i \in 0 .. NPlaces - 1 : PlaceOf(f, i) # <<g, "indirect", 0>>
  BY DEF PlaceOf
<1> QED BY <1>1, <1>2, <1>3, <1>4

\* What a place names is a block or nothing; what Mapped() finds.
LEMMA NamesWhat ==
  ASSUME NEW s \in State
  PROVE  /\ Names(s) \in [Places -> 0 .. NBlocks]
         /\ \A f \in Files, i \in 0 .. NPlaces - 1 : Mapped(s, f, i) = Names(s)[PlaceOf(f, i)]
         /\ \A f \in Files : Names(s)[<<f, "indirect", 0>>] = s.din[f].indirect
<1> USE SizesFit
<1>1. ASSUME NEW o \in Places PROVE At(s, o) \in 0 .. NBlocks
  <2> DEFINE d == s.din[o[1]]
  <2>1. o[1] \in Files /\ o[3] \in 0 .. NPlaces
    BY DEF Places
  <2>2. d \in Inode /\ s.table \in [Block -> [Entries -> 0 .. NBlocks]]
    BY <2>1 DEF State
  <2>3. d.direct \in [0 .. NDirect - 1 -> 0 .. NBlocks] /\ d.indirect \in 0 .. NBlocks
    BY <2>2 DEF Inode
  <2>4. d.indirect # 0 => d.indirect \in Block
    BY <2>3 DEF Block
  <2> HIDE DEF d
  <2>5. At(s, o) = IF o[2] = "direct" THEN IF o[3] < NDirect THEN d.direct[o[3]] ELSE 0
      ELSE IF o[2] = "indirect" THEN IF o[3] = 0 THEN d.indirect ELSE 0
      ELSE IF o[3] \in Entries /\ d.indirect # 0 THEN s.table[d.indirect][o[3]] ELSE 0
    BY DEF At, d
  <2> QED BY <2>1, <2>2, <2>3, <2>4, <2>5
<1>2. ASSUME NEW f \in Files, NEW i \in 0 .. NPlaces - 1
      PROVE  Mapped(s, f, i) = Names(s)[PlaceOf(f, i)]
  <2>1. PlaceOf(f, i) \in Places
    BY PlaceHas
  <2>2. Names(s)[PlaceOf(f, i)] = At(s, PlaceOf(f, i))
    BY <2>1 DEF Names
  <2> QED BY <2>2 DEF At, Mapped, PlaceOf, Entries
<1>3. ASSUME NEW f \in Files PROVE Names(s)[<<f, "indirect", 0>>] = s.din[f].indirect
  <2>1. <<f, "indirect", 0>> \in Places
    BY PlaceHas
  <2> QED BY <2>1 DEF Names, At
<1> QED BY <1>1, <1>2, <1>3 DEF Names
-----------------------------------------------------------------------------
\* What sfs_block_alloc() gives.
Allocated(s, a) ==
  /\ a.ino \in s.free
  /\ a.s \in State
  /\ a.s.free = s.free \ {a.ino}
  /\ a.s.din = s.din /\ a.s.dirty = s.dirty /\ a.s.disk = s.disk
  /\ a.s.failed = s.failed /\ a.s.panic = s.panic /\ a.s.refused = s.refused
  /\ \A b \in Block, j \in Entries :
       a.s.table[b][j] = IF b = a.ino THEN 0 ELSE s.table[b][j]

\* A failure that changes nothing else.
RanFull(s, r) ==
  /\ r \in State
  /\ r.free = s.free /\ r.din = s.din /\ r.dirty = s.dirty /\ r.disk = s.disk
  /\ r.table = s.table /\ r.panic = s.panic
  /\ r.failed /\ r.refused

\* sfs_block_alloc() gives a free block, cleared, or fails.
LEMMA AllocGives ==
  ASSUME NEW s \in State, NEW a, a = AllocBlock(s)
  PROVE  /\ a = [s |-> a.s, ino |-> a.ino]
         /\ \/ a.ino = 0 /\ RanFull(s, a.s)
            \/ a.ino # 0 /\ Allocated(s, a)
<1>1. CASE s.free = {}
  <2>1. a = [s |-> [Fail(s) EXCEPT !.refused = TRUE], ino |-> 0]
    BY <1>1 DEF AllocBlock
  <2>2. RanFull(s, [Fail(s) EXCEPT !.refused = TRUE])
    BY DEF RanFull, State, Fail
  <2> QED BY <2>1, <2>2
<1>2. CASE s.free # {}
  <2> DEFINE b == CHOOSE x \in s.free : \A y \in s.free : x <= y
  <2>1. s.free \in SUBSET Nat /\ s.free \subseteq Block
    BY SizesFit DEF State, Block
  <2>2. \E x \in s.free : \A y \in s.free : x <= y
    BY <1>2, <2>1, LeastOf
  <2>3. b \in s.free
    BY <2>2
  <2>4. a = [s |-> [s EXCEPT !.free = @ \ {b}, !.table[b] = NoEntry], ino |-> b]
    BY <1>2 DEF AllocBlock
  <2> HIDE DEF b
  <2>5. b \in Block /\ b # 0
    BY <2>1, <2>3, SizesFit DEF Block
  <2>6. NoEntry \in [Entries -> 0 .. NBlocks] /\ \A j \in Entries : NoEntry[j] = 0
    BY SizesFit DEF NoEntry
  <2>7. PICK t : t = [s EXCEPT !.free = @ \ {b}, !.table[b] = NoEntry]
    OBVIOUS
  <2>8. /\ t \in State
        /\ t.free = s.free \ {b}
        /\ t.din = s.din /\ t.dirty = s.dirty /\ t.disk = s.disk
        /\ t.failed = s.failed /\ t.panic = s.panic /\ t.refused = s.refused
        /\ t.table = [s.table EXCEPT ![b] = NoEntry]
    BY <2>5, <2>6, <2>7 DEF State
  <2>9. \A c \in Block, j \in Entries : t.table[c][j] = IF c = b THEN 0 ELSE s.table[c][j]
    BY <2>5, <2>6, <2>8 DEF State
  <2>10. a.s = t /\ a.ino = b
    BY <2>4, <2>7
  <2>11. Allocated(s, a)
    BY <2>3, <2>8, <2>9, <2>10, ZenonT(30) DEF Allocated
  <2> QED BY <2>4, <2>5, <2>10, <2>11
<1> QED BY <1>1, <1>2

\* A block that is free and gets cleared is named nowhere.
LEMMA AllocNames ==
  ASSUME NEW s \in State, Exact(Names(s), s.free), NEW a, Allocated(s, a)
  PROVE  Names(a.s) = Names(s)
<1>1. \A f \in Files : s.din[f].indirect # a.ino
  <2> TAKE f \in Files
  <2>1. a.ino \in Block
    BY DEF State, Allocated
  <2>2. Names(s)[<<f, "indirect", 0>>] # a.ino
    BY <2>1, PlaceHas DEF Exact, Allocated
  <2> QED BY <2>2, NamesWhat
<1>2. ASSUME NEW o \in Places PROVE At(a.s, o) = At(s, o)
  <2>1. o[1] \in Files
    BY DEF Places
  <2>2. a.s.din = s.din /\ s.din[o[1]].indirect # a.ino
    BY <1>1, <2>1 DEF Allocated
  <2>3. s.din[o[1]].indirect # 0 => s.din[o[1]].indirect \in Block
    <3>1. s.din[o[1]] \in Inode
      BY <2>1 DEF State
    <3> QED BY <3>1, SizesFit DEF Inode, Block
  <2>4. s.din[o[1]].indirect # 0 =>
          \A j \in Entries : a.s.table[s.din[o[1]].indirect][j] = s.table[s.din[o[1]].indirect][j]
    BY <2>2, <2>3 DEF Allocated
  <2> QED BY <2>2, <2>4 DEF At
<1> QED BY <1>2 DEF Names
-----------------------------------------------------------------------------
\* What sfs_bmap_get_sub_nolock() gives: entry j of the indirect block, which is
\* ent or a new one.
Entered(s, ent, j, b) ==
  /\ b.ino # 0 /\ b.ino \in s.free
  /\ b.s \in State
  /\ b.s.din = s.din /\ b.s.dirty = s.dirty /\ b.s.disk = s.disk
  /\ b.s.failed = s.failed /\ b.s.panic = s.panic /\ b.s.refused = s.refused
  /\ b.ent \in Block /\ b.ent # b.ino
  /\ ent # 0 => b.ent = ent
  /\ ent = 0 => b.ent \in s.free
  /\ b.s.free = (IF ent = 0 THEN s.free \ {b.ent} ELSE s.free) \ {b.ino}
  /\ \A c \in Block, k \in Entries :
       b.s.table[c][k] = IF c = b.ent /\ k = j THEN b.ino
                         ELSE IF c = b.ino \/ (ent = 0 /\ c = b.ent) THEN 0 ELSE s.table[c][k]

\* A state with one entry of an indirect block set.
WithEntry(s, e, j, b) == [s EXCEPT !.table[e][j] = b]

\* Entry j of block e of s is b in t, and all others are as they were.
EntrySet(s, e, j, b, t) ==
  \A c \in Block, k \in Entries : t.table[c][k] = IF c = e /\ k = j THEN b ELSE s.table[c][k]

\* It differs in that entry.
LEMMA SetEntry ==
  ASSUME NEW s, s \in State, NEW e, e \in Block, NEW j, j \in Entries,
         NEW b, b \in 0 .. NBlocks, NEW t, t = WithEntry(s, e, j, b)
  PROVE  /\ t \in State
         /\ t.free = s.free /\ t.din = s.din /\ t.dirty = s.dirty /\ t.disk = s.disk
         /\ t.failed = s.failed /\ t.panic = s.panic /\ t.refused = s.refused
         /\ EntrySet(s, e, j, b, t)
<1> USE DEF WithEntry
<1>1. PICK u : u = [s.table EXCEPT ![e][j] = b]
  OBVIOUS
<1>2. u \in [Block -> [Entries -> 0 .. NBlocks]]
  BY <1>1, SizesFit DEF State, Block
<1>3. \A c \in Block, k \in Entries : u[c][k] = IF c = e /\ k = j THEN b ELSE s.table[c][k]
  BY <1>1 DEF State
<1>4. t = [s EXCEPT !.table = u]
  BY <1>1 DEF State
<1>5. /\ t \in State
      /\ t.free = s.free /\ t.din = s.din /\ t.dirty = s.dirty /\ t.disk = s.disk
      /\ t.failed = s.failed /\ t.panic = s.panic /\ t.refused = s.refused
      /\ t.table = u
  BY <1>2, <1>4 DEF State
<1> QED BY <1>3, <1>5 DEF EntrySet

\* sfs_bmap_get_sub_nolock() gives an entry or fails and changes nothing.
LEMMA AllocSubGives ==
  ASSUME NEW s \in State, Exact(Names(s), s.free), NEW f \in Files, NEW j \in Entries,
         NEW b, b = AllocSub(s, s.din[f].indirect, j)
  PROVE  \/ b.ino = 0 /\ b.ent = s.din[f].indirect /\ RanFull(s, b.s)
         \/ Entered(s, s.din[f].indirect, j, b)
<1>a. PICK ent : ent = s.din[f].indirect
  OBVIOUS
<1>b. PICK e : e = IF ent = 0 THEN AllocBlock(s) ELSE [s |-> s, ino |-> ent]
  OBVIOUS
<1>c. PICK a : a = IF e.ino = 0 THEN e ELSE AllocBlock(e.s)
  OBVIOUS
<1>0. b = IF e.ino = 0 \/ a.ino = 0
          THEN [s |-> [Fail(s) EXCEPT !.refused = TRUE], ent |-> ent, ino |-> 0]
          ELSE [s |-> [a.s EXCEPT !.table[e.ino][j] = a.ino], ent |-> e.ino, ino |-> a.ino]
  BY <1>a, <1>b, <1>c, Zenon DEF AllocSub
<1>1. RanFull(s, [Fail(s) EXCEPT !.refused = TRUE])
  BY DEF RanFull, State, Fail
<1>2. ent \in 0 .. NBlocks /\ (ent # 0 => ent \in Block)
  <2>1. s.din[f] \in Inode
    BY DEF State
  <2> QED BY <1>a, <2>1, SizesFit DEF Inode, Block
<1>3. CASE e.ino = 0 \/ a.ino = 0
  <2>1. PICK r : r = [Fail(s) EXCEPT !.refused = TRUE]
    OBVIOUS
  <2>2. b = [s |-> r, ent |-> ent, ino |-> 0]
    BY <1>0, <1>3, <2>1, Zenon
  <2>3. RanFull(s, r)
    BY <1>1, <2>1, Zenon
  <2> QED BY <1>a, <2>2, <2>3
<1>4. CASE e.ino # 0 /\ a.ino # 0
  <2>1. e.s \in State /\ e.ino \in Block
        /\ e.s.din = s.din /\ e.s.dirty = s.dirty /\ e.s.disk = s.disk
        /\ e.s.failed = s.failed /\ e.s.panic = s.panic /\ e.s.refused = s.refused
        /\ (ent # 0 => e.ino = ent) /\ (ent = 0 => e.ino \in s.free)
        /\ e.s.free = (IF ent = 0 THEN s.free \ {e.ino} ELSE s.free)
        /\ e.ino \notin e.s.free
        /\ \A c \in Block, k \in Entries :
             e.s.table[c][k] = IF ent = 0 /\ c = e.ino THEN 0 ELSE s.table[c][k]
    <3>1. CASE ent = 0
      <4>1. e = AllocBlock(s)
        BY <1>b, <3>1
      <4>2. Allocated(s, e)
        BY <1>4, <4>1, AllocGives
      <4>3. e.ino \in Block
        BY <4>2 DEF Allocated, State
      <4> QED BY <3>1, <4>2, <4>3 DEF Allocated
    <3>2. CASE ent # 0
      <4>1. e = [s |-> s, ino |-> ent]
        BY <1>b, <3>2
      <4>2. e.s = s /\ e.ino = ent
        BY <4>1
      <4>3. ent \notin s.free
        <5>1. <<f, "indirect", 0>> \in Places /\ Names(s)[<<f, "indirect", 0>>] = ent
          BY <1>a, PlaceHas, NamesWhat
        <5> QED BY <1>2, <3>2, <5>1 DEF Exact
      <4> QED BY <1>2, <3>2, <4>2, <4>3
    <3> QED BY <3>1, <3>2
  <2>2. Allocated(e.s, a)
    <3>1. a = AllocBlock(e.s)
      BY <1>c, <1>4
    <3> QED BY <1>4, <2>1, <3>1, AllocGives
  <2>3. PICK t : t = [a.s EXCEPT !.table[e.ino][j] = a.ino]
    OBVIOUS
  <2>4. a.ino \in Block /\ a.ino \in 0 .. NBlocks /\ a.s \in State /\ a.ino # e.ino
    <3>1. a.ino \in e.s.free /\ a.s \in State
      BY <2>2 DEF Allocated
    <3>2. e.s.free \subseteq Block /\ e.ino \notin e.s.free
      BY <2>1 DEF State
    <3>3. Block \subseteq 0 .. NBlocks
      BY SizesFit DEF Block
    <3> QED BY <3>1, <3>2, <3>3
  <2>5. /\ t \in State
        /\ t.free = a.s.free /\ t.din = a.s.din /\ t.dirty = a.s.dirty /\ t.disk = a.s.disk
        /\ t.failed = a.s.failed /\ t.panic = a.s.panic /\ t.refused = a.s.refused
        /\ EntrySet(a.s, e.ino, j, a.ino, t)
    <3>1. t = WithEntry(a.s, e.ino, j, a.ino)
      BY <2>3 DEF WithEntry
    <3>2. a.s \in State /\ e.ino \in Block /\ a.ino \in 0 .. NBlocks
      BY <2>1, <2>4
    <3> QED BY <3>1, <3>2, SetEntry
  <2>6. b.s = t /\ b.ent = e.ino /\ b.ino = a.ino
    <3>1. b = [s |-> t, ent |-> e.ino, ino |-> a.ino]
      BY <1>0, <1>4, <2>3, Zenon
    <3> QED BY <3>1
  <2>7. \A c \in Block, k \in Entries :
       t.table[c][k] = IF c = e.ino /\ k = j THEN a.ino
                       ELSE IF c = a.ino \/ (ent = 0 /\ c = e.ino) THEN 0 ELSE s.table[c][k]
    BY <2>1, <2>2, <2>5 DEF Allocated, EntrySet
  <2>8. t.free = (IF ent = 0 THEN s.free \ {e.ino} ELSE s.free) \ {a.ino} /\ a.ino \in s.free
    BY <2>1, <2>2, <2>5 DEF Allocated
  <2>9. /\ t.din = s.din /\ t.dirty = s.dirty /\ t.disk = s.disk
        /\ t.failed = s.failed /\ t.panic = s.panic /\ t.refused = s.refused
    BY <2>1, <2>2, <2>5 DEF Allocated
  <2>10. Entered(s, ent, j, b)
    BY <1>4, <2>1, <2>4, <2>5, <2>6, <2>7, <2>8, <2>9 DEF Entered
  <2> QED BY <1>a, <2>10
<1> QED BY <1>3, <1>4

-----------------------------------------------------------------------------
\* A state with the inode of f and its flag set.
WithInode(s, f, d, x) ==
  [s EXCEPT !.din = [s.din EXCEPT ![f] = d], !.dirty = [s.dirty EXCEPT ![f] = x]]

\* t is s but for the inode of f, which is d in t, and its flag, which is x.
InodeSet(s, f, d, x, t) ==
  /\ t.free = s.free /\ t.table = s.table /\ t.disk = s.disk
  /\ t.failed = s.failed /\ t.panic = s.panic /\ t.refused = s.refused
  /\ t.din[f] = d /\ t.dirty[f] = x
  /\ \A g \in Files : g # f => t.din[g] = s.din[g] /\ t.dirty[g] = s.dirty[g]

\* It differs in these.
LEMMA SetInode ==
  ASSUME NEW s, s \in State, NEW f \in Files, NEW d, d \in Inode, NEW x, x \in BOOLEAN,
         NEW t, t = WithInode(s, f, d, x)
  PROVE  t \in State /\ InodeSet(s, f, d, x, t)
<1> USE DEF WithInode
<1>1. PICK din : din = [s.din EXCEPT ![f] = d]
  OBVIOUS
<1>2. PICK dirty : dirty = [s.dirty EXCEPT ![f] = x]
  OBVIOUS
<1>3. din \in [Files -> Inode] /\ din[f] = d /\ \A g \in Files : g # f => din[g] = s.din[g]
  BY <1>1 DEF State
<1>4. /\ dirty \in [Files -> BOOLEAN] /\ dirty[f] = x
      /\ \A g \in Files : g # f => dirty[g] = s.dirty[g]
  BY <1>2 DEF State
<1>5. t = [s EXCEPT !.din = din, !.dirty = dirty]
  BY <1>1, <1>2
<1>6. /\ t \in State
      /\ t.free = s.free /\ t.table = s.table /\ t.disk = s.disk
      /\ t.failed = s.failed /\ t.panic = s.panic /\ t.refused = s.refused
      /\ t.din = din /\ t.dirty = dirty
  BY <1>3, <1>4, <1>5 DEF State
<1> QED BY <1>3, <1>4, <1>6 DEF InodeSet

\* Only the inode of f, the blocks and the entries differ.
OnlyFile(s, t, f) ==
  /\ t.disk = s.disk /\ t.panic = s.panic /\ t.failed = s.failed /\ t.refused = s.refused
  /\ t.din[f].size = s.din[f].size
  /\ s.dirty[f] => t.dirty[f]
  /\ \A g \in Files : g # f => t.din[g] = s.din[g] /\ t.dirty[g] = s.dirty[g]

\* Index i of f has got block b, and no other index changes.
Mapped1(s, t, f, i, b) ==
  \A g \in Files, k \in 0 .. NPlaces - 1 :
    Names(t)[PlaceOf(g, k)] = IF g = f /\ k = i THEN b ELSE Names(s)[PlaceOf(g, k)]

\* What sfs_bmap_get_nolock() gives for an index without block.
Extended(s, f, i, a) ==
  /\ a.ino \in s.free /\ a.ino \notin a.s.free
  /\ a.s \in State
  /\ Exact(Names(a.s), a.s.free)
  /\ Mapped1(s, a.s, f, i, a.ino)
  /\ OnlyFile(s, a.s, f)
  /\ a.s.din[f].blocks = s.din[f].blocks

\* A direct pointer gets a block.
LEMMA ExtendDirect ==
  ASSUME NEW s \in State, Exact(Names(s), s.free), NEW f \in Files,
         NEW i \in 0 .. NPlaces - 1, i < NDirect, Names(s)[PlaceOf(f, i)] = 0,
         NEW a, a = Extend(s, f, i)
  PROVE  \/ a.ino = 0 /\ RanFull(s, a.s)
         \/ a.ino # 0 /\ Extended(s, f, i, a)
<1>a. PICK b : b = AllocBlock(s)
  OBVIOUS
<1>0. a = IF b.ino = 0 THEN b
          ELSE [b EXCEPT !.s.din[f].direct[i] = b.ino, !.s.dirty[f] = TRUE]
  BY <1>a, Zenon DEF Extend
<1>1. CASE b.ino = 0
  BY <1>0, <1>a, <1>1, AllocGives
<1>2. CASE b.ino # 0
  <2>1. Allocated(s, b)
    BY <1>a, <1>2, AllocGives
  <2>2. PICK d : d = [b.s.din[f] EXCEPT !.direct[i] = b.ino]
    OBVIOUS
  <2>3. PICK t : t = WithInode(b.s, f, d, TRUE)
    OBVIOUS
  <2>4. a.s = t /\ a.ino = b.ino
    <3>1. b = [s |-> b.s, ino |-> b.ino]
      BY <1>a, AllocGives
    <3>2. PICK m : m = [b EXCEPT !.s.din[f].direct[i] = b.ino]
      OBVIOUS
    <3>3. a = [m EXCEPT !.s.dirty[f] = TRUE]
      BY <1>0, <1>2, <3>2
    <3>4. PICK ms : ms = [b.s EXCEPT !.din[f].direct[i] = b.ino]
      OBVIOUS
    <3>5. m = [s |-> ms, ino |-> b.ino]
      BY <3>1, <3>2, <3>4
    <3>6. a = [s |-> [ms EXCEPT !.dirty[f] = TRUE], ino |-> b.ino]
      BY <3>3, <3>5
    <3>7. ms = [b.s EXCEPT !.din = [b.s.din EXCEPT ![f] = d]]
      BY <2>2, <3>4
    <3>8. b.s \in State
      BY <2>1 DEF Allocated
    <3>9. [ms EXCEPT !.dirty[f] = TRUE] = t
      BY <2>3, <3>7, <3>8 DEF WithInode, State
    <3> QED BY <3>6, <3>9
  <2>5. b.s.din[f] \in Inode /\ b.s.din = s.din /\ b.s \in State
    BY <2>1 DEF Allocated, State
  <2>6. b.ino \in Block /\ b.ino \in 0 .. NBlocks
    BY <2>1, SizesFit DEF Allocated, State, Block
  <2>7. /\ d \in Inode /\ d.size = s.din[f].size /\ d.blocks = s.din[f].blocks
        /\ d.indirect = s.din[f].indirect
        /\ \A k \in 0 .. NDirect - 1 : d.direct[k] = IF k = i THEN b.ino ELSE s.din[f].direct[k]
    BY <2>2, <2>5, <2>6 DEF Inode
  <2>8. t \in State /\ InodeSet(b.s, f, d, TRUE, t)
    BY <2>3, <2>5, <2>7, SetInode
  <2>9. PICK o : o = PlaceOf(f, i)
    OBVIOUS
  <2>10. o \in Places /\ o = <<f, "direct", i>>
    BY <2>9, PlaceHas DEF PlaceOf
  <2>11. Names(b.s) = Names(s)
    BY <2>1, AllocNames
  <2>12. Names(t) = [Names(s) EXCEPT ![o] = b.ino]
    <3>1. ASSUME NEW q \in Places PROVE At(t, q) = IF q = o THEN b.ino ELSE At(b.s, q)
      <4>1. q[1] \in Files /\ q[3] \in 0 .. NPlaces /\ q = <<q[1], q[2], q[3]>>
        BY DEF Places
      <4>2. CASE q[1] = f
        <5>1. t.din[q[1]] = d /\ b.s.din[q[1]] = s.din[f] /\ t.table = b.s.table
          BY <2>5, <2>8, <4>2 DEF InodeSet
        <5>2. q[2] = "direct" /\ q[3] = i => q = o
          BY <2>10, <4>1, <4>2
        <5>3. q = o => q[2] = "direct" /\ q[3] = i
          BY <2>10
        <5>4. q[3] < NDirect => q[3] \in 0 .. NDirect - 1
          BY <4>1, SizesFit
        <5> QED BY <2>7, <5>1, <5>2, <5>3, <5>4 DEF At
      <4>3. CASE q[1] # f
        <5>1. t.din[q[1]] = b.s.din[q[1]] /\ t.table = b.s.table
          BY <2>8, <4>1, <4>3 DEF InodeSet
        <5>2. q # o
          BY <2>10, <4>3
        <5> QED BY <5>1, <5>2 DEF At
      <4> QED BY <4>2, <4>3
    <3>2. \A q \in Places : At(b.s, q) = Names(s)[q]
      BY <2>11 DEF Names
    <3> QED BY <3>1, <3>2 DEF Names
  <2>13. Exact(Names(t), t.free) /\ b.ino \notin t.free
    <3>1. t.free = s.free \ {b.ino}
      BY <2>1, <2>8 DEF Allocated, InodeSet
    <3>2. Exact([Names(s) EXCEPT ![o] = b.ino], s.free \ {b.ino})
      <4>1. b.ino \in s.free /\ s.free \in SUBSET Block
        BY <2>1 DEF Allocated, State
      <4>2. Names(s) \in [Places -> 0 .. NBlocks] /\ Names(s)[o] = 0
        BY <2>9, NamesWhat
      <4> QED BY <2>10, <4>1, <4>2, Gain
    <3> QED BY <2>12, <3>1, <3>2
  <2>14. Mapped1(s, t, f, i, b.ino)
    <3>1. Names(s) \in [Places -> 0 .. NBlocks]
      BY NamesWhat
    <3> QED BY <2>9, <2>12, <3>1, PlaceHas DEF Mapped1
  <2>15. OnlyFile(s, t, f) /\ t.din[f].blocks = s.din[f].blocks
    BY <2>1, <2>7, <2>8 DEF OnlyFile, InodeSet, Allocated
  <2>16. b.ino \in s.free
    BY <2>1 DEF Allocated
  <2> QED BY <1>2, <2>4, <2>8, <2>13, <2>14, <2>15, <2>16 DEF Extended
<1> QED BY <1>1, <1>2

\* What is written into an indirect block shows in the file that has it, and only there.
LEMMA EntryShows ==
  ASSUME NEW s \in State, Exact(Names(s), s.free), NEW f \in Files, NEW j \in Entries,
         NEW ent, ent = s.din[f].indirect, NEW b, Entered(s, ent, j, b),
         NEW d, d.indirect = b.ent, d.direct = s.din[f].direct,
         NEW t, t.table = b.s.table, t.din[f] = d,
         \A g \in Files : g # f => t.din[g] = s.din[g]
  PROVE  \A q \in Places :
           At(t, q) = IF q = <<f, "entry", j>> THEN b.ino
                      ELSE IF q = <<f, "indirect", 0>> THEN b.ent ELSE At(s, q)
<1> TAKE q \in Places
<1>1. /\ q[1] \in Files /\ q[3] \in 0 .. NPlaces /\ q = <<q[1], q[2], q[3]>>
      /\ q[2] \in {"direct", "indirect", "entry"}
  BY DEF Places
<1>2. b.ent # 0 /\ b.ent \in Block /\ b.ino # b.ent /\ b.ino \in Block
  BY SizesFit DEF Entered, Block, State
<1>3. \A g \in Files : /\ s.din[g].indirect \in 0 .. NBlocks
                       /\ s.din[g].indirect # 0 => s.din[g].indirect \in Block
  <2> TAKE g \in Files
  <2>1. s.din[g] \in Inode
    BY DEF State
  <2> QED BY <2>1, SizesFit DEF Inode, Block
<1>4. \A k \in Entries : t.table[b.ent][k] = IF k = j THEN b.ino
                                             ELSE IF ent = 0 THEN 0 ELSE s.table[ent][k]
  BY <1>2 DEF Entered
<1>5. CASE q[1] = f /\ q[2] = "direct"
  BY <1>1, <1>5 DEF At
<1>6. CASE q[1] = f /\ q[2] = "indirect"
  <2>1. q = <<f, "indirect", 0>> <=> q[3] = 0
    BY <1>1, <1>6
  <2>2. q # <<f, "entry", j>>
    BY <1>6
  <2> QED BY <1>6, <2>1, <2>2 DEF At
<1>7. CASE q[1] = f /\ q[2] = "entry"
  <2>1. q = <<f, "entry", j>> <=> q[3] = j
    BY <1>1, <1>7
  <2>2. q # <<f, "indirect", 0>>
    BY <1>7
  <2>3. At(t, q) = IF q[3] \in Entries THEN t.table[b.ent][q[3]] ELSE 0
    BY <1>2, <1>7 DEF At
  <2>4. At(s, q) = IF q[3] \in Entries /\ ent # 0 THEN s.table[ent][q[3]] ELSE 0
    BY <1>7 DEF At
  <2> QED BY <1>4, <2>1, <2>2, <2>3, <2>4
<1>8. CASE q[1] # f
  <2>1. q # <<f, "entry", j>> /\ q # <<f, "indirect", 0>> /\ t.din[q[1]] = s.din[q[1]]
    BY <1>1, <1>8
  <2>2. PICK ind : ind = s.din[q[1]].indirect
    OBVIOUS
  <2>3. Names(s)[<<q[1], "indirect", 0>>] = ind /\ Names(s)[<<f, "indirect", 0>>] = ent
    BY <1>1, <2>2, NamesWhat
  <2>4. <<q[1], "indirect", 0>> \in Places /\ <<f, "indirect", 0>> \in Places
        /\ <<q[1], "indirect", 0>> # <<f, "indirect", 0>>
    BY <1>1, <1>8, PlaceHas
  <2>5. ind # 0 => ind # b.ino /\ ind # b.ent /\ ind \in Block
    <3>1. ind # 0 => ind \in Block
      BY <1>1, <1>3, <2>2
    <3>2. ind # 0 => ind # b.ino
      BY <2>3, <2>4, <3>1 DEF Exact, Entered
    <3>3. ind # 0 => ind # b.ent
      <4>1. CASE ent = 0
        BY <2>3, <2>4, <3>1, <4>1 DEF Exact, Entered
      <4>2. CASE ent # 0
        BY <2>3, <2>4, <3>1, <4>2 DEF Exact, Entered
      <4> QED BY <4>1, <4>2
    <3> QED BY <3>1, <3>2, <3>3
  <2>6. ind # 0 => \A k \in Entries : t.table[ind][k] = s.table[ind][k]
    BY <2>5 DEF Entered
  <2> QED BY <1>8, <2>1, <2>2, <2>6 DEF At
<1> QED BY <1>1, <1>5, <1>6, <1>7, <1>8

\* An entry of the indirect block gets a block.
LEMMA ExtendIndirect ==
  ASSUME NEW s \in State, Exact(Names(s), s.free), NEW f \in Files,
         NEW i \in 0 .. NPlaces - 1, ~(i < NDirect), Names(s)[PlaceOf(f, i)] = 0,
         NEW a, a = Extend(s, f, i)
  PROVE  \/ a.ino = 0 /\ RanFull(s, a.s)
         \/ a.ino # 0 /\ Extended(s, f, i, a)
<1>a. PICK ent : ent = s.din[f].indirect
  OBVIOUS
<1>b. PICK j : j = i - NDirect
  OBVIOUS
<1>c. PICK b : b = AllocSub(s, ent, j)
  OBVIOUS
<1>0. a = [s   |-> [b.s EXCEPT !.din[f].indirect = b.ent, !.dirty[f] = @ \/ b.ent # ent],
           ino |-> b.ino]
  BY <1>a, <1>b, <1>c, Zenon DEF Extend
<1>1. j \in Entries
  BY <1>b, SizesFit DEF Entries
<1>2. \/ b.ino = 0 /\ b.ent = ent /\ RanFull(s, b.s)
      \/ Entered(s, ent, j, b)
  BY <1>a, <1>c, <1>1, AllocSubGives
<1>3. s.din[f] \in Inode /\ ent \in 0 .. NBlocks
  BY <1>a DEF State, Inode
<1>4. b.s \in State /\ b.s.din = s.din /\ b.s.dirty = s.dirty /\ b.ent \in 0 .. NBlocks
  BY <1>2, <1>3, SizesFit DEF RanFull, Entered, Block
<1>5. PICK d : d = [s.din[f] EXCEPT !.indirect = b.ent]
  OBVIOUS
<1>6. /\ d \in Inode /\ d.size = s.din[f].size /\ d.blocks = s.din[f].blocks
      /\ d.indirect = b.ent /\ d.direct = s.din[f].direct
  BY <1>3, <1>4, <1>5 DEF Inode
<1>7. PICK x : x = (s.dirty[f] \/ b.ent # ent)
  OBVIOUS
<1>8. PICK t : t = WithInode(b.s, f, d, x)
  OBVIOUS
<1>9. a.s = t /\ a.ino = b.ino
  <2>1. PICK ms : ms = [b.s EXCEPT !.din[f].indirect = b.ent]
    OBVIOUS
  <2>2. ms = [b.s EXCEPT !.din = [b.s.din EXCEPT ![f] = d]]
    BY <1>4, <1>5, <2>1
  <2>3. ms.dirty = s.dirty
    BY <1>4, <2>2
  <2>4. a.s = [ms EXCEPT !.dirty[f] = @ \/ b.ent # ent] /\ a.ino = b.ino
    BY <1>0, <2>1
  <2>5. a.s = [ms EXCEPT !.dirty[f] = x]
    BY <1>4, <1>7, <2>3, <2>4 DEF State
  <2>6. [ms EXCEPT !.dirty[f] = x] = t
    BY <1>4, <1>8, <2>2 DEF WithInode, State
  <2> QED BY <2>4, <2>5, <2>6
<1>10. t \in State /\ InodeSet(b.s, f, d, x, t)
  BY <1>4, <1>6, <1>7, <1>8, SetInode
<1>11. CASE b.ino = 0 /\ b.ent = ent /\ RanFull(s, b.s)
  <2>1. t.din = s.din
    <3>1. d = s.din[f]
      BY <1>3, <1>5, <1>a, <1>11 DEF Inode
    <3>2. \A g \in Files : t.din[g] = s.din[g]
      BY <1>4, <1>10, <3>1 DEF InodeSet
    <3> QED BY <1>10, <3>2 DEF State
  <2>2. t.dirty = s.dirty
    <3>1. x = s.dirty[f]
      BY <1>7, <1>11 DEF State
    <3>2. \A g \in Files : t.dirty[g] = s.dirty[g]
      BY <1>4, <1>10, <3>1 DEF InodeSet
    <3> QED BY <1>10, <3>2 DEF State
  <2>3. RanFull(s, t)
    BY <1>10, <1>11, <2>1, <2>2 DEF RanFull, InodeSet
  <2> QED BY <1>9, <1>11, <2>3
<1>12. CASE Entered(s, ent, j, b)
  <2>1. PICK o : o = PlaceOf(f, i)
    OBVIOUS
  <2>2. o = <<f, "entry", j>> /\ o \in Places
    BY <1>b, <2>1, PlaceHas DEF PlaceOf
  <2>3. PICK n : n = <<f, "indirect", 0>>
    OBVIOUS
  <2>4. n \in Places /\ n # o /\ Names(s)[n] = ent
    BY <1>a, <2>1, <2>3, PlaceHas, NamesWhat
  <2>5. \A q \in Places :
           At(t, q) = IF q = o THEN b.ino ELSE IF q = n THEN b.ent ELSE At(s, q)
    <3>1. t.table = b.s.table /\ t.din[f] = d /\ \A g \in Files : g # f => t.din[g] = s.din[g]
      BY <1>4, <1>10 DEF InodeSet
    <3> QED BY <1>a, <1>1, <1>6, <1>12, <2>2, <2>3, <3>1, EntryShows
  <2>6. Names(s) \in [Places -> 0 .. NBlocks] /\ Names(s)[o] = 0
    BY <2>1, NamesWhat
  <2>7. b.ino \in s.free /\ s.free \in SUBSET Block /\ b.ent # b.ino
        /\ (ent = 0 => b.ent \in s.free) /\ (ent # 0 => b.ent = ent)
        /\ t.free = (IF ent = 0 THEN s.free \ {b.ent} ELSE s.free) \ {b.ino}
    BY <1>10, <1>12 DEF Entered, InodeSet, State
  <2>8. Exact(Names(t), t.free)
    <3>1. CASE ent # 0
      <4>1. Names(t) = [Names(s) EXCEPT ![o] = b.ino]
        BY <2>4, <2>5, <2>6, <2>7, <3>1 DEF Names
      <4>2. Exact([Names(s) EXCEPT ![o] = b.ino], s.free \ {b.ino})
        BY <2>2, <2>6, <2>7, Gain
      <4> QED BY <2>7, <3>1, <4>1, <4>2
    <3>2. CASE ent = 0
      <4>1. PICK m : m = [Names(s) EXCEPT ![n] = b.ent]
        OBVIOUS
      <4>2. PICK fr : fr = s.free \ {b.ent}
        OBVIOUS
      <4>3. Exact(m, fr)
        BY <2>4, <2>6, <2>7, <3>2, <4>1, <4>2, Gain
      <4>4. m \in [Places -> 0 .. NBlocks] /\ m[o] = 0
        BY <1>4, <2>2, <2>4, <2>6, <4>1
      <4>5. b.ino \in fr /\ fr \in SUBSET Block
        BY <2>7, <4>2
      <4>6. Exact([m EXCEPT ![o] = b.ino], fr \ {b.ino})
        BY <2>2, <4>3, <4>4, <4>5, Gain
      <4>7. Names(t) = [m EXCEPT ![o] = b.ino]
        BY <2>4, <2>5, <4>1 DEF Names
      <4> QED BY <2>7, <3>2, <4>2, <4>6, <4>7
    <3> QED BY <3>1, <3>2
  <2>9. Mapped1(s, t, f, i, b.ino)
    <3>1. ASSUME NEW g \in Files, NEW k \in 0 .. NPlaces - 1
          PROVE  Names(t)[PlaceOf(g, k)]
                   = IF g = f /\ k = i THEN b.ino ELSE Names(s)[PlaceOf(g, k)]
      <4>1. PICK q : q = PlaceOf(g, k)
        OBVIOUS
      <4>2. q \in Places /\ q # n /\ (q = o <=> g = f /\ k = i)
        BY <2>1, <2>3, <4>1, PlaceHas
      <4>3. Names(t)[q] = At(t, q) /\ Names(s)[q] = At(s, q)
        BY <4>2 DEF Names
      <4> QED BY <2>5, <4>1, <4>2, <4>3
    <3> QED BY <3>1 DEF Mapped1
  <2>10. OnlyFile(s, t, f) /\ t.din[f].blocks = s.din[f].blocks
    <3>1. s.dirty[f] => t.dirty[f]
      BY <1>7, <1>10 DEF InodeSet
    <3> QED BY <1>4, <1>6, <1>10, <1>12, <3>1 DEF OnlyFile, InodeSet, Entered
  <2>11. b.ino # 0 /\ b.ino \notin t.free
    BY <1>12, <2>7 DEF Entered
  <2> QED BY <1>9, <1>10, <2>7, <2>8, <2>9, <2>10, <2>11 DEF Extended
<1> QED BY <1>2, <1>11, <1>12

-----------------------------------------------------------------------------
\* An assertion has failed; nothing else has changed.
Stopped(s, r) ==
  /\ r \in State
  /\ r.free = s.free /\ r.din = s.din /\ r.dirty = s.dirty /\ r.disk = s.disk
  /\ r.table = s.table /\ r.refused = s.refused
  /\ r.failed /\ r.panic

\* What sfs_bmap_load_nolock() does at index i of f.
LoadsBlock(s, r, f, i) ==
  /\ r \in State
  /\ Sound(r)
  /\ \/ i > s.din[f].blocks /\ Stopped(s, r)
     \/ i < s.din[f].blocks /\ r = s
     \/ i = s.din[f].blocks /\ RanFull(s, r)
     \/ i = s.din[f].blocks /\ OnlyFile(s, r, f) /\ r.din[f].blocks = s.din[f].blocks + 1

\* Flags do not matter.
LEMMA SoundSame ==
  ASSUME NEW s, Sound(s), NEW r, r.free = s.free, r.din = s.din, r.table = s.table
  PROVE  Sound(r)
<1>1. Names(r) = Names(s)
  BY DEF Names, At
<1> QED BY <1>1 DEF Sound, NoHoles

\* An assertion that fails changes nothing else.
LEMMA PanicStops ==
  ASSUME NEW s \in State
  PROVE  Stopped(s, Panic(s))
  BY DEF Stopped, Panic, State

\* sfs_bmap_load_nolock() finds a block or appends one.
LEMMA LoadDoes ==
  ASSUME NEW s \in State, Sound(s), ~s.failed, NEW f \in Files, NEW i \in 0 .. NPlaces - 1,
         NEW r, r = Load(s, f, i)
  PROVE  LoadsBlock(s, r, f, i)
<1>a. PICK m : m = s.din[f].blocks
  OBVIOUS
<1>b. PICK found : found = Mapped(s, f, i)
  OBVIOUS
<1>c. PICK a : a = IF found # 0 \/ i < m THEN [s |-> s, ino |-> found] ELSE Extend(s, f, i)
  OBVIOUS
<1>0. r = IF i > m THEN Panic(s)
          ELSE IF a.s.failed THEN a.s
          ELSE IF a.ino = 0 \/ a.ino \in a.s.free THEN Panic(a.s)
          ELSE IF i = m THEN [a.s EXCEPT !.din[f].blocks = @ + 1]
          ELSE a.s
  BY <1>a, <1>b, <1>c, Zenon DEF Load
<1>1. /\ m \in Nat /\ found = Names(s)[PlaceOf(f, i)] /\ (found # 0 <=> i < m)
      /\ PlaceOf(f, i) \in Places /\ found \in 0 .. NBlocks
  <2>1. s.din[f] \in Inode
    BY DEF State
  <2>2. NoHoles(s, f)
    BY DEF Sound
  <2> QED BY <1>a, <1>b, <2>1, <2>2, NamesWhat, PlaceHas DEF NoHoles, Inode
<1>2. CASE i > m
  <2>1. Stopped(s, r)
    BY <1>0, <1>2, PanicStops
  <2>2. Sound(r) /\ r \in State
    BY <2>1, SoundSame DEF Stopped
  <2> QED BY <1>a, <1>2, <2>1, <2>2 DEF LoadsBlock
<1>3. CASE i < m
  <2>1. a = [s |-> s, ino |-> found] /\ ~(i > m) /\ i # m
    BY <1>1, <1>3, <1>c
  <2>2. found \notin s.free
    BY <1>1, <1>3, SizesFit DEF Exact, Sound, Block
  <2>3. a.s = s /\ a.ino = found /\ found # 0
    BY <1>1, <1>3, <2>1
  <2>4. r = s
    BY <1>0, <2>1, <2>2, <2>3, Zenon
  <2> QED BY <1>a, <1>3, <2>4 DEF LoadsBlock
<1>4. CASE i = m
  <2>1. a = Extend(s, f, i) /\ ~(i > m) /\ Names(s)[PlaceOf(f, i)] = 0
    BY <1>1, <1>4, <1>c
  <2>2. Exact(Names(s), s.free)
    BY DEF Sound
  <2>3. \/ a.ino = 0 /\ RanFull(s, a.s)
        \/ a.ino # 0 /\ Extended(s, f, i, a)
    <3>1. CASE i < NDirect
      BY <2>1, <2>2, <3>1, ExtendDirect
    <3>2. CASE ~(i < NDirect)
      BY <2>1, <2>2, <3>2, ExtendIndirect
    <3> QED BY <3>1, <3>2
  <2>4. CASE a.ino = 0 /\ RanFull(s, a.s)
    <3>1. r = a.s
      BY <1>0, <2>1, <2>4 DEF RanFull
    <3>2. Sound(r) /\ r \in State
      BY <2>4, <3>1, SoundSame DEF RanFull
    <3> QED BY <1>a, <1>4, <2>4, <3>1, <3>2 DEF LoadsBlock
  <2>5. CASE a.ino # 0 /\ Extended(s, f, i, a)
    <3>1. a.s \in State /\ a.s.din[f] \in Inode /\ ~a.s.failed /\ a.ino \notin a.s.free
      BY <2>5 DEF Extended, OnlyFile, State
    <3>2. r = [a.s EXCEPT !.din[f].blocks = @ + 1]
      BY <1>0, <1>4, <2>1, <2>5, <3>1, Zenon
    <3>3. PICK d : d = [a.s.din[f] EXCEPT !.blocks = @ + 1]
      OBVIOUS
    <3>4. r = WithInode(a.s, f, d, a.s.dirty[f])
      <4>1. [a.s.dirty EXCEPT ![f] = a.s.dirty[f]] = a.s.dirty
        BY <3>1 DEF State
      <4>2. r = [a.s EXCEPT !.din = [a.s.din EXCEPT ![f] = d]]
        BY <3>2, <3>3
      <4> QED BY <3>1, <4>1, <4>2 DEF WithInode, State
    <3>5. /\ d \in Inode /\ d.size = s.din[f].size /\ d.blocks = m + 1
          /\ d.indirect = a.s.din[f].indirect /\ d.direct = a.s.din[f].direct
      BY <1>a, <1>1, <2>5, <3>1, <3>3, SMTT(30) DEF Inode, Extended, OnlyFile
    <3>6. r \in State /\ InodeSet(a.s, f, d, a.s.dirty[f], r)
      <4>1. a.s.dirty[f] \in BOOLEAN
        BY <3>1 DEF State
      <4> QED BY <3>1, <3>4, <3>5, <4>1, SetInode
    <3>7. Names(r) = Names(a.s)
      <4>1. ASSUME NEW q \in Places PROVE At(r, q) = At(a.s, q)
        <5>1. q[1] \in Files
          BY DEF Places
        <5>2. r.din[q[1]].direct = a.s.din[q[1]].direct
              /\ r.din[q[1]].indirect = a.s.din[q[1]].indirect /\ r.table = a.s.table
          BY <3>5, <3>6, <5>1 DEF InodeSet
        <5> QED BY <5>2 DEF At
      <4> QED BY <4>1 DEF Names
    <3>8. Exact(Names(r), r.free)
      BY <2>5, <3>6, <3>7 DEF Extended, InodeSet
    <3>9. ASSUME NEW g \in Files PROVE NoHoles(r, g)
      <4>1. s.din[g].blocks \in Nat /\ NoHoles(s, g)
        BY DEF Sound, State, Inode
      <4>2. r.din[g].blocks = IF g = f THEN m + 1 ELSE s.din[g].blocks
        BY <2>5, <3>5, <3>6 DEF Extended, OnlyFile, InodeSet
      <4>3. \A k \in 0 .. NPlaces - 1 : Names(r)[PlaceOf(g, k)]
              = IF g = f /\ k = i THEN a.ino ELSE Names(s)[PlaceOf(g, k)]
        BY <2>5, <3>7 DEF Extended, Mapped1
      <4> QED BY <1>a, <1>1, <1>4, <2>5, <4>1, <4>2, <4>3, SizesFit DEF NoHoles
    <3>10. OnlyFile(s, r, f) /\ r.din[f].blocks = m + 1
      BY <2>5, <3>5, <3>6 DEF Extended, OnlyFile, InodeSet
    <3> QED BY <1>a, <1>4, <3>6, <3>8, <3>9, <3>10 DEF LoadsBlock, Sound
  <2> QED BY <2>3, <2>4, <2>5
<1> QED BY <1>1, <1>2, <1>3, <1>4

-----------------------------------------------------------------------------
\* What sfs_bmap_truncate_nolock() does to f.
DropsLast(s, r, f) ==
  /\ r \in State
  /\ Sound(r)
  /\ OnlyFile(s, r, f)
  /\ r.din[f].blocks = s.din[f].blocks - 1

\* m is s with block b free again, but for entries.
Freed(s, b, m) ==
  /\ m \in State /\ m.free = s.free \cup {b}
  /\ m.din = s.din /\ m.dirty = s.dirty /\ m.disk = s.disk
  /\ m.failed = s.failed /\ m.panic = s.panic /\ m.refused = s.refused

\* In r the place o has lost its block.
Lost(s, r, o) == \A q \in Places : At(r, q) = IF q = o THEN 0 ELSE At(s, q)

\* Once the last block is gone from the names and the inode, the state is sound.
LEMMA DropSound ==
  ASSUME NEW s \in State, Sound(s), NEW f \in Files, NEW i \in 0 .. NPlaces - 1,
         i = s.din[f].blocks - 1, NEW d, d \in Inode, d.size = s.din[f].size, d.blocks = i,
         NEW m, Freed(s, Mapped(s, f, i), m), NEW r, r = WithInode(m, f, d, TRUE),
         Lost(s, r, PlaceOf(f, i))
  PROVE  DropsLast(s, r, f)
<1>1. r \in State /\ InodeSet(m, f, d, TRUE, r)
  BY SetInode DEF Freed
<1>2. PICK o : o = PlaceOf(f, i)
  OBVIOUS
<1>3. o \in Places /\ Mapped(s, f, i) = Names(s)[o] /\ Names(s) \in [Places -> 0 .. NBlocks]
  BY <1>2, PlaceHas, NamesWhat
<1>4. Names(s)[o] # 0
  <2>1. s.din[f].blocks \in Nat /\ NoHoles(s, f)
    BY DEF State, Inode, Sound
  <2>2. i < s.din[f].blocks
    BY <2>1
  <2> QED BY <1>2, <2>1, <2>2 DEF NoHoles
<1>5. Names(r) = [Names(s) EXCEPT ![o] = 0]
  BY <1>2, <1>3 DEF Names, Lost
<1>6. Exact(Names(r), r.free)
  <2>1. s.free \in SUBSET Block /\ Exact(Names(s), s.free)
    BY DEF State, Sound
  <2>2. Exact([Names(s) EXCEPT ![o] = 0], s.free \cup {Names(s)[o]})
    BY <1>3, <1>4, <2>1, Loss
  <2>3. r.free = s.free \cup {Names(s)[o]}
    BY <1>1, <1>3 DEF InodeSet, Freed
  <2> QED BY <1>5, <2>2, <2>3
<1>7. ASSUME NEW g \in Files PROVE NoHoles(r, g)
  <2>1. s.din[g].blocks \in Nat /\ NoHoles(s, g)
    BY DEF Sound, State, Inode
  <2>2. r.din[g].blocks = IF g = f THEN i ELSE s.din[g].blocks
    BY <1>1 DEF InodeSet, Freed
  <2>3. \A k \in 0 .. NPlaces - 1 : Names(r)[PlaceOf(g, k)]
          = IF g = f /\ k = i THEN 0 ELSE Names(s)[PlaceOf(g, k)]
    <3> TAKE k \in 0 .. NPlaces - 1
    <3>1. PICK q : q = PlaceOf(g, k)
      OBVIOUS
    <3>2. q \in Places /\ (q = o <=> g = f /\ k = i)
      BY <1>2, <3>1, PlaceHas
    <3>3. Names(r)[q] = IF q = o THEN 0 ELSE Names(s)[q]
      BY <1>3, <1>5, <3>2
    <3> QED BY <3>1, <3>2, <3>3
  <2>4. CASE g = f
    <3>1. i + 1 = s.din[g].blocks
      BY <2>1, <2>4
    <3>2. ASSUME NEW k \in 0 .. NPlaces - 1
          PROVE  Names(r)[PlaceOf(g, k)] # 0 <=> k < i
      <4>1. Names(s)[PlaceOf(g, k)] # 0 <=> k < s.din[g].blocks
        BY <2>1 DEF NoHoles
      <4>2. Names(r)[PlaceOf(g, k)] = IF k = i THEN 0 ELSE Names(s)[PlaceOf(g, k)]
        BY <2>3, <2>4
      <4>3. k < s.din[g].blocks <=> k = i \/ k < i
        BY <2>1, <3>1
      <4>4. k = i => ~(k < i)
        OBVIOUS
      <4>5. CASE k = i
        BY <4>2, <4>4, <4>5
      <4>6. CASE k # i
        BY <4>1, <4>2, <4>3, <4>6
      <4> QED BY <4>5, <4>6
    <3>3. r.din[g].blocks = i /\ i <= NPlaces
      <4>1. r.din[g].blocks = i
        BY <2>2, <2>4
      <4>2. i <= NPlaces
        BY SizesFit
      <4> QED BY <4>1, <4>2
    <3> QED BY <3>2, <3>3 DEF NoHoles
  <2>5. CASE g # f
    BY <2>1, <2>2, <2>3, <2>5, SizesFit DEF NoHoles
  <2> QED BY <2>4, <2>5
<1>8. OnlyFile(s, r, f) /\ r.din[f].blocks = s.din[f].blocks - 1
  <2>1. r.din[f] = d /\ r.dirty[f]
    BY <1>1 DEF InodeSet
  <2>2. r.disk = s.disk /\ r.panic = s.panic /\ r.failed = s.failed /\ r.refused = s.refused
    BY <1>1 DEF InodeSet, Freed
  <2>3. \A g \in Files : g # f => r.din[g] = s.din[g] /\ r.dirty[g] = s.dirty[g]
    <3>1. \A g \in Files : g # f => r.din[g] = m.din[g] /\ r.dirty[g] = m.dirty[g]
      BY <1>1, Zenon DEF InodeSet
    <3>2. m.din = s.din /\ m.dirty = s.dirty
      BY DEF Freed
    <3> QED BY <3>1, <3>2
  <2> QED BY <2>1, <2>2, <2>3, Zenon DEF OnlyFile
<1> QED BY <1>1, <1>6, <1>7, <1>8 DEF DropsLast, Sound

\* A block that is freed.
LEMMA FreeGives ==
  ASSUME NEW s \in State, NEW b, b \in Block, b \notin s.free, NEW m, m = FreeBlock(s, b)
  PROVE  Freed(s, b, m) /\ m.table = s.table
  BY DEF FreeBlock, State, Freed

\* sfs_bmap_truncate_nolock() gives up the last block of f.
LEMMA DropLastDoes ==
  ASSUME NEW s \in State, Sound(s), NEW f \in Files, s.din[f].blocks > 0,
         NEW r, r = DropLast(s, f)
  PROVE  DropsLast(s, r, f)
<1>a. PICK d : d = s.din[f]
  OBVIOUS
<1>b. PICK i : i = d.blocks - 1
  OBVIOUS
<1>c. PICK b : b = Mapped(s, f, i)
  OBVIOUS
<1>1. d \in Inode /\ i \in 0 .. NPlaces - 1 /\ d.blocks \in Nat
  <2>1. d \in Inode /\ NoHoles(s, f)
    BY <1>a DEF State, Sound
  <2>2. d.blocks \in Nat /\ d.blocks <= NPlaces /\ d.blocks > 0
    BY <1>a, <2>1 DEF NoHoles, Inode
  <2> QED BY <1>b, <2>1, <2>2, SizesFit
<1>2. PICK o : o = PlaceOf(f, i)
  OBVIOUS
<1>3. o \in Places /\ b = Names(s)[o] /\ Names(s) \in [Places -> 0 .. NBlocks]
  BY <1>c, <1>1, <1>2, PlaceHas, NamesWhat
<1>4. b # 0 /\ b \in Block /\ b \notin s.free
  <2>1. b # 0
    BY <1>a, <1>b, <1>1, <1>2, <1>3 DEF Sound, NoHoles
  <2> QED BY <1>3, <2>1, SizesFit DEF Sound, Exact, Block
<1>5. PICK m : m = FreeBlock(s, b)
  OBVIOUS
<1>d. Freed(s, b, m) /\ m.table = s.table
  BY <1>4, <1>5, FreeGives
<1>6. /\ m \in State /\ m.free = s.free \cup {b} /\ m.table = s.table
      /\ m.din = s.din /\ m.dirty = s.dirty /\ m.disk = s.disk
      /\ m.failed = s.failed /\ m.panic = s.panic /\ m.refused = s.refused
  BY <1>d DEF Freed
<1>7. r = IF i < NDirect
          THEN [m EXCEPT !.din[f] = [d EXCEPT !.direct[i] = 0, !.blocks = i], !.dirty[f] = TRUE]
          ELSE [m EXCEPT !.table = [@ EXCEPT ![d.indirect][i - NDirect] = 0],
                         !.din[f].blocks = i, !.dirty[f] = TRUE]
  BY <1>a, <1>b, <1>c, <1>4, <1>5, Zenon DEF DropLast
<1>8. CASE i < NDirect
  <2>1. PICK d2 : d2 = [d EXCEPT !.direct[i] = 0, !.blocks = i]
    OBVIOUS
  <2>2. PICK d1 : d1 = [d EXCEPT !.direct[i] = 0]
    OBVIOUS
  <2>3. /\ d1 \in Inode /\ d1.size = d.size /\ d1.indirect = d.indirect
        /\ \A k \in 0 .. NDirect - 1 : d1.direct[k] = IF k = i THEN 0 ELSE d.direct[k]
    <3>1. PICK w : w = [d.direct EXCEPT ![i] = 0]
      OBVIOUS
    <3>2. d.direct \in [0 .. NDirect - 1 -> 0 .. NBlocks] /\ 0 \in 0 .. NBlocks
      BY <1>1, SizesFit DEF Inode
    <3>3. /\ w \in [0 .. NDirect - 1 -> 0 .. NBlocks]
          /\ \A k \in 0 .. NDirect - 1 : w[k] = IF k = i THEN 0 ELSE d.direct[k]
      BY <3>1, <3>2
    <3>4. d1 = [d EXCEPT !.direct = w]
      BY <2>2, <3>1
    <3>5. d1 \in Inode /\ d1.size = d.size /\ d1.indirect = d.indirect /\ d1.direct = w
      BY <1>1, <3>3, <3>4 DEF Inode
    <3> QED BY <3>3, <3>5
  <2>4. d2 = [d1 EXCEPT !.blocks = i]
    BY <2>1, <2>2
  <2>5. /\ d2 \in Inode /\ d2.size = d.size /\ d2.indirect = d.indirect /\ d2.blocks = i
        /\ \A k \in 0 .. NDirect - 1 : d2.direct[k] = IF k = i THEN 0 ELSE d.direct[k]
    BY <1>1, <2>3, <2>4 DEF Inode
  <2>6. r = WithInode(m, f, d2, TRUE)
    <3>1. r = [m EXCEPT !.din[f] = d2, !.dirty[f] = TRUE]
      BY <1>7, <1>8, <2>1, Zenon
    <3> QED BY <1>6, <3>1 DEF WithInode, State
  <2>7. InodeSet(m, f, d2, TRUE, r)
    BY <1>6, <2>5, <2>6, SetInode
  <2>8. ASSUME NEW q \in Places PROVE At(r, q) = IF q = o THEN 0 ELSE At(s, q)
    <3>1. q[1] \in Files /\ q[3] \in 0 .. NPlaces /\ q = <<q[1], q[2], q[3]>>
      BY DEF Places
    <3>2. o = <<f, "direct", i>>
      BY <1>2, <1>8 DEF PlaceOf
    <3>3. CASE q[1] = f
      <4>1. r.din[q[1]] = d2 /\ s.din[q[1]] = d /\ r.table = s.table
        BY <1>a, <1>6, <2>7, <3>3 DEF InodeSet
      <4>2. q[2] = "direct" /\ q[3] = i => q = o
        BY <3>1, <3>2, <3>3
      <4>3. q = o => q[2] = "direct" /\ q[3] = i
        BY <3>2
      <4>4. q[3] < NDirect => q[3] \in 0 .. NDirect - 1
        BY <3>1, SizesFit
      <4> QED BY <1>8, <2>5, <4>1, <4>2, <4>3, <4>4 DEF At
    <3>4. CASE q[1] # f
      <4>1. r.din[q[1]] = s.din[q[1]] /\ r.table = s.table
        BY <1>6, <2>7, <3>1, <3>4 DEF InodeSet
      <4>2. q # o
        BY <3>2, <3>4
      <4> QED BY <4>1, <4>2 DEF At
    <3> QED BY <3>3, <3>4
  <2>9. d2 \in Inode /\ d2.size = d.size /\ d2.blocks = i
    BY <2>5
  <2>10. Lost(s, r, PlaceOf(f, i))
    BY <1>2, <2>8 DEF Lost
  <2> QED BY <1>a, <1>b, <1>c, <1>d, <1>1, <2>6, <2>9, <2>10, DropSound
<1>9. CASE ~(i < NDirect)
  <2>a. PICK j : j = i - NDirect
    OBVIOUS
  <2>b. PICK e : e = d.indirect
    OBVIOUS
  <2>1. j \in Entries /\ e \in Block
    <3>1. e # 0
      BY <1>a, <1>c, <1>4, <1>9, <2>b DEF Mapped
    <3> QED BY <1>1, <1>9, <2>a, <2>b, <3>1, SizesFit DEF Entries, Inode, Block
  <2>2. PICK w : w = WithEntry(m, e, j, 0)
    OBVIOUS
  <2>3. PICK d2 : d2 = [d EXCEPT !.blocks = i]
    OBVIOUS
  <2>4. /\ d2 \in Inode /\ d2.size = d.size /\ d2.indirect = d.indirect /\ d2.blocks = i
        /\ d2.direct = d.direct
    BY <1>1, <2>3 DEF Inode
  <2>5. /\ w \in State
        /\ w.free = m.free /\ w.din = m.din /\ w.dirty = m.dirty /\ w.disk = m.disk
        /\ w.failed = m.failed /\ w.panic = m.panic /\ w.refused = m.refused
        /\ EntrySet(m, e, j, 0, w)
    BY <1>6, <2>1, <2>2, SizesFit, SetEntry
  <2>6. r = WithInode(w, f, d2, TRUE)
    <3>1. r = [m EXCEPT !.table = [@ EXCEPT ![e][j] = 0],
                        !.din[f].blocks = i, !.dirty[f] = TRUE]
      BY <1>7, <1>9, <2>a, <2>b, Zenon
    <3>2. r = [w EXCEPT !.din[f].blocks = i, !.dirty[f] = TRUE]
      BY <2>2, <3>1 DEF WithEntry
    <3>3. PICK v : v = [w EXCEPT !.din[f].blocks = i]
      OBVIOUS
    <3>4. r = [v EXCEPT !.dirty[f] = TRUE]
      BY <3>2, <3>3
    <3>5. v = [w EXCEPT !.din = [w.din EXCEPT ![f] = d2]]
      BY <1>a, <1>6, <2>3, <2>5, <3>3
    <3> QED BY <2>5, <3>4, <3>5 DEF WithInode, State
  <2>7. InodeSet(w, f, d2, TRUE, r)
    BY <2>4, <2>5, <2>6, SetInode
  <2>8. ASSUME NEW q \in Places PROVE At(r, q) = IF q = o THEN 0 ELSE At(s, q)
    <3>1. q[1] \in Files /\ q[3] \in 0 .. NPlaces /\ q = <<q[1], q[2], q[3]>>
      BY DEF Places
    <3>2. o = <<f, "entry", j>>
      BY <1>2, <1>9, <2>a DEF PlaceOf
    <3>3. \A c \in Block, k \in Entries :
            r.table[c][k] = IF c = e /\ k = j THEN 0 ELSE s.table[c][k]
      BY <1>6, <2>5, <2>7 DEF InodeSet, EntrySet
    <3>4. r.din[q[1]].direct = s.din[q[1]].direct /\ r.din[q[1]].indirect = s.din[q[1]].indirect
      BY <1>a, <1>6, <2>4, <2>5, <2>7, <3>1 DEF InodeSet
    <3>5. PICK ind : ind = s.din[q[1]].indirect
      OBVIOUS
    <3>6. ind # 0 => ind \in Block
      <4>1. s.din[q[1]] \in Inode
        BY <3>1 DEF State
      <4> QED BY <3>5, <4>1, SizesFit DEF Inode, Block
    <3>7. ind = e => q[1] = f
      <4>1. Names(s)[<<q[1], "indirect", 0>>] = ind /\ Names(s)[<<f, "indirect", 0>>] = e
        BY <1>a, <2>b, <3>1, <3>5, NamesWhat
      <4>2. <<q[1], "indirect", 0>> \in Places /\ <<f, "indirect", 0>> \in Places
        BY <3>1, PlaceHas
      <4>3. e # 0
        BY <2>1, SizesFit DEF Block
      <4>4. ind = e => <<q[1], "indirect", 0>> = <<f, "indirect", 0>>
        BY <4>1, <4>2, <4>3 DEF Sound, Exact
      <4> QED BY <4>4
    <3>8. q[1] = f => ind = e
      BY <1>a, <2>b, <3>5
    <3>9. q = o <=> q[1] = f /\ q[2] = "entry" /\ q[3] = j
      BY <3>1, <3>2
    <3>10. q[2] \in {"direct", "indirect", "entry"}
      BY DEF Places
    <3> QED BY <2>1, <3>3, <3>4, <3>5, <3>6, <3>7, <3>8, <3>9, <3>10 DEF At
  <2>9. Lost(s, r, PlaceOf(f, i))
    BY <1>2, <2>8 DEF Lost
  <2>10. Freed(s, b, w)
    BY <1>d, <2>5 DEF Freed
  <2> QED BY <1>a, <1>b, <1>c, <1>1, <2>4, <2>6, <2>9, <2>10, DropSound
<1> QED BY <1>8, <1>9

-----------------------------------------------------------------------------
\* A round of the two loops of sfs_truncfile().
AddRound(x, f) == IF x.failed THEN x ELSE Load(x, f, x.din[f].blocks)
CutRound(x, f) == IF x.failed THEN x ELSE DropLast(x, f)

\* The disk has run full; no file has another size.
Full(s, x) ==
  /\ x.failed /\ x.refused /\ x.panic = s.panic
  /\ \A g \in Files : x.din[g].size = s.din[g].size

\* f has k more blocks in x, unless the disk has run full.
Adding(s, x, f, k) ==
  /\ x \in State
  /\ Sound(x)
  /\ \/ Full(s, x)
     \/ ~x.failed /\ OnlyFile(s, x, f) /\ x.din[f].blocks = s.din[f].blocks + k

\* f has k fewer blocks in x.
Cutting(s, x, f, k) ==
  /\ x \in State
  /\ Sound(x)
  /\ ~x.failed /\ OnlyFile(s, x, f) /\ x.din[f].blocks = s.din[f].blocks - k

\* A relation between states that differ in one file can be chained.
LEMMA OnlyChain ==
  ASSUME NEW s, NEW x, NEW y, NEW f \in Files, OnlyFile(s, x, f), OnlyFile(x, y, f)
  PROVE  OnlyFile(s, y, f)
<1>1. /\ y.disk = s.disk /\ y.panic = s.panic /\ y.failed = s.failed /\ y.refused = s.refused
      /\ y.din[f].size = s.din[f].size /\ (s.dirty[f] => y.dirty[f])
  BY DEF OnlyFile
<1>2. \A g \in Files : g # f => y.din[g] = s.din[g] /\ y.dirty[g] = s.dirty[g]
  BY DEF OnlyFile
<1> QED BY <1>1, <1>2, Zenon DEF OnlyFile

\* A round adds a block or fails.
LEMMA AddRoundDoes ==
  ASSUME NEW s \in State, ~s.failed, NEW f \in Files, NEW k \in Nat,
         s.din[f].blocks + k < NPlaces,
         NEW x, Adding(s, x, f, k), NEW y, y = AddRound(x, f)
  PROVE  Adding(s, y, f, k + 1)
<1>1. CASE Full(s, x)
  <2>1. y = x
    BY <1>1 DEF AddRound, Full
  <2> QED BY <1>1, <2>1 DEF Adding
<1>2. CASE ~x.failed /\ OnlyFile(s, x, f) /\ x.din[f].blocks = s.din[f].blocks + k
  <2>a. PICK m : m = x.din[f].blocks
    OBVIOUS
  <2>1. y = Load(x, f, m) /\ x \in State /\ Sound(x)
    BY <1>2, <2>a DEF AddRound, Adding
  <2>2. m \in 0 .. NPlaces - 1 /\ m = s.din[f].blocks + k
    <3>1. s.din[f].blocks \in Nat
      BY DEF State, Inode
    <3> QED BY <1>2, <2>a, <3>1, SizesFit
  <2>3. LoadsBlock(x, y, f, m)
    BY <1>2, <2>1, <2>2, LoadDoes
  <2>4. y \in State /\ Sound(y)
    BY <2>3 DEF LoadsBlock
  <2>5. \/ RanFull(x, y)
        \/ OnlyFile(x, y, f) /\ y.din[f].blocks = m + 1
    BY <2>2, <2>3, <2>a DEF LoadsBlock
  <2>6. CASE RanFull(x, y)
    <3>1. y.din = x.din /\ y.failed /\ y.refused /\ y.panic = s.panic
      BY <1>2, <2>6 DEF RanFull, OnlyFile
    <3>2. \A g \in Files : y.din[g].size = s.din[g].size
      BY <1>2, <3>1 DEF OnlyFile
    <3> QED BY <2>4, <3>1, <3>2 DEF Adding, Full
  <2>7. CASE OnlyFile(x, y, f) /\ y.din[f].blocks = m + 1
    <3>1. OnlyFile(s, y, f) /\ ~y.failed
      BY <1>2, <2>7, OnlyChain DEF OnlyFile
    <3>2. y.din[f].blocks = s.din[f].blocks + (k + 1)
      <4>1. s.din[f].blocks \in Nat
        BY DEF State, Inode
      <4> QED BY <2>2, <2>7, <4>1
    <3> QED BY <2>4, <3>1, <3>2 DEF Adding
  <2> QED BY <2>5, <2>6, <2>7
<1> QED BY <1>1, <1>2 DEF Adding

\* A round gives a block up.
LEMMA CutRoundDoes ==
  ASSUME NEW s \in State, ~s.failed, NEW f \in Files, NEW k \in Nat,
         k < s.din[f].blocks,
         NEW x, Cutting(s, x, f, k), NEW y, y = CutRound(x, f)
  PROVE  Cutting(s, y, f, k + 1)
<1>a. PICK n : n = s.din[f].blocks
  OBVIOUS
<1>1. y = DropLast(x, f) /\ x \in State /\ Sound(x) /\ OnlyFile(s, x, f)
  BY DEF CutRound, Cutting
<1>2. n \in Nat /\ x.din[f].blocks = n - k
  BY <1>a DEF Cutting, State, Inode
<1>3. x.din[f].blocks > 0
  BY <1>a, <1>2
<1>4. DropsLast(x, y, f)
  BY <1>1, <1>3, DropLastDoes
<1>5. y \in State /\ Sound(y) /\ OnlyFile(x, y, f)
      /\ y.din[f].blocks = x.din[f].blocks - 1
  BY <1>4 DEF DropsLast
<1>6. OnlyFile(s, y, f) /\ ~y.failed
  BY <1>1, <1>5, OnlyChain DEF OnlyFile
<1>7. y.din[f].blocks = n - (k + 1)
  BY <1>2, <1>5
<1> QED BY <1>a, <1>5, <1>6, <1>7 DEF Cutting

\* The loop that adds n blocks.
LEMMA AddsGo ==
  ASSUME NEW s \in State, Sound(s), ~s.failed, NEW f \in Files, NEW n \in Nat,
         s.din[f].blocks + n <= NPlaces, NEW h, h[0] = s,
         \A k \in 1 .. n : AddRound(h[k - 1], f) \in State => h[k] = AddRound(h[k - 1], f)
  PROVE  \A k \in 0 .. n : Adding(s, h[k], f, k)
<1> DEFINE P == {k \in 0 .. n : Adding(s, h[k], f, k)}
<1>0. s.din[f].blocks \in Nat
  BY DEF State, Inode
<1>1. 0 \in P
  <2>1. OnlyFile(s, s, f)
    BY DEF OnlyFile
  <2> QED BY <1>0, <2>1 DEF Adding
<1>2. \A k \in 1 .. n : k - 1 \in P => k \in P
  <2> SUFFICES ASSUME NEW k \in 1 .. n, Adding(s, h[k - 1], f, k - 1)
               PROVE  Adding(s, h[k], f, k)
    <3>1. \A k \in 1 .. n : k \in 0 .. n
      OBVIOUS
    <3> QED BY <3>1
  <2>1. PICK x : x = h[k - 1]
    OBVIOUS
  <2>2. PICK j : j = k - 1
    OBVIOUS
  <2>3. j \in Nat /\ s.din[f].blocks + j < NPlaces /\ j + 1 = k
    BY <1>0, <2>2, SizesFit
  <2>4. Adding(s, x, f, j)
    BY <2>1, <2>2
  <2>5. Adding(s, AddRound(x, f), f, j + 1)
    BY <2>3, <2>4, AddRoundDoes
  <2>6. h[k] = AddRound(x, f)
    BY <2>1, <2>5 DEF Adding
  <2> QED BY <2>3, <2>5, <2>6
<1> HIDE DEF P
<1>3. \A k \in 0 .. n : k \in P
  BY <1>1, <1>2, EveryRound
<1> QED BY <1>3 DEF P

\* The loop that gives n blocks up.
LEMMA CutsGo ==
  ASSUME NEW s \in State, Sound(s), ~s.failed, NEW f \in Files, NEW n \in Nat,
         n <= s.din[f].blocks, NEW h, h[0] = s,
         \A k \in 1 .. n : CutRound(h[k - 1], f) \in State => h[k] = CutRound(h[k - 1], f)
  PROVE  \A k \in 0 .. n : Cutting(s, h[k], f, k)
<1> DEFINE P == {k \in 0 .. n : Cutting(s, h[k], f, k)}
<1>0. s.din[f].blocks \in Nat
  BY DEF State, Inode
<1>1. 0 \in P
  <2>1. OnlyFile(s, s, f)
    BY DEF OnlyFile
  <2> QED BY <1>0, <2>1 DEF Cutting
<1>2. \A k \in 1 .. n : k - 1 \in P => k \in P
  <2> SUFFICES ASSUME NEW k \in 1 .. n, Cutting(s, h[k - 1], f, k - 1)
               PROVE  Cutting(s, h[k], f, k)
    <3>1. \A k \in 1 .. n : k \in 0 .. n
      OBVIOUS
    <3> QED BY <3>1
  <2>1. PICK x : x = h[k - 1]
    OBVIOUS
  <2>2. PICK j : j = k - 1
    OBVIOUS
  <2>3. j \in Nat /\ j < s.din[f].blocks /\ j + 1 = k
    BY <1>0, <2>2
  <2>4. Cutting(s, x, f, j)
    BY <2>1, <2>2
  <2>5. Cutting(s, CutRound(x, f), f, j + 1)
    BY <2>3, <2>4, CutRoundDoes
  <2>6. h[k] = CutRound(x, f)
    BY <2>1, <2>5 DEF Cutting
  <2> QED BY <2>3, <2>5, <2>6
<1> HIDE DEF P
<1>3. \A k \in 0 .. n : k \in P
  BY <1>1, <1>2, EveryRound
<1> QED BY <1>3 DEF P

\* The loops of Truncate.
Adds(s, f, n) == LET Add(x) == Load(x, f, x.din[f].blocks) IN Repeat(Add, n, s)
Cuts(s, f, n) == LET Cut(x) == DropLast(x, f) IN Repeat(Cut, n, s)

\* The first loop makes such rounds.
LEMMA AddsRounds ==
  ASSUME NEW s \in State, Sound(s), ~s.failed, NEW f \in Files, NEW n \in Nat,
         s.din[f].blocks + n <= NPlaces
  PROVE  \E h : /\ Adds(s, f, n) = h[n]
               /\ h[0] = s /\ \A k \in 1 .. n : h[k] = AddRound(h[k - 1], f)
<1> DEFINE after == CHOOSE at : at = [k \in 0 .. n |->
                      IF k = 0 THEN s ELSE IF at[k - 1].failed THEN at[k - 1]
                                           ELSE Load(at[k - 1], f, at[k - 1].din[f].blocks)]
<1>1. Adds(s, f, n) = after[n]
  BY Zenon DEF Adds, Repeat
<1> HIDE DEF after
<1>2. PICK step \in [Nat \X State -> State] :
        \A k \in Nat, x \in State : AddRound(x, f) \in State => step[<<k, x>>] = AddRound(x, f)
  <2> DEFINE next(x) == IF AddRound(x, f) \in State THEN AddRound(x, f) ELSE x
  <2>1. \A x \in State : next(x) \in State
    OBVIOUS
  <2>2. \A x \in State : AddRound(x, f) \in State => next(x) = AddRound(x, f)
    OBVIOUS
  <2> HIDE DEF next
  <2>3. [a \in Nat \X State |-> next(a[2])] \in [Nat \X State -> State]
    BY <2>1
  <2> QED BY <2>2, <2>3
<1>3. PICK g : Walk(State, step, s, n, g)
  BY Repeats
<1>4. g \in [0 .. n -> State] /\ g[0] = s
  BY <1>3 DEF Walk
<1>5. \A k \in 1 .. n : AddRound(g[k - 1], f) \in State => g[k] = AddRound(g[k - 1], f)
  <2> TAKE k \in 1 .. n
  <2>1. k \in Nat /\ k - 1 \in 0 .. n
    OBVIOUS
  <2>2. g[k - 1] \in State /\ g[k] = step[<<k, g[k - 1]>>]
    BY <1>3, <1>4, <2>1 DEF Walk
  <2> QED BY <1>2, <2>1, <2>2
<1>6. \A k \in 1 .. n : g[k] = AddRound(g[k - 1], f)
  <2> TAKE k \in 1 .. n
  <2>1. k - 1 \in 0 .. n /\ k - 1 \in Nat /\ s.din[f].blocks + (k - 1) < NPlaces
    <3>1. s.din[f].blocks \in Nat
      BY DEF State, Inode
    <3> QED BY <3>1, SizesFit
  <2>2. Adding(s, g[k - 1], f, k - 1)
    BY <1>4, <1>5, <2>1, AddsGo
  <2>3. AddRound(g[k - 1], f) \in State
    BY <2>1, <2>2, AddRoundDoes DEF Adding
  <2> QED BY <1>5, <2>3
<1>7. g = [k \in 0 .. n |->
             IF k = 0 THEN s ELSE IF g[k - 1].failed THEN g[k - 1]
                                  ELSE Load(g[k - 1], f, g[k - 1].din[f].blocks)]
  <2>1. \A k \in 0 .. n : g[k] = IF k = 0 THEN s ELSE AddRound(g[k - 1], f)
    <3>1. \A k \in 0 .. n : k # 0 => k \in 1 .. n
      OBVIOUS
    <3> QED BY <1>4, <1>6, <3>1
  <2>2. g = [k \in 0 .. n |-> g[k]]
    BY <1>4
  <2>3. g = [k \in 0 .. n |-> IF k = 0 THEN s ELSE AddRound(g[k - 1], f)]
    BY <2>1, <2>2
  <2> QED BY <2>3, Zenon DEF AddRound
<1>8. after = [k \in 0 .. n |->
                 IF k = 0 THEN s
                 ELSE IF after[k - 1].failed THEN after[k - 1]
                      ELSE Load(after[k - 1], f, after[k - 1].din[f].blocks)]
  BY <1>7, Zenon DEF after
<1>9. after = [k \in 0 .. n |-> IF k = 0 THEN s ELSE AddRound(after[k - 1], f)]
  BY <1>8, Zenon DEF AddRound
<1>10. after[0] = s /\ \A k \in 1 .. n : after[k] = AddRound(after[k - 1], f)
  <2>1. 0 \in 0 .. n /\ \A k \in 1 .. n : k \in 0 .. n /\ k # 0
    OBVIOUS
  <2> QED BY <1>9, <2>1
<1> QED BY <1>1, <1>10

\* What the first loop does in all.
LEMMA AddsDo ==
  ASSUME NEW s \in State, Sound(s), ~s.failed, NEW f \in Files, NEW n \in Nat,
         s.din[f].blocks + n <= NPlaces
  PROVE  Adding(s, Adds(s, f, n), f, n)
<1>1. PICK h : /\ Adds(s, f, n) = h[n]
               /\ h[0] = s /\ \A k \in 1 .. n : h[k] = AddRound(h[k - 1], f)
  BY AddsRounds
<1>2. n \in 0 .. n
  OBVIOUS
<1> QED BY <1>1, <1>2, AddsGo

\* The second loop makes such rounds.
LEMMA CutsRounds ==
  ASSUME NEW s \in State, Sound(s), ~s.failed, NEW f \in Files, NEW n \in Nat, n <= s.din[f].blocks
  PROVE  \E h : /\ Cuts(s, f, n) = h[n]
               /\ h[0] = s /\ \A k \in 1 .. n : h[k] = CutRound(h[k - 1], f)
<1> DEFINE after == CHOOSE at : at = [k \in 0 .. n |->
                      IF k = 0 THEN s ELSE IF at[k - 1].failed THEN at[k - 1]
                                           ELSE DropLast(at[k - 1], f)]
<1>1. Cuts(s, f, n) = after[n]
  BY Zenon DEF Cuts, Repeat
<1> HIDE DEF after
<1>2. PICK step \in [Nat \X State -> State] :
        \A k \in Nat, x \in State : CutRound(x, f) \in State => step[<<k, x>>] = CutRound(x, f)
  <2> DEFINE next(x) == IF CutRound(x, f) \in State THEN CutRound(x, f) ELSE x
  <2>1. \A x \in State : next(x) \in State
    OBVIOUS
  <2>2. \A x \in State : CutRound(x, f) \in State => next(x) = CutRound(x, f)
    OBVIOUS
  <2> HIDE DEF next
  <2>3. [a \in Nat \X State |-> next(a[2])] \in [Nat \X State -> State]
    BY <2>1
  <2> QED BY <2>2, <2>3
<1>3. PICK g : Walk(State, step, s, n, g)
  BY Repeats
<1>4. g \in [0 .. n -> State] /\ g[0] = s
  BY <1>3 DEF Walk
<1>5. \A k \in 1 .. n : CutRound(g[k - 1], f) \in State => g[k] = CutRound(g[k - 1], f)
  <2> TAKE k \in 1 .. n
  <2>1. k \in Nat /\ k - 1 \in 0 .. n
    OBVIOUS
  <2>2. g[k - 1] \in State /\ g[k] = step[<<k, g[k - 1]>>]
    BY <1>3, <1>4, <2>1 DEF Walk
  <2> QED BY <1>2, <2>1, <2>2
<1>6. \A k \in 1 .. n : g[k] = CutRound(g[k - 1], f)
  <2> TAKE k \in 1 .. n
  <2>1. k - 1 \in 0 .. n /\ k - 1 \in Nat /\ k - 1 < s.din[f].blocks
    <3>1. s.din[f].blocks \in Nat
      BY DEF State, Inode
    <3> QED BY <3>1, SizesFit
  <2>2. Cutting(s, g[k - 1], f, k - 1)
    BY <1>4, <1>5, <2>1, CutsGo
  <2>3. CutRound(g[k - 1], f) \in State
    BY <2>1, <2>2, CutRoundDoes DEF Cutting
  <2> QED BY <1>5, <2>3
<1>7. g = [k \in 0 .. n |->
             IF k = 0 THEN s ELSE IF g[k - 1].failed THEN g[k - 1] ELSE DropLast(g[k - 1], f)]
  <2>1. \A k \in 0 .. n : g[k] = IF k = 0 THEN s ELSE CutRound(g[k - 1], f)
    <3>1. \A k \in 0 .. n : k # 0 => k \in 1 .. n
      OBVIOUS
    <3> QED BY <1>4, <1>6, <3>1
  <2>2. g = [k \in 0 .. n |-> g[k]]
    BY <1>4
  <2>3. g = [k \in 0 .. n |-> IF k = 0 THEN s ELSE CutRound(g[k - 1], f)]
    BY <2>1, <2>2
  <2> QED BY <2>3, Zenon DEF CutRound
<1>8. after = [k \in 0 .. n |->
                 IF k = 0 THEN s
                 ELSE IF after[k - 1].failed THEN after[k - 1] ELSE DropLast(after[k - 1], f)]
  BY <1>7, Zenon DEF after
<1>9. after = [k \in 0 .. n |-> IF k = 0 THEN s ELSE CutRound(after[k - 1], f)]
  BY <1>8, Zenon DEF CutRound
<1>10. after[0] = s /\ \A k \in 1 .. n : after[k] = CutRound(after[k - 1], f)
  <2>1. 0 \in 0 .. n /\ \A k \in 1 .. n : k \in 0 .. n /\ k # 0
    OBVIOUS
  <2> QED BY <1>9, <2>1
<1> QED BY <1>1, <1>10

\* What the second loop does in all.
LEMMA CutsDo ==
  ASSUME NEW s \in State, Sound(s), ~s.failed, NEW f \in Files, NEW n \in Nat, n <= s.din[f].blocks
  PROVE  Cutting(s, Cuts(s, f, n), f, n)
<1>1. PICK h : /\ Cuts(s, f, n) = h[n]
               /\ h[0] = s /\ \A k \in 1 .. n : h[k] = CutRound(h[k - 1], f)
  BY CutsRounds
<1>2. n \in 0 .. n
  OBVIOUS
<1> QED BY <1>1, <1>2, CutsGo

-----------------------------------------------------------------------------
\* A size and its number of blocks fit each other.
LEMMA BlocksAre ==
  ASSUME NEW len \in Nat, NEW n \in Nat
  PROVE  BlocksFor(len) = n <=> len <= n * BlkSize /\ (n > 0 => (n - 1) * BlkSize < len)
<1>1. BlkSize \in Nat /\ BlkSize > 0
  BY SizesFit
<1>2. PICK q \in Int : q = (len + BlkSize - 1) \div BlkSize
  BY <1>1
<1>3. PICK m \in Int : m = (len + BlkSize - 1) % BlkSize
  BY <1>1
<1>4. len + BlkSize - 1 = BlkSize * q + m /\ 0 <= m /\ m < BlkSize
  BY <1>1, <1>2, <1>3
<1>5. q >= 0 /\ len <= q * BlkSize /\ (q - 1) * BlkSize < len
  BY <1>1, <1>4
<1>6. BlocksFor(len) = q
  BY <1>2 DEF BlocksFor
<1>7. CASE n = q
  <2>1. n > 0 => (n - 1) * BlkSize < len
    BY <1>5, <1>7
  <2> QED BY <1>5, <1>6, <1>7, <2>1
<1>8. CASE n > q
  <2>1. q * BlkSize <= (n - 1) * BlkSize
    BY <1>1, <1>8
  <2>2. len <= (n - 1) * BlkSize /\ n > 0
    BY <1>1, <1>5, <1>8, <2>1
  <2> QED BY <1>1, <1>6, <1>8, <2>2
<1>9. CASE n < q
  <2>1. n * BlkSize <= (q - 1) * BlkSize
    BY <1>1, <1>9
  <2>2. n * BlkSize < len
    BY <1>1, <1>5, <2>1
  <2> QED BY <1>1, <1>6, <1>9, <2>2
<1> QED BY <1>7, <1>8, <1>9

\* No file that the bound allows needs more than its inode can name.
LEMMA BlocksEnough ==
  ASSUME NEW len \in 0 .. MaxLen
  PROVE  BlocksFor(len) \in 0 .. NPlaces
<1>1. BlkSize \in Nat /\ BlkSize > 0 /\ MaxLen \in Nat /\ MaxLen <= NPlaces * BlkSize
  BY SizesFit, SfsFileAssumption
<1>2. PICK q \in Int : q = (len + BlkSize - 1) \div BlkSize
  BY <1>1
<1>3. PICK m \in Int : m = (len + BlkSize - 1) % BlkSize
  BY <1>1
<1>4. len + BlkSize - 1 = BlkSize * q + m /\ 0 <= m /\ m < BlkSize
  BY <1>1, <1>2, <1>3
<1>5. q >= 0 /\ (q - 1) * BlkSize < len
  BY <1>1, <1>4
<1>6. ~(q > NPlaces)
  <2> SUFFICES ASSUME q > NPlaces PROVE FALSE
    OBVIOUS
  <2>1. NPlaces * BlkSize <= (q - 1) * BlkSize
    BY <1>1, SizesFit
  <2> QED BY <1>1, <1>5, <2>1, SizesFit
<1> QED BY <1>2, <1>5, <1>6, SizesFit DEF BlocksFor

\* The file has as many blocks as its size needs.
Even(s, f) == s.din[f].blocks = BlocksFor(s.din[f].size)

\* An inode that differs from the one on the disk is dirty.
Marked(s, f) == ~s.dirty[f] => s.disk[f] = s.din[f]

\* What holds of the file system between operations.
Good(s) ==
  /\ s \in State
  /\ Sound(s)
  /\ \A f \in Files : s.din[f].size <= MaxLen
  /\ ~s.refused => \A f \in Files : Even(s, f) /\ Marked(s, f)

\* y is x with a new size of f.
Resized(x, f, len, y) ==
  /\ y \in State
  /\ Sound(y)
  /\ y.din[f].size = len /\ y.din[f].blocks = x.din[f].blocks /\ y.dirty[f]
  /\ \A g \in Files : g # f => y.din[g] = x.din[g] /\ y.dirty[g] = x.dirty[g]
  /\ y.disk = x.disk /\ y.failed = x.failed /\ y.panic = x.panic /\ y.refused = x.refused

\* A new size changes no block.
LEMMA ResizeDoes ==
  ASSUME NEW x, x \in State, Sound(x), NEW f \in Files, NEW len, len \in Nat,
         NEW y, y = [x EXCEPT !.din[f].size = len, !.dirty[f] = TRUE]
  PROVE  Resized(x, f, len, y)
<1>1. PICK d : d = [x.din[f] EXCEPT !.size = len]
  OBVIOUS
<1>2. x.din[f] \in Inode
  BY DEF State
<1>3. /\ d \in Inode /\ d.size = len /\ d.blocks = x.din[f].blocks
      /\ d.direct = x.din[f].direct /\ d.indirect = x.din[f].indirect
  BY <1>1, <1>2 DEF Inode
<1>4. y = WithInode(x, f, d, TRUE)
  <2>1. PICK v : v = [x EXCEPT !.din[f].size = len]
    OBVIOUS
  <2>2. y = [v EXCEPT !.dirty[f] = TRUE]
    BY <2>1
  <2>3. v = [x EXCEPT !.din = [x.din EXCEPT ![f] = d]]
    BY <1>1, <2>1
  <2> QED BY <2>2, <2>3 DEF WithInode, State
<1>5. y \in State /\ InodeSet(x, f, d, TRUE, y)
  BY <1>3, <1>4, SetInode
<1>6. Names(y) = Names(x)
  <2>1. ASSUME NEW q \in Places PROVE At(y, q) = At(x, q)
    <3>1. q[1] \in Files
      BY DEF Places
    <3>2. y.din[q[1]].direct = x.din[q[1]].direct
          /\ y.din[q[1]].indirect = x.din[q[1]].indirect /\ y.table = x.table
      BY <1>3, <1>5, <3>1 DEF InodeSet
    <3> QED BY <3>2 DEF At
  <2> QED BY <2>1 DEF Names
<1>7. Exact(Names(y), y.free)
  BY <1>5, <1>6 DEF Sound, InodeSet
<1>8. ASSUME NEW g \in Files PROVE NoHoles(y, g)
  <2>1. y.din[g].blocks = x.din[g].blocks /\ NoHoles(x, g)
    BY <1>3, <1>5 DEF InodeSet, Sound
  <2> QED BY <1>6, <2>1 DEF NoHoles
<1>9. /\ y.din[f] = d /\ y.dirty[f]
      /\ y.disk = x.disk /\ y.failed = x.failed /\ y.panic = x.panic /\ y.refused = x.refused
  BY <1>5 DEF InodeSet
<1>10. \A g \in Files : g # f => y.din[g] = x.din[g] /\ y.dirty[g] = x.dirty[g]
  BY <1>5, Zenon DEF InodeSet
<1>11. Sound(y)
  BY <1>7, <1>8 DEF Sound
<1>12. y.din[f].size = len /\ y.din[f].blocks = x.din[f].blocks
  BY <1>3, <1>9
<1> QED BY <1>5, <1>9, <1>10, <1>11, <1>12, Zenon DEF Resized

\* What sfs_truncfile() does.
Truncates(s, f, len, r) ==
  /\ Good(r)
  /\ \A g \in Files : g # f => r.din[g].size = s.din[g].size
  /\ \/ r.failed /\ r.refused /\ r.din[f].size = s.din[f].size
     \/ ~r.failed /\ r.panic = s.panic /\ r.refused = s.refused /\ r.din[f].size = len

\* The last steps of sfs_truncfile().
LEMMA TruncateEnds ==
  ASSUME NEW s, Good(s), ~s.failed, NEW f \in Files, NEW len \in 0 .. MaxLen,
         NEW x, x \in State, Sound(x),
         \/ Full(s, x)
         \/ ~x.failed /\ OnlyFile(s, x, f) /\ x.din[f].blocks = BlocksFor(len),
         NEW r, r = IF x.failed THEN x ELSE [x EXCEPT !.din[f].size = len, !.dirty[f] = TRUE]
  PROVE  Truncates(s, f, len, r)
<1>1. CASE Full(s, x)
  <2>1. r = x /\ x.failed /\ x.refused /\ \A g \in Files : x.din[g].size = s.din[g].size
    BY <1>1 DEF Full
  <2>2. \A g \in Files : x.din[g].size <= MaxLen
    BY <2>1 DEF Good
  <2> QED BY <2>1, <2>2 DEF Truncates, Good
<1>2. CASE ~x.failed /\ OnlyFile(s, x, f) /\ x.din[f].blocks = BlocksFor(len)
  <2>1. r = [x EXCEPT !.din[f].size = len, !.dirty[f] = TRUE]
    BY <1>2
  <2>2. len \in Nat /\ len <= MaxLen
    BY SizesFit
  <2>3. Resized(x, f, len, r)
    BY <2>1, <2>2, ResizeDoes
  <2>4. /\ r \in State /\ Sound(r) /\ ~r.failed /\ r.panic = s.panic /\ r.refused = s.refused
        /\ r.disk = s.disk /\ r.din[f].size = len /\ r.din[f].blocks = BlocksFor(len) /\ r.dirty[f]
    BY <1>2, <2>3 DEF Resized, OnlyFile
  <2>5. \A g \in Files : g # f => r.din[g] = s.din[g] /\ r.dirty[g] = s.dirty[g]
    <3>1. \A g \in Files : g # f => x.din[g] = s.din[g] /\ x.dirty[g] = s.dirty[g]
      BY <1>2 DEF OnlyFile
    <3>2. \A g \in Files : g # f => r.din[g] = x.din[g] /\ r.dirty[g] = x.dirty[g]
      BY <2>3 DEF Resized
    <3> QED BY <3>1, <3>2
  <2>6. \A g \in Files : r.din[g].size <= MaxLen
    BY <2>2, <2>4, <2>5 DEF Good
  <2>7. ~r.refused => \A g \in Files : Even(r, g) /\ Marked(r, g)
    <3> SUFFICES ASSUME ~r.refused, NEW g \in Files PROVE Even(r, g) /\ Marked(r, g)
      OBVIOUS
    <3>1. Even(s, g) /\ Marked(s, g)
      BY <2>4 DEF Good
    <3>2. CASE g = f
      BY <2>4, <3>2 DEF Even, Marked
    <3>3. CASE g # f
      BY <2>4, <2>5, <3>1, <3>3 DEF Even, Marked
    <3> QED BY <3>2, <3>3
  <2> QED BY <2>4, <2>5, <2>6, <2>7 DEF Truncates, Good
<1> QED BY <1>1, <1>2

\* sfs_truncfile() gives f the size len, or the disk has run full.
LEMMA TruncateDoes ==
  ASSUME NEW s, Good(s), ~s.failed, NEW f \in Files, NEW len \in 0 .. MaxLen,
         NEW r, r = Truncate(s, f, len)
  PROVE  Truncates(s, f, len, r)
<1>a. PICK m : m = s.din[f].blocks
  OBVIOUS
<1>b. PICK n : n = BlocksFor(len)
  OBVIOUS
<1>c. PICK x : x = IF m < n THEN Adds(s, f, n - m) ELSE Cuts(s, f, m - n)
  OBVIOUS
<1>0. r = IF s.din[f].size = len THEN IF n = m THEN s ELSE Panic(s)
          ELSE IF x.failed THEN x ELSE [x EXCEPT !.din[f].size = len, !.dirty[f] = TRUE]
  BY <1>a, <1>b, <1>c, Zenon DEF Truncate, Adds, Cuts
<1>1. s \in State /\ Sound(s) /\ m \in Nat /\ m <= NPlaces /\ n \in Nat /\ n <= NPlaces
  <2>1. s \in State /\ Sound(s)
    BY DEF Good
  <2>2. m \in Nat /\ m <= NPlaces
    BY <1>a, <2>1 DEF State, Inode, Sound, NoHoles
  <2>3. n \in 0 .. NPlaces
    BY <1>b, BlocksEnough
  <2> QED BY <2>1, <2>2, <2>3, SizesFit
<1>2. CASE s.din[f].size = len /\ n = m
  <2>1. r = s
    BY <1>0, <1>2
  <2> QED BY <1>2, <2>1 DEF Truncates
<1>3. CASE s.din[f].size = len /\ n # m
  <2>1. r = Panic(s)
    BY <1>0, <1>3
  <2>2. s.refused
    BY <1>a, <1>b, <1>3 DEF Good, Even
  <2>3. Stopped(s, r)
    BY <1>1, <2>1, PanicStops
  <2>4. r \in State /\ Sound(r) /\ r.din = s.din /\ r.refused /\ r.failed
    BY <1>1, <2>2, <2>3, SoundSame DEF Stopped
  <2> QED BY <2>4 DEF Truncates, Good
<1>4. CASE s.din[f].size # len
  <2>1. r = IF x.failed THEN x ELSE [x EXCEPT !.din[f].size = len, !.dirty[f] = TRUE]
    BY <1>0, <1>4, Zenon
  <2>2. CASE m < n
    <3>1. PICK k : k = n - m
      OBVIOUS
    <3>2. k \in Nat /\ m + k <= NPlaces /\ m + k = n /\ x = Adds(s, f, k)
      BY <1>1, <1>c, <2>2, <3>1
    <3>3. Adding(s, x, f, k)
      BY <1>1, <1>a, <3>2, AddsDo
    <3> QED BY <1>1, <1>a, <1>b, <2>1, <3>2, <3>3, TruncateEnds DEF Adding
  <2>3. CASE ~(m < n)
    <3>1. PICK k : k = m - n
      OBVIOUS
    <3>2. k \in Nat /\ k <= m /\ m - k = n /\ x = Cuts(s, f, k)
      BY <1>1, <1>c, <2>3, <3>1
    <3>3. Cutting(s, x, f, k)
      BY <1>1, <1>a, <3>2, CutsDo
    <3> QED BY <1>1, <1>a, <1>b, <2>1, <3>2, <3>3, TruncateEnds DEF Cutting
  <2> QED BY <2>2, <2>3
<1> QED BY <1>2, <1>3, <1>4

-----------------------------------------------------------------------------
\* One piece of a transfer.
MoveOn(f, r, piece) ==
  IF r.s.failed THEN r
  ELSE LET x == Load(r.s, f, piece.blk)
       IN  [s |-> x, alen |-> IF x.failed THEN r.alen ELSE r.alen + piece.len]

\* The pieces in turn.
MovesOf(f, base, pieces) ==
  LET Move(r, piece) == MoveOn(f, r, piece) IN FoldLeft(Move, base, pieces)

\* The greatest of the sets over which the fold goes.
LEMMA MaxOfTwo == Max({1}) = 1 /\ Max({2}) = 2 /\ Max({1, 2}) = 2
<1>1. \A T \in SUBSET (0 .. 2) : T # {} => Max(T) \in T /\ \A y \in T : y <= Max(T)
  BY GreatestOf
<1>2. Max({1}) \in {1} /\ Max({2}) \in {2}
  <2>1. {1} \in SUBSET (0 .. 2) /\ {1} # {} /\ {2} \in SUBSET (0 .. 2) /\ {2} # {}
    OBVIOUS
  <2> QED BY <1>1, <2>1
<1>3. Max({1, 2}) \in {1, 2} /\ 2 <= Max({1, 2})
  <2>1. {1, 2} \in SUBSET (0 .. 2) /\ {1, 2} # {} /\ 2 \in {1, 2}
    OBVIOUS
  <2> QED BY <1>1, <2>1
<1> QED BY <1>2, <1>3

\* A transfer of no piece.
LEMMA NoMoves ==
  ASSUME NEW f, NEW base
  PROVE  MovesOf(f, base, << >>) = base
<1> DEFINE T(g, s) == IF s = {} THEN base
                      ELSE LET x == Max(s) IN MoveOn(f, g[s \ {x}], << >>[x])
           it == CHOOSE g : g = [s \in SUBSET {} |-> T(g, s)]
<1>1. DOMAIN << >> = {}
  OBVIOUS
<1>2. MovesOf(f, base, << >>) = it[{}]
  <2>1. MovesOf(f, base, << >>)
          = LET it2[s \in SUBSET DOMAIN << >>] ==
                  IF s = {} THEN base ELSE LET x == Max(s) IN MoveOn(f, it2[s \ {x}], << >>[x])
            IN  it2[DOMAIN << >>]
    BY Zenon DEF MovesOf, FoldLeft, MapThenFoldSet
  <2> QED BY <1>1, <2>1, Zenon
<1>3. [s \in SUBSET {} |-> base] = [s \in SUBSET {} |-> T([c \in SUBSET {} |-> base], s)]
  OBVIOUS
<1>4. it = [s \in SUBSET {} |-> T(it, s)]
  <2> HIDE DEF T
  <2>1. \E g : g = [s \in SUBSET {} |-> T(g, s)]
    BY <1>3
  <2> QED BY <2>1, Zenon
<1> HIDE DEF it
<1>5. it[{}] = base
  BY <1>4
<1> QED BY <1>2, <1>5

\* A transfer of one piece.
LEMMA OneMove ==
  ASSUME NEW f, NEW base, NEW p
  PROVE  MovesOf(f, base, <<p>>)
           = MoveOn(f, base, p)
<1> DEFINE T(g, s) == IF s = {} THEN base
                      ELSE LET x == Max(s) IN MoveOn(f, g[s \ {x}], <<p>>[x])
           it == CHOOSE g : g = [s \in SUBSET {1} |-> T(g, s)]
<1>1. DOMAIN <<p>> = {1} /\ <<p>>[1] = p
  OBVIOUS
<1>2. MovesOf(f, base, <<p>>) = it[{1}]
  <2>1. MovesOf(f, base, <<p>>)
          = LET it2[s \in SUBSET DOMAIN <<p>>] ==
                  IF s = {} THEN base ELSE LET x == Max(s) IN MoveOn(f, it2[s \ {x}], <<p>>[x])
            IN  it2[DOMAIN <<p>>]
    BY Zenon DEF MovesOf, FoldLeft, MapThenFoldSet
  <2> QED BY <1>1, <2>1, Zenon
<1>3. PICK v : v = MoveOn(f, base, p)
  OBVIOUS
<1>4. PICK g : g = [s \in SUBSET {1} |-> IF s = {} THEN base ELSE v]
  OBVIOUS
<1>5. g = [s \in SUBSET {1} |-> T(g, s)]
  <2>1. ASSUME NEW s \in SUBSET {1} PROVE g[s] = T(g, s)
    <3>1. CASE s = {}
      BY <1>4, <3>1
    <3>2. CASE s = {1}
      <4>1. Max(s) = 1 /\ s \ {1} = {} /\ s # {}
        BY <3>2, MaxOfTwo
      <4>2. g[{}] = base /\ g[s] = v
        BY <1>4, <4>1
      <4>3. T(g, s) = MoveOn(f, g[{}], p)
        BY <1>1, <4>1, Zenon
      <4> QED BY <1>3, <4>2, <4>3
    <3> QED BY <3>1, <3>2
  <2> HIDE DEF T
  <2> QED BY <1>4, <2>1
<1>6. it = [s \in SUBSET {1} |-> T(it, s)]
  <2> HIDE DEF T
  <2>1. \E h : h = [s \in SUBSET {1} |-> T(h, s)]
    BY <1>5
  <2> QED BY <2>1, Zenon
<1> HIDE DEF it
<1>7. it[{}] = base /\ it[{1}] = T(it, {1})
  <2>1. it[{}] = T(it, {}) /\ it[{1}] = T(it, {1})
    <3> HIDE DEF T
    <3> QED BY <1>6
  <2> QED BY <2>1
<1>8. T(it, {1}) = MoveOn(f, base, p)
  <2>1. {1} \ {1} = {} /\ {1} # {}
    OBVIOUS
  <2> QED BY <1>1, <1>7, <2>1, MaxOfTwo, Zenon
<1> QED BY <1>2, <1>7, <1>8

\* A transfer of two pieces.
LEMMA TwoMoves ==
  ASSUME NEW f, NEW base, NEW p, NEW q
  PROVE  MovesOf(f, base, <<p, q>>)
           = MoveOn(f, MoveOn(f, base, p), q)
<1> DEFINE T(g, s) == IF s = {} THEN base
                      ELSE LET x == Max(s) IN MoveOn(f, g[s \ {x}], <<p, q>>[x])
           it == CHOOSE g : g = [s \in SUBSET {1, 2} |-> T(g, s)]
<1>1. DOMAIN <<p, q>> = {1, 2} /\ <<p, q>>[1] = p /\ <<p, q>>[2] = q
  <2>1. DOMAIN <<p, q>> = 1 .. 2 /\ 1 .. 2 = {1, 2}
    OBVIOUS
  <2> QED BY <2>1
<1>2. MovesOf(f, base, <<p, q>>) = it[{1, 2}]
  <2>1. MovesOf(f, base, <<p, q>>)
          = LET it2[s \in SUBSET DOMAIN <<p, q>>] ==
                  IF s = {} THEN base
                  ELSE LET x == Max(s) IN MoveOn(f, it2[s \ {x}], <<p, q>>[x])
            IN  it2[DOMAIN <<p, q>>]
    BY Zenon DEF MovesOf, FoldLeft, MapThenFoldSet
  <2> QED BY <1>1, <2>1, Zenon
<1>3. PICK v1 : v1 = MoveOn(f, base, p)
  OBVIOUS
<1>4. PICK v2 : v2 = MoveOn(f, base, q)
  OBVIOUS
<1>5. PICK v : v = MoveOn(f, v1, q)
  OBVIOUS
<1>6. PICK g : g = [s \in SUBSET {1, 2} |->
                      IF s = {} THEN base ELSE IF s = {1} THEN v1 ELSE IF s = {2} THEN v2 ELSE v]
  OBVIOUS
<1>7. g[{}] = base /\ g[{1}] = v1 /\ g[{2}] = v2 /\ g[{1, 2}] = v
  <2>1. {1} # {} /\ {2} # {} /\ {1, 2} # {} /\ {1} # {2} /\ {1, 2} # {1} /\ {1, 2} # {2}
    <3>1. 1 \in {1, 2} /\ 2 \in {1, 2} /\ 2 \notin {1} /\ 1 \notin {2}
      OBVIOUS
    <3> QED BY <3>1
  <2>2. {} \in SUBSET {1, 2} /\ {1} \in SUBSET {1, 2} /\ {2} \in SUBSET {1, 2}
        /\ {1, 2} \in SUBSET {1, 2}
    OBVIOUS
  <2> QED BY <1>6, <2>1, <2>2
<1>8. {1} \ {1} = {} /\ {2} \ {2} = {} /\ {1, 2} \ {2} = {1}
      /\ {1} # {} /\ {2} # {} /\ {1, 2} # {}
  OBVIOUS
<1>9. T(g, {1}) = v1 /\ T(g, {2}) = v2 /\ T(g, {1, 2}) = v /\ T(g, {}) = base
  BY <1>1, <1>3, <1>4, <1>5, <1>7, <1>8, MaxOfTwo, Zenon
<1>10. g = [s \in SUBSET {1, 2} |-> T(g, s)]
  <2>1. ASSUME NEW s \in SUBSET {1, 2} PROVE g[s] = T(g, s)
    <3>1. s = {} \/ s = {1} \/ s = {2} \/ s = {1, 2}
      OBVIOUS
    <3> HIDE DEF T
    <3> QED BY <1>7, <1>9, <3>1
  <2> HIDE DEF T
  <2> QED BY <1>6, <2>1
<1>11. it = [s \in SUBSET {1, 2} |-> T(it, s)]
  <2> HIDE DEF T
  <2>1. \E h : h = [s \in SUBSET {1, 2} |-> T(h, s)]
    BY <1>10
  <2> QED BY <2>1, Zenon
<1> HIDE DEF it
<1>12. it[{}] = T(it, {}) /\ it[{1}] = T(it, {1}) /\ it[{1, 2}] = T(it, {1, 2})
  <2> HIDE DEF T
  <2>2. {} \in SUBSET {1, 2} /\ {1} \in SUBSET {1, 2} /\ {1, 2} \in SUBSET {1, 2}
    OBVIOUS
  <2> QED BY <1>11, <2>2
<1>13. it[{}] = base
  BY <1>12
<1>14. it[{1}] = v1
  <2>1. T(it, {1}) = MoveOn(f, it[{}], p)
    BY <1>1, <1>8, MaxOfTwo, Zenon
  <2> QED BY <1>3, <1>12, <1>13, <2>1
<1>15. it[{1, 2}] = v
  <2>1. T(it, {1, 2}) = MoveOn(f, it[{1}], q)
    BY <1>1, <1>8, MaxOfTwo, Zenon
  <2> QED BY <1>5, <1>12, <1>14, <2>1
<1> QED BY <1>2, <1>3, <1>5, <1>15

\* Sequences of two at most.
LEMMA ShortSequences ==
  ASSUME NEW x, NEW y
  PROVE  /\ << >> \o << >> = << >> /\ <<x>> \o << >> = <<x>> /\ << >> \o <<x>> = <<x>>
         /\ <<x>> \o <<y>> = <<x, y>>
<1>1. PICK S : S = {x, y}
  OBVIOUS
<1>2. <<x>> \in Seq(S) /\ <<y>> \in Seq(S) /\ << >> \in Seq(S) /\ <<x, y>> \in Seq(S)
  BY <1>1
<1>3. << >> \o << >> = << >> /\ <<x>> \o << >> = <<x>> /\ << >> \o <<x>> = <<x>>
  BY <1>2, ConcatEmptySeq
<1>4. <<x>> \o <<y>> = <<x, y>>
  <2>1. PICK w : w = <<x>> \o <<y>>
    OBVIOUS
  <2>2. Len(<<x>>) = 1 /\ Len(<<y>>) = 1 /\ <<x>>[1] = x /\ <<y>>[1] = y
    OBVIOUS
  <2>3. w \in Seq(S) /\ Len(w) = 2 /\ w[1] = x /\ w[2] = y
    <3>1. w \in Seq(S) /\ Len(w) = Len(<<x>>) + Len(<<y>>)
      BY <1>2, <2>1, ConcatProperties
    <3>2. w[1] = <<x>>[1] /\ w[2] = <<y>>[1]
      BY <1>2, <2>1, <2>2, ConcatProperties
    <3> QED BY <2>2, <3>1, <3>2
  <2>4. <<x, y>> \in Seq(S) /\ Len(<<x, y>>) = 2 /\ <<x, y>>[1] = x /\ <<x, y>>[2] = y
    BY <1>2
  <2>5. \A i \in 1 .. Len(w) : w[i] = <<x, y>>[i]
    BY <2>3, <2>4
  <2>6. w = <<x, y>>
    BY <1>2, <2>3, <2>4, <2>5, SeqEqual
  <2> QED BY <2>1, <2>6
<1> QED BY <1>3, <1>4

\* The pieces of a transfer of at most a block: one, or two if it crosses into the
\* next block.
LEMMA PiecesAre ==
  ASSUME NEW off \in Nat, NEW end \in Nat, off < end, end <= off + BlkSize,
         NEW first, first = off \div BlkSize, NEW cut, cut = (first + 1) * BlkSize
  PROVE  /\ first \in Nat /\ first * BlkSize <= off /\ off < cut
         /\ Pieces(off, end) =
              IF end <= cut THEN <<[blk |-> first, len |-> end - off]>>
              ELSE <<[blk |-> first, len |-> cut - off], [blk |-> first + 1, len |-> end - cut]>>
<1>1. BlkSize \in Nat /\ BlkSize > 0
  BY SizesFit
<1>2. PICK B \in Nat : B = BlkSize
  BY <1>1
<1>3. PICK q \in Int : q = end \div BlkSize
  BY <1>1
<1>4. PICK head \in Int : head = off % BlkSize
  BY <1>1
<1>5. PICK tail \in Int : tail = end % BlkSize
  BY <1>1
<1>6. first \in Int /\ off = B * first + head /\ 0 <= head /\ head < B
  BY <1>1, <1>2, <1>4
<1>7. end = B * q + tail /\ 0 <= tail /\ tail < B
  BY <1>1, <1>2, <1>3, <1>5
<1>8. first >= 0 /\ first * B <= off /\ off < (first + 1) * B
  BY <1>1, <1>2, <1>6
<1>9. q = first \/ q = first + 1
  <2>1. q >= first
    <3> SUFFICES ASSUME q + 1 <= first PROVE FALSE
      BY <1>6
    <3>2. PICK n \in Int : n = q + 1
      OBVIOUS
    <3>3. n <= first /\ first \in Int
      BY <1>6, <3>2
    <3>4. n * B <= first * B
      BY <3>3
    <3>1. (q + 1) * B <= first * B
      BY <3>2, <3>4
    <3> QED BY <1>6, <1>7, <3>1
  <2>2. q <= first + 1
    <3> SUFFICES ASSUME first + 2 <= q PROVE FALSE
      BY <1>6
    <3>1. (first + 2) * B <= q * B
      BY <1>6
    <3> QED BY <1>2, <1>6, <1>7, <3>1
  <2> QED BY <1>6, <2>1, <2>2
<1> DEFINE k    == q - first
           skip == IF head = 0 THEN 0 ELSE 1
           P1 == [blk |-> first, len |-> IF k = 0 THEN end - off ELSE B - head]
           P2 == [blk |-> first + skip, len |-> (k - skip) * B]
           P3 == [blk |-> first + k, len |-> tail]
<1>10. Pieces(off, end) = (IF head # 0 THEN <<P1>> ELSE << >>)
                          \o (IF k > skip THEN <<P2>> ELSE << >>)
                          \o (IF tail # 0 /\ (head = 0 \/ k # 0) THEN <<P3>> ELSE << >>)
  BY <1>2, <1>3, <1>4, <1>5, Zenon DEF Pieces
<1>11. cut = first * B + B
  BY <1>2, <1>6
<1>12. /\ k \in Int /\ (k = 0 \/ k = 1) /\ q = first + k
       /\ k = 0 => end = B * first + tail
       /\ k = 1 => end = B * first + B + tail
  BY <1>2, <1>6, <1>7, <1>9
<1> HIDE DEF P1, P2, P3, k, skip
<1>13. CASE end <= cut
  <2>1. PICK p : p = [blk |-> first, len |-> end - off]
    OBVIOUS
  <2>2. Pieces(off, end) = <<p>>
    <3>1. CASE head = 0 /\ k = 1
      <4>1. tail = 0 /\ skip = 0
        BY <1>7, <1>11, <1>12, <1>13, <3>1, <1>2 DEF skip
      <4>2. P2 = p
        <5>1. first + skip = first /\ (k - skip) * B = end - off
          BY <1>6, <1>12, <3>1, <4>1
        <5> QED BY <2>1, <5>1 DEF P2
      <4>3. Pieces(off, end) = << >> \o <<p>> \o << >>
        BY <1>10, <3>1, <4>1, <4>2
      <4> QED BY <4>3, ShortSequences
    <3>2. CASE head = 0 /\ k = 0
      <4>1. tail # 0 /\ skip = 0
        BY <1>6, <1>7, <1>12, <3>2 DEF skip
      <4>2. P3 = p
        <5>1. first + k = first /\ tail = end - off
          BY <1>6, <1>12, <3>2
        <5> QED BY <2>1, <5>1 DEF P3
      <4>3. Pieces(off, end) = << >> \o << >> \o <<p>>
        BY <1>10, <3>2, <4>1, <4>2
      <4> QED BY <4>3, ShortSequences
    <3>3. CASE head # 0 /\ k = 0
      <4>1. skip = 1
        BY <3>3 DEF skip
      <4>2. P1 = p
        BY <2>1, <3>3 DEF P1
      <4>3. Pieces(off, end) = <<p>> \o << >> \o << >>
        BY <1>10, <3>3, <4>1, <4>2
      <4> QED BY <4>3, ShortSequences
    <3>4. CASE head # 0 /\ k = 1
      <4>1. skip = 1 /\ tail = 0
        BY <1>7, <1>11, <1>12, <1>13, <3>4, <1>2 DEF skip
      <4>2. B - head = end - off
        BY <1>6, <1>12, <3>4, <4>1
      <4>3. P1 = p
        BY <2>1, <3>4, <4>2 DEF P1
      <4>4. Pieces(off, end) = <<p>> \o << >> \o << >>
        BY <1>10, <3>4, <4>1, <4>3
      <4> QED BY <4>4, ShortSequences
    <3> QED BY <1>12, <3>1, <3>2, <3>3, <3>4
  <2> QED BY <1>2, <1>6, <1>8, <1>13, <2>1, <2>2
<1>14. CASE ~(end <= cut)
  <2>1. k = 1 /\ head # 0 /\ tail = end - cut /\ tail # 0 /\ skip = 1
    <3>1. k = 1
      BY <1>7, <1>11, <1>12, <1>14
    <3>2. tail = end - cut /\ tail # 0
      BY <1>7, <1>11, <1>12, <1>14, <3>1
    <3>3. head # 0
      <4>1. head = 0 => off + BlkSize = cut
        BY <1>2, <1>6, <1>11
      <4> QED BY <1>14, <4>1
    <3> QED BY <3>1, <3>2, <3>3 DEF skip
  <2>2. PICK p : p = [blk |-> first, len |-> cut - off]
    OBVIOUS
  <2>3. PICK r : r = [blk |-> first + 1, len |-> end - cut]
    OBVIOUS
  <2>4. B - head = cut - off
    BY <1>6, <1>11
  <2>5. P1 = p /\ P3 = r
    BY <2>1, <2>2, <2>3, <2>4 DEF P1, P3
  <2>6. Pieces(off, end) = <<p>> \o << >> \o <<r>>
    BY <1>10, <2>1, <2>5
  <2>7. Pieces(off, end) = <<p, r>>
    BY <2>6, ShortSequences
  <2> QED BY <1>2, <1>6, <1>8, <1>14, <2>2, <2>3, <2>7
<1> QED BY <1>13, <1>14

-----------------------------------------------------------------------------
\* x is s with blocks for f up to byte e; what is not needed for that is as it was.
Reached(s, x, f, e) ==
  /\ x \in State /\ Sound(x) /\ ~x.failed
  /\ OnlyFile(s, x, f)
  /\ LET n == s.din[f].blocks
         m == x.din[f].blocks
     IN  /\ n <= m /\ e <= m * BlkSize
         /\ n = m => x.din[f] = s.din[f] /\ x.dirty[f] = s.dirty[f]
         /\ n < m => (m - 1) * BlkSize < e

\* The first piece of a transfer, which ends at byte e.
LEMMA FirstReach ==
  ASSUME NEW s \in State, Sound(s), ~s.failed, NEW f \in Files, NEW i \in 0 .. NPlaces - 1,
         NEW e \in Nat, i * BlkSize < e, e <= (i + 1) * BlkSize, NEW x, LoadsBlock(s, x, f, i)
  PROVE  \/ Stopped(s, x) /\ i > s.din[f].blocks
         \/ RanFull(s, x)
         \/ Reached(s, x, f, e)
<1>a. PICK n \in Nat : n = s.din[f].blocks
  BY DEF State, Inode
<1>b. PICK B \in Nat : B = BlkSize
  BY SizesFit
<1>c. i \in Nat /\ i * B < e /\ e <= (i + 1) * B
  BY <1>b, SizesFit
<1>1. x \in State /\ Sound(x)
  BY DEF LoadsBlock
<1>2. CASE i < n /\ x = s
  <2>1. OnlyFile(s, x, f) /\ ~x.failed
    BY <1>2 DEF OnlyFile
  <2>2. (i + 1) * B <= n * B
    BY <1>2, <1>c
  <2>3. e <= n * B
    BY <1>c, <2>2
  <2> QED BY <1>a, <1>b, <1>1, <1>2, <2>1, <2>3 DEF Reached
<1>3. CASE i = n /\ OnlyFile(s, x, f) /\ x.din[f].blocks = n + 1
  <2>1. ~x.failed
    BY <1>3 DEF OnlyFile
  <2>2. (n + 1) - 1 = i
    BY <1>3
  <2>3. e <= (n + 1) * B /\ ((n + 1) - 1) * B < e
    BY <1>3, <1>c, <2>2
  <2>4. n <= n + 1 /\ n # n + 1
    OBVIOUS
  <2> QED BY <1>a, <1>b, <1>1, <1>3, <2>1, <2>3, <2>4 DEF Reached
<1>4. \/ i > n /\ Stopped(s, x)
      \/ i < n /\ x = s
      \/ i = n /\ RanFull(s, x)
      \/ i = n /\ OnlyFile(s, x, f) /\ x.din[f].blocks = n + 1
  BY <1>a DEF LoadsBlock
<1> QED BY <1>a, <1>2, <1>3, <1>4

\* The next piece, which begins at block i.
LEMMA NextReach ==
  ASSUME NEW s \in State, NEW f \in Files, NEW i \in 0 .. NPlaces - 1,
         NEW x, Reached(s, x, f, i * BlkSize),
         NEW e \in Nat, i * BlkSize < e, e <= (i + 1) * BlkSize, NEW y, LoadsBlock(x, y, f, i)
  PROVE  Full(s, y) \/ Reached(s, y, f, e)
<1>a. PICK n \in Nat : n = s.din[f].blocks
  BY DEF State, Inode
<1>b. PICK B \in Nat : B = BlkSize
  BY SizesFit
<1>c. i \in Nat /\ i * B < e /\ e <= (i + 1) * B /\ B > 0
  BY <1>b, SizesFit
<1>d. PICK m \in Nat : m = x.din[f].blocks
  BY DEF State, Inode, Reached
<1>1. y \in State /\ Sound(y)
  BY DEF LoadsBlock
<1>2. /\ n <= m /\ i * B <= m * B
      /\ n = m => x.din[f] = s.din[f] /\ x.dirty[f] = s.dirty[f]
      /\ n < m => (m - 1) * B < i * B
      /\ OnlyFile(s, x, f) /\ ~x.failed
  BY <1>a, <1>b, <1>d DEF Reached
<1>3. i <= m
  <2>1. m + 1 <= i => (m + 1) * B <= i * B
    BY <1>c
  <2> QED BY <1>2, <1>c, <2>1
<1>4. CASE i < m /\ y = x
  <2>1. (i + 1) * B <= m * B
    BY <1>4, <1>c
  <2>2. e <= m * B /\ (n < m => (m - 1) * B < e)
    BY <1>2, <1>c, <2>1
  <2> QED BY <1>a, <1>b, <1>d, <1>1, <1>2, <1>4, <2>2 DEF Reached
<1>5. CASE i = m /\ OnlyFile(x, y, f) /\ y.din[f].blocks = m + 1
  <2>1. ~y.failed /\ OnlyFile(s, y, f)
    BY <1>2, <1>5, OnlyChain DEF OnlyFile
  <2>2. (m + 1) - 1 = i
    BY <1>5
  <2>3. e <= (m + 1) * B /\ ((m + 1) - 1) * B < e
    BY <1>5, <1>c, <2>2
  <2>4. n <= m + 1 /\ n # m + 1
    BY <1>2
  <2> QED BY <1>a, <1>b, <1>1, <1>5, <2>1, <2>3, <2>4 DEF Reached
<1>6. CASE RanFull(x, y)
  <2>1. y.failed /\ y.refused /\ y.panic = s.panic /\ y.din = x.din
    BY <1>2, <1>6 DEF RanFull, OnlyFile
  <2>2. \A g \in Files : y.din[g].size = s.din[g].size
    BY <1>2, <2>1 DEF OnlyFile
  <2> QED BY <2>1, <2>2 DEF Full
<1>7. \/ i > m
      \/ i < m /\ y = x
      \/ i = m /\ RanFull(x, y)
      \/ i = m /\ OnlyFile(x, y, f) /\ y.din[f].blocks = m + 1
  BY <1>d DEF LoadsBlock
<1> QED BY <1>3, <1>4, <1>5, <1>6, <1>7

\* All pieces of a transfer from off to end.
MoveAll(s, f, off, end) == MovesOf(f, [s |-> s, alen |-> 0], Pieces(off, end))

\* What has become of a transfer when the pieces are done: an assertion has failed
\* at once, or the disk has run full on the way, or all is transferred.
Ended(s, f, off, end, r) ==
  /\ r = [s |-> r.s, alen |-> r.alen]
  /\ \/ Stopped(s, r.s) /\ r.alen = 0 /\ s.din[f].blocks * BlkSize < off
     \/ Full(s, r.s) /\ r.s \in State /\ Sound(r.s) /\ r.alen \in 0 .. end - off
     \/ Reached(s, r.s, f, end) /\ r.alen = end - off

\* The pieces are transferred in turn.
LEMMA MovesEnd ==
  ASSUME NEW s \in State, Sound(s), ~s.failed, NEW f \in Files, NEW off \in Nat,
         NEW end \in Nat, off < end, end <= off + BlkSize, end <= MaxLen,
         NEW r, r = MoveAll(s, f, off, end)
  PROVE  Ended(s, f, off, end, r)
<1>a. PICK B \in Nat : B = BlkSize /\ B > 0
  BY SizesFit
<1>b. PICK first : first = off \div BlkSize
  OBVIOUS
<1>c. PICK cut : cut = (first + 1) * BlkSize
  OBVIOUS
<1>1. /\ first \in Nat /\ first * BlkSize <= off /\ off < cut
      /\ Pieces(off, end) =
           IF end <= cut THEN <<[blk |-> first, len |-> end - off]>>
           ELSE <<[blk |-> first, len |-> cut - off], [blk |-> first + 1, len |-> end - cut]>>
  BY <1>b, <1>c, PiecesAre
<1>2. cut \in Nat /\ cut = first * B + B
  BY <1>1, <1>a, <1>c
<1>3. MaxLen <= NPlaces * B /\ NPlaces \in Nat
  BY <1>a, SizesFit, SfsFileAssumption
<1>4. ASSUME NEW j \in Nat, j * B < end PROVE j \in 0 .. NPlaces - 1
  <2>1. NPlaces <= j => NPlaces * B <= j * B
    BY <1>3
  <2> QED BY <1>3, <1>4, <2>1, SizesFit
<1>5. PICK base : base = [s |-> s, alen |-> 0]
  OBVIOUS
<1>6. PICK e \in Nat : e = IF end <= cut THEN end ELSE cut
  BY <1>2
<1>7. PICK y : y = MoveOn(f, base, [blk |-> first, len |-> e - off])
  OBVIOUS
<1>8. PICK x : x = Load(s, f, first)
  OBVIOUS
<1>9. y = [s |-> x, alen |-> IF x.failed THEN 0 ELSE e - off]
  <2>1. base.s = s /\ base.alen = 0 /\ 0 + (e - off) = e - off
    BY <1>5
  <2>2. PICK p : p = [blk |-> first, len |-> e - off]
    OBVIOUS
  <2>3. p.blk = first /\ p.len = e - off
    BY <2>2
  <2> QED BY <1>7, <1>8, <2>1, <2>2, <2>3 DEF MoveOn
<1>10. first \in 0 .. NPlaces - 1 /\ first * B < e /\ e <= (first + 1) * B /\ off < e
  <2>1. first * B < end
    BY <1>1, <1>a
  <2>2. (first + 1) * B = first * B + B
    BY <1>1
  <2> QED BY <1>1, <1>2, <1>4, <1>6, <1>a, <2>1, <2>2
<1>11. LoadsBlock(s, x, f, first)
  BY <1>8, <1>10, LoadDoes
<1>12. \/ Stopped(s, x) /\ first > s.din[f].blocks
       \/ RanFull(s, x)
       \/ Reached(s, x, f, e)
  BY <1>10, <1>11, <1>a, FirstReach
<1>13. PICK q : q = [blk |-> first + 1, len |-> end - cut]
  OBVIOUS
<1>14. ~(end <= cut) => r = MoveOn(f, y, q)
  <2> HAVE ~(end <= cut)
  <2>1. PICK p : p = [blk |-> first, len |-> e - off]
    OBVIOUS
  <2>2. Pieces(off, end) = <<p, q>>
    BY <1>1, <1>6, <1>13, <2>1
  <2>3. r = MovesOf(f, base, <<p, q>>)
    BY <1>5, <2>2, Zenon DEF MoveAll
  <2>4. r = MoveOn(f, MoveOn(f, base, p), q)
    BY <2>3, TwoMoves
  <2> QED BY <1>7, <2>1, <2>4
<1>15. CASE Stopped(s, x) /\ first > s.din[f].blocks
  <2>1. r = y
    <3>1. CASE end <= cut
      BY <1>1, <1>5, <1>6, <1>7, <3>1, OneMove DEF MoveAll
    <3>2. CASE ~(end <= cut)
      <4>1. y.s.failed
        BY <1>9, <1>15 DEF Stopped
      <4> QED BY <1>14, <3>2, <4>1 DEF MoveOn
    <3> QED BY <3>1, <3>2
  <2>2. y = [s |-> x, alen |-> 0]
    BY <1>9, <1>15 DEF Stopped
  <2>3. s.din[f].blocks * BlkSize < off
    <3>1. PICK n \in Nat : n = s.din[f].blocks
      BY DEF State, Inode
    <3>2. (n + 1) * B <= first * B
      BY <1>1, <1>15, <3>1
    <3>3. n * B < off
      BY <1>1, <1>a, <3>2
    <3> QED BY <1>a, <3>1, <3>3
  <2> QED BY <1>15, <2>1, <2>2, <2>3 DEF Ended
<1>16. CASE RanFull(s, x)
  <2>1. r = y
    <3>1. CASE end <= cut
      BY <1>1, <1>5, <1>6, <1>7, <3>1, OneMove DEF MoveAll
    <3>2. CASE ~(end <= cut)
      <4>1. y.s.failed
        BY <1>9, <1>16 DEF RanFull
      <4> QED BY <1>14, <3>2, <4>1 DEF MoveOn
    <3> QED BY <3>1, <3>2
  <2>2. y = [s |-> x, alen |-> 0]
    BY <1>9, <1>16 DEF RanFull
  <2>3. Full(s, x) /\ x \in State /\ Sound(x)
    BY <1>11, <1>16 DEF RanFull, Full, LoadsBlock
  <2>4. 0 \in 0 .. end - off
    OBVIOUS
  <2> QED BY <2>1, <2>2, <2>3, <2>4 DEF Ended
<1>17. CASE Reached(s, x, f, e)
  <2>1. y = [s |-> x, alen |-> e - off] /\ ~x.failed
    BY <1>9, <1>17 DEF Reached
  <2>2. CASE end <= cut
    <3>1. r = y
      BY <1>1, <1>5, <1>6, <1>7, <2>2, OneMove DEF MoveAll
    <3>2. e = end
      BY <1>6, <2>2
    <3> QED BY <1>17, <2>1, <3>1, <3>2 DEF Ended
  <2>3. CASE ~(end <= cut)
    <3>2. r = MoveOn(f, y, q)
      BY <1>14, <2>3
    <3>3. PICK i : i = first + 1
      OBVIOUS
    <3>4. e = cut /\ i \in Nat /\ i * B = cut /\ i * B < end
      BY <1>1, <1>2, <1>6, <2>3, <3>3
    <3>5. end <= (i + 1) * B
      BY <1>1, <1>2, <1>a, <3>3, <3>4
    <3>6. PICK z : z = Load(x, f, i)
      OBVIOUS
    <3>7. r = [s |-> z, alen |-> IF z.failed THEN e - off ELSE end - off]
      <4>1. y.s = x /\ y.alen = e - off /\ q.blk = i /\ q.len = end - cut
        BY <1>13, <2>1, <3>3
      <4>2. (e - off) + (end - cut) = end - off
        BY <1>2, <3>4
      <4> QED BY <2>1, <3>2, <3>6, <4>1, <4>2 DEF MoveOn
    <3>8. i \in 0 .. NPlaces - 1
      BY <1>4, <3>4
    <3>9. LoadsBlock(x, z, f, i)
      BY <1>17, <3>6, <3>8, LoadDoes DEF Reached
    <3>10. Full(s, z) \/ Reached(s, z, f, end)
      BY <1>17, <1>a, <3>4, <3>5, <3>8, <3>9, NextReach
    <3>11. z \in State /\ Sound(z)
      BY <3>9 DEF LoadsBlock
    <3>12. CASE Full(s, z)
      <4>1. r = [s |-> z, alen |-> e - off] /\ e - off \in 0 .. end - off
        BY <1>1, <1>2, <1>10, <2>3, <3>4, <3>7, <3>12 DEF Full
      <4> QED BY <3>11, <3>12, <4>1 DEF Ended
    <3>13. CASE Reached(s, z, f, end)
      <4>1. r = [s |-> z, alen |-> end - off]
        BY <3>7, <3>13 DEF Reached
      <4> QED BY <3>13, <4>1 DEF Ended
    <3> QED BY <3>10, <3>12, <3>13
  <2> QED BY <2>2, <2>3
<1> QED BY <1>12, <1>15, <1>16, <1>17

\* What sfs_io_nolock() does: sizes grow only, and unless the disk has run full, what
\* begins in the file also ends in it, and no assertion fails.
Transfers(s, f, off, len, r) ==
  /\ Good(r.s)
  /\ r.alen \in 0 .. len
  /\ \A g \in Files : g # f => r.s.din[g].size = s.din[g].size
  /\ s.din[f].size <= r.s.din[f].size
  /\ s.refused => r.s.refused
  /\ ~r.s.refused /\ off <= s.din[f].size =>
       ~r.s.panic /\ off + r.alen <= r.s.din[f].size

\* The last assignments of a transfer, to the state in its result.
Grow(m, f, n) == [m EXCEPT !.s.din[f].size = n, !.s.dirty[f] = TRUE]

LongerFile(x, f, n) == [x EXCEPT !.din[f].size = n, !.dirty[f] = TRUE]

\* They concern the state only.
LEMMA GrowDoes ==
  ASSUME NEW x, NEW a, NEW f, NEW n, NEW m, m = [s |-> x, alen |-> a]
  PROVE  Grow(m, f, n).s = LongerFile(x, f, n) /\ Grow(m, f, n).alen = a
<1>1. PICK v : v = [x EXCEPT !.din[f].size = n]
  OBVIOUS
<1>2. PICK w : w = [m EXCEPT !.s.din[f].size = n]
  OBVIOUS
<1>3. w = [s |-> v, alen |-> a]
  BY <1>1, <1>2
<1>b. PICK b : b = TRUE
  OBVIOUS
<1>4. /\ [w EXCEPT !.s.dirty[f] = b].s = [v EXCEPT !.dirty[f] = b]
      /\ [w EXCEPT !.s.dirty[f] = b].alen = a
  BY <1>3
<1>5. Grow(m, f, n) = [w EXCEPT !.s.dirty[f] = b]
  BY <1>b, <1>2, Zenon DEF Grow
<1>6. LongerFile(x, f, n) = [v EXCEPT !.dirty[f] = b]
  BY <1>b, <1>1, Zenon DEF LongerFile
<1> QED BY <1>4, <1>5, <1>6

\* The end of a transfer: the size follows what has been transferred.
LEMMA IoEnds ==
  ASSUME NEW s, Good(s), ~s.failed, ~s.panic, NEW f \in Files, NEW off \in Nat,
         NEW end \in Nat, off < end, end <= MaxLen, NEW len \in Nat, end <= off + len,
         NEW m, Ended(s, f, off, end, m),
         NEW r, r = IF m.s.panic \/ off + m.alen <= m.s.din[f].size THEN m
                    ELSE Grow(m, f, off + m.alen)
  PROVE  Transfers(s, f, off, len, r)
<1>a. PICK x : x = m.s
  OBVIOUS
<1>b. PICK a : a = m.alen
  OBVIOUS
<1>c. m = [s |-> x, alen |-> a]
  BY <1>a, <1>b DEF Ended
<1>d. s \in State /\ Sound(s)
  BY DEF Good
<1>1. IF x.panic \/ off + a <= x.din[f].size THEN r.s = x /\ r.alen = a
      ELSE r.s = LongerFile(x, f, off + a) /\ r.alen = a
  <2>1. CASE x.panic \/ off + a <= x.din[f].size
    <3>1. r = m
      BY <1>a, <1>b, <2>1
    <3> QED BY <1>a, <1>b, <2>1, <3>1
  <2>2. CASE ~(x.panic \/ off + a <= x.din[f].size)
    <3>1. r = Grow(m, f, off + a)
      BY <1>a, <1>b, <2>2
    <3>2. Grow(m, f, off + a).s = LongerFile(x, f, off + a) /\ Grow(m, f, off + a).alen = a
      BY <1>c, GrowDoes
    <3> QED BY <2>2, <3>1, <3>2
  <2> QED BY <2>1, <2>2
<1>2. s.din[f].size \in Nat /\ s.din[f].blocks \in Nat
  BY <1>d DEF State, Inode
<1>3. CASE Stopped(s, x) /\ a = 0 /\ s.din[f].blocks * BlkSize < off
  <2>2. r.s = x /\ r.alen = 0
    BY <1>1, <1>3 DEF Stopped
  <2>3. /\ x \in State /\ x.din = s.din /\ x.dirty = s.dirty /\ x.disk = s.disk
        /\ x.refused = s.refused
    BY <1>3 DEF Stopped
  <2>4. Sound(x)
    BY <1>3, <1>d, SoundSame DEF Stopped
  <2>5. Good(x)
    BY <2>3, <2>4 DEF Good, Even, Marked
  <2>6. ~s.refused => ~(off <= s.din[f].size)
    <3> HAVE ~s.refused
    <3>1. s.din[f].size <= s.din[f].blocks * BlkSize
      <4>1. Even(s, f)
        BY DEF Good
      <4> QED BY <1>2, <4>1, BlocksAre DEF Even
    <3>2. PICK e \in Nat : e = s.din[f].blocks * BlkSize
      BY <1>2, SizesFit
    <3> QED BY <1>2, <1>3, <3>1, <3>2
  <2>7. 0 \in 0 .. len /\ s.din[f].size <= s.din[f].size
    BY <1>2
  <2> QED BY <2>2, <2>3, <2>5, <2>6, <2>7 DEF Transfers
<1>4. CASE Full(s, x) /\ x \in State /\ Sound(x) /\ a \in 0 .. end - off
  <2>1. ~x.panic /\ x.refused /\ \A g \in Files : x.din[g].size = s.din[g].size
    BY <1>4 DEF Full
  <2>2. a \in 0 .. len /\ off + a \in Nat /\ off + a <= MaxLen
    BY <1>4, SizesFit
  <2>3. CASE off + a <= x.din[f].size
    <3>1. r.s = x /\ r.alen = a
      BY <1>1, <2>3
    <3>2. Good(x)
      BY <1>4, <2>1 DEF Good
    <3>3. s.din[f].size <= x.din[f].size
      BY <1>2, <2>1
    <3> QED BY <2>1, <2>2, <3>1, <3>2, <3>3 DEF Transfers
  <2>4. CASE ~(off + a <= x.din[f].size)
    <3>1. PICK y : y = LongerFile(x, f, off + a)
      OBVIOUS
    <3>2. r.s = y /\ r.alen = a
      BY <1>1, <2>1, <2>4, <3>1
    <3>3. Resized(x, f, off + a, y)
      BY <1>4, <2>2, <3>1, ResizeDoes DEF LongerFile
    <3>4. /\ y \in State /\ Sound(y) /\ y.refused /\ y.din[f].size = off + a
          /\ \A g \in Files : g # f => y.din[g].size = s.din[g].size
      BY <2>1, <3>3 DEF Resized
    <3>5. Good(y)
      BY <2>2, <3>4 DEF Good
    <3>6. s.din[f].size <= off + a
      BY <1>2, <2>1, <2>2, <2>4
    <3> QED BY <2>2, <3>2, <3>4, <3>5, <3>6 DEF Transfers
  <2> QED BY <2>3, <2>4
<1>5. CASE Reached(s, x, f, end) /\ a = end - off
  <2>a. PICK n \in Nat : n = s.din[f].blocks
    BY <1>2
  <2>b. PICK B \in Nat : B = BlkSize
    BY SizesFit
  <2>c. PICK k \in Nat : k = x.din[f].blocks
    BY <1>5 DEF Reached, State, Inode
  <2>d. PICK z \in Nat : z = s.din[f].size
    BY <1>2
  <2>1. /\ x \in State /\ Sound(x) /\ ~x.panic /\ x.refused = s.refused /\ x.disk = s.disk
        /\ x.din[f].size = z
        /\ \A g \in Files : g # f => x.din[g] = s.din[g] /\ x.dirty[g] = s.dirty[g]
    BY <1>5, <2>d DEF Reached, OnlyFile
  <2>2. /\ n <= k /\ end <= k * B
        /\ n = k => x.din[f] = s.din[f] /\ x.dirty[f] = s.dirty[f]
        /\ n < k => (k - 1) * B < end
    BY <1>5, <2>a, <2>b, <2>c DEF Reached
  <2>3. off + a = end /\ a \in 0 .. len
    BY <1>5
  <2>4. ~s.refused => z <= n * B /\ (n > 0 => (n - 1) * B < z)
    <3> HAVE ~s.refused
    <3>1. Even(s, f)
      BY DEF Good
    <3> QED BY <2>a, <2>b, <2>d, <3>1, BlocksAre DEF Even
  <2>5. CASE end <= z
    <3>1. r.s = x /\ r.alen = a
      BY <1>1, <2>1, <2>3, <2>5
    <3>2. ~s.refused => n = k
      <4> SUFFICES ASSUME ~s.refused, n < k PROVE FALSE
        BY <2>2
      <4>1. n * B <= (k - 1) * B
        OBVIOUS
      <4> QED BY <2>2, <2>4, <2>5, <4>1
    <3>3. ~s.refused => \A g \in Files : x.din[g] = s.din[g] /\ x.dirty[g] = s.dirty[g]
      BY <2>1, <2>2, <3>2
    <3>4. ~s.refused => \A g \in Files : Even(x, g) /\ Marked(x, g)
      BY <2>1, <3>3 DEF Good, Even, Marked
    <3>5. \A g \in Files : x.din[g].size <= MaxLen
      BY <2>1, <2>d DEF Good
    <3>6. Good(x)
      BY <2>1, <3>4, <3>5 DEF Good
    <3>7. z <= z
      OBVIOUS
    <3> QED BY <2>1, <2>3, <2>5, <2>d, <3>1, <3>6, <3>7 DEF Transfers
  <2>6. CASE ~(end <= z)
    <3>1. PICK y : y = LongerFile(x, f, end)
      OBVIOUS
    <3>2. r.s = y /\ r.alen = a
      BY <1>1, <2>1, <2>3, <2>6, <3>1
    <3>3. Resized(x, f, end, y)
      BY <2>1, <3>1, ResizeDoes DEF LongerFile
    <3>4. /\ y \in State /\ Sound(y) /\ ~y.panic /\ y.refused = s.refused /\ y.disk = s.disk
          /\ y.din[f].size = end /\ y.din[f].blocks = k /\ y.dirty[f]
      BY <2>1, <2>c, <3>3 DEF Resized
    <3>5. \A g \in Files : g # f => y.din[g] = s.din[g] /\ y.dirty[g] = s.dirty[g]
      <4>1. \A g \in Files : g # f => y.din[g] = x.din[g] /\ y.dirty[g] = x.dirty[g]
        BY <3>3 DEF Resized
      <4> QED BY <2>1, <4>1
    <3>6. ~s.refused => BlocksFor(end) = k
      <4> SUFFICES ASSUME ~s.refused PROVE end <= k * B /\ (k > 0 => (k - 1) * B < end)
        BY <2>b, BlocksAre
      <4>1. n = k /\ n > 0 => (k - 1) * B < z
        BY <2>4
      <4>2. n = k /\ n > 0 => (k - 1) * B < end
        BY <2>6, <2>b, <4>1
      <4> QED BY <2>2, <4>2
    <3>7. ~y.refused => \A g \in Files : Even(y, g) /\ Marked(y, g)
      <4> SUFFICES ASSUME ~y.refused, NEW g \in Files PROVE Even(y, g) /\ Marked(y, g)
        OBVIOUS
      <4>1. Even(s, g) /\ Marked(s, g)
        BY <3>4 DEF Good
      <4>2. CASE g = f
        BY <3>4, <3>6, <4>2 DEF Even, Marked
      <4>3. CASE g # f
        BY <3>4, <3>5, <4>1, <4>3 DEF Even, Marked
      <4> QED BY <4>2, <4>3
    <3>8. \A g \in Files : y.din[g].size <= MaxLen
      BY <3>4, <3>5 DEF Good
    <3>9. Good(y)
      BY <3>4, <3>7, <3>8 DEF Good
    <3>10. z <= end /\ end <= end
      BY <2>6
    <3>11. \A g \in Files : g # f => y.din[g].size = s.din[g].size
      BY <3>5
    <3> QED BY <2>3, <2>d, <3>2, <3>4, <3>9, <3>10, <3>11 DEF Transfers
  <2> QED BY <2>5, <2>6
<1> QED BY <1>3, <1>4, <1>5, <1>a, <1>b DEF Ended

\* sfs_io_nolock() transfers a piece of at most a block.
LEMMA IoDoes ==
  ASSUME NEW s, Good(s), ~s.failed, ~s.panic, NEW f \in Files, NEW off \in 0 .. MaxLen,
         NEW len \in 1 .. BlkSize, off + len <= MaxLen, NEW write \in BOOLEAN,
         NEW r, r = Io(s, f, off, len, write)
  PROVE  Transfers(s, f, off, len, r)
<1>a. PICK z \in Nat : z = s.din[f].size
  BY DEF Good, State, Inode
<1>b. PICK end : end = IF write \/ off + len < z THEN off + len ELSE z
  OBVIOUS
<1>c. PICK base : base = [s |-> s, alen |-> 0]
  OBVIOUS
<1>d. PICK m : m = MovesOf(f, base, IF ~write /\ off >= z THEN << >> ELSE Pieces(off, end))
  OBVIOUS
<1>1. r = IF (~write /\ off >= z) \/ m.s.panic \/ off + m.alen <= m.s.din[f].size THEN m
          ELSE [m EXCEPT !.s.din[f].size = off + m.alen, !.s.dirty[f] = TRUE]
  <2> DEFINE e == IF write \/ off + len < s.din[f].size THEN off + len ELSE s.din[f].size
             v == MovesOf(f, [s |-> s, alen |-> 0],
                          IF ~write /\ off >= s.din[f].size THEN << >> ELSE Pieces(off, e))
  <2>1. r = IF (~write /\ off >= s.din[f].size) \/ v.s.panic \/ off + v.alen <= v.s.din[f].size
            THEN v ELSE [v EXCEPT !.s.din[f].size = off + v.alen, !.s.dirty[f] = TRUE]
    BY Zenon DEF Io, MovesOf, MoveOn
  <2>2. e = end
    BY <1>a, <1>b, Zenon
  <2> HIDE DEF e
  <2>3. v = m
    BY <1>a, <1>c, <1>d, <2>2, Zenon
  <2> HIDE DEF v
  <2> QED BY <1>a, <2>1, <2>3, Zenon
<1>2. off \in Nat /\ len \in Nat /\ len > 0 /\ len <= BlkSize
  BY SizesFit
<1>3. CASE ~write /\ off >= z
  <2>1. r = base
    BY <1>1, <1>3, <1>d, NoMoves
  <2>2. r.s = s /\ r.alen = 0
    BY <1>c, <2>1
  <2>3. 0 \in 0 .. len /\ z <= z /\ (off <= z => off + 0 <= z)
    BY <1>2
  <2> QED BY <1>a, <2>2, <2>3 DEF Transfers
<1>4. CASE ~(~write /\ off >= z)
  <2>1. m = MoveAll(s, f, off, end)
    BY <1>4, <1>c, <1>d DEF MoveAll
  <2>2. end \in Nat /\ off < end /\ end <= off + len /\ end <= off + BlkSize /\ end <= MaxLen
    BY <1>2, <1>4, <1>b, SizesFit
  <2>3. s \in State /\ Sound(s)
    BY DEF Good
  <2>4. Ended(s, f, off, end, m)
    BY <1>2, <2>1, <2>2, <2>3, MovesEnd
  <2>5. r = IF m.s.panic \/ off + m.alen <= m.s.din[f].size THEN m
            ELSE Grow(m, f, off + m.alen)
    BY <1>1, <1>4, Zenon DEF Grow
  <2> QED BY <1>2, <2>2, <2>4, <2>5, IoEnds
<1> QED BY <1>3, <1>4

-----------------------------------------------------------------------------
\* The state an operation leaves behind, without the error it has returned.
Cleared(s) == [s EXCEPT !.failed = FALSE]

\* Clearing the error changes nothing else.
LEMMA ClearedDoes ==
  ASSUME NEW s, Good(s), NEW r, r = Cleared(s)
  PROVE  Good(r) /\ ~r.failed /\ r.din = s.din /\ r.panic = s.panic /\ r.refused = s.refused
<1>1. s \in State
  BY DEF Good
<1>2. /\ r \in State
      /\ r.free = s.free /\ r.din = s.din /\ r.table = s.table /\ r.dirty = s.dirty
      /\ r.disk = s.disk /\ r.panic = s.panic /\ r.refused = s.refused
  BY <1>1 DEF Cleared, State
<1>3. r.failed = FALSE
  BY <1>1 DEF Cleared, State
<1>4. Sound(r)
  <2>1. Sound(s)
    BY DEF Good
  <2> QED BY <1>2, <2>1, SoundSame
<1>5. \A f \in Files : (Even(s, f) <=> Even(r, f)) /\ (Marked(s, f) <=> Marked(r, f))
  BY <1>2 DEF Even, Marked
<1>6. Good(r)
  BY <1>2, <1>4, <1>5 DEF Good
<1> QED BY <1>2, <1>3, <1>6

\* sfs_fsync() changes the inode on the disk and the mark only.
LEMMA SyncDoes ==
  ASSUME NEW s, Good(s), NEW f \in Files, NEW r, r = Sync(s, f)
  PROVE  Good(r) /\ r.din = s.din /\ r.panic = s.panic /\ r.refused = s.refused
<1>1. s \in State
  BY DEF Good
<1>2. CASE ~s.dirty[f]
  BY <1>2 DEF Sync
<1>3. CASE s.dirty[f]
  <2>a. PICK d : d = [s.disk EXCEPT ![f] = s.din[f]]
    OBVIOUS
  <2>b. PICK e : e = [s.dirty EXCEPT ![f] = FALSE]
    OBVIOUS
  <2>1. r = [s EXCEPT !.disk = d, !.dirty = e]
    BY <1>3, <2>a, <2>b DEF Sync
  <2>2. d \in [Files -> Inode] /\ e \in [Files -> BOOLEAN]
    BY <1>1, <2>a, <2>b DEF State
  <2>3. /\ r \in State
        /\ r.free = s.free /\ r.din = s.din /\ r.table = s.table /\ r.disk = d /\ r.dirty = e
        /\ r.panic = s.panic /\ r.refused = s.refused
    BY <1>1, <2>1, <2>2 DEF State
  <2>4. Sound(r)
    <3>1. Sound(s)
      BY DEF Good
    <3> QED BY <2>3, <3>1, SoundSame
  <2>5. ASSUME NEW g \in Files, Even(s, g), Marked(s, g) PROVE Even(r, g) /\ Marked(r, g)
    <3>1. Even(r, g)
      BY <2>3, <2>5 DEF Even
    <3>2. s.dirty \in [Files -> BOOLEAN] /\ s.disk \in [Files -> Inode]
      BY <1>1 DEF State
    <3>3. CASE g = f
      <4>1. d[g] = s.din[g]
        BY <2>a, <3>2, <3>3
      <4> QED BY <2>3, <3>1, <4>1 DEF Marked
    <3>4. CASE g # f
      <4>1. d[g] = s.disk[g] /\ e[g] = s.dirty[g]
        BY <2>a, <2>b, <3>2, <3>4
      <4> QED BY <2>3, <2>5, <3>1, <4>1 DEF Marked
    <3> QED BY <3>3, <3>4
  <2>6. Good(r)
    BY <2>3, <2>4, <2>5 DEF Good
  <2> QED BY <2>3, <2>6
<1> QED BY <1>2, <1>3

-----------------------------------------------------------------------------
OpenFile == [file : Files \cup {NONE}, pos : 0 .. MaxLen]

\* Holds in all reachable states, whoever opens files.
BlocksInv == Good(sfs) /\ ~sfs.failed /\ fds \in [Fds -> OpenFile]

\* A descriptor stands inside its file.
Within(d) == fds[d].file # NONE => fds[d].pos <= sfs.din[fds[d].file].size

\* No file is open twice.
OneOpener == \A d, e \in Fds : fds[d].file = fds[e].file /\ fds[d].file # NONE => d = e

\* Holds as long as no file is open twice.
WithinInv == ~sfs.refused => ~sfs.panic /\ \A d \in Fds : Within(d)

\* The sizes of all files but f are in r what they are now.
Others(f, r) == \A g \in Files : g # f => r.din[g].size = sfs.din[g].size

\* A step of d that leaves the file system in state r.
StepOf(d, r) ==
  /\ Good(r)
  /\ sfs' = Cleared(r)
  /\ fds' \in [Fds -> OpenFile]
  /\ \A e \in Fds : e # d => fds'[e] = fds[e]
  /\ sfs.refused => r.refused
  /\ ~r.refused => Others(fds'[d].file, r)
  /\ ~r.refused /\ WithinInv => ~r.panic /\ Within(d)'

\* Such a step keeps both invariants.
LEMMA StepKeeps ==
  ASSUME BlocksInv, NEW d \in Fds, NEW r, StepOf(d, r)
  PROVE  BlocksInv' /\ (OneOpener' /\ WithinInv => WithinInv')
<1>1. Good(sfs') /\ ~sfs'.failed /\ sfs'.panic = r.panic /\ sfs'.refused = r.refused
      /\ sfs'.din = r.din
  BY ClearedDoes DEF StepOf
<1>2. BlocksInv'
  BY <1>1 DEF BlocksInv, StepOf, Good, State, Sound, Exact, NoHoles, Names, At, Even, Marked
<1>3. ASSUME OneOpener', WithinInv, ~sfs'.refused PROVE ~sfs'.panic /\ \A e \in Fds : Within(e)'
  <2>1. ~r.refused /\ ~sfs.refused
    BY <1>1, <1>3 DEF StepOf
  <2>2. ASSUME NEW e \in Fds, e # d PROVE Within(e)'
    <3>1. fds'[e] = fds[e] /\ Within(e)
      BY <1>3, <2>1, <2>2 DEF StepOf, WithinInv
    <3>2. SUFFICES ASSUME fds[e].file # NONE PROVE Within(e)'
      BY <3>1 DEF Within
    <3>3. fds[e].file \in Files
      BY <3>2 DEF BlocksInv, OpenFile
    <3>4. fds[e].file # fds'[d].file
      BY <1>3, <2>2, <3>1, <3>2 DEF OneOpener
    <3>5. r.din[fds[e].file].size = sfs.din[fds[e].file].size
      BY <2>1, <3>3, <3>4 DEF StepOf, Others
    <3> QED BY <1>1, <3>1, <3>2, <3>5 DEF Within
  <2>3. ~r.panic /\ Within(d)'
    BY <1>3, <2>1 DEF StepOf
  <2> QED BY <1>1, <2>2, <2>3
<1> QED BY <1>2, <1>3 DEF WithinInv

\* The files start empty, on an empty disk.
LEMMA InitKeeps ==
  ASSUME Init
  PROVE  BlocksInv /\ WithinInv
<1> USE SizesFit
<1>a. PICK d : d = NewInode
  OBVIOUS
<1>0. d \in Inode /\ d.size = 0 /\ d.blocks = 0 /\ d.indirect = 0
      /\ \A i \in 0 .. NDirect - 1 : d.direct[i] = 0
  BY <1>a DEF NewInode, Inode
<1>1. /\ sfs.free = Block /\ sfs.din = [f \in Files |-> d] /\ sfs.dirty = [f \in Files |-> FALSE]
      /\ sfs.disk = [f \in Files |-> d] /\ sfs.failed = FALSE /\ sfs.panic = FALSE
      /\ sfs.refused = FALSE /\ sfs.table = [b \in Block |-> NoEntry]
      /\ sfs \in State
  <2>1. NoEntry \in [Entries -> 0 .. NBlocks]
    BY DEF NoEntry
  <2> QED BY <1>a, <1>0, <2>1 DEF Init, State
<1>2. \A o \in Places : Names(sfs)[o] = 0
  <2> TAKE o \in Places
  <2>1. o[1] \in Files /\ o[3] \in Int /\ o[3] >= 0
    BY DEF Places
  <2>2. sfs.din[o[1]] = d
    BY <1>1, <2>1
  <2>3. At(sfs, o) = 0
    BY <1>0, <2>1, <2>2 DEF At
  <2> QED BY <2>3 DEF Names
<1>3. Exact(Names(sfs), sfs.free)
  <2>1. \A b \in Block : b # 0
    BY DEF Block
  <2> QED BY <1>1, <1>2, <2>1 DEF Exact
<1>4. \A f \in Files : sfs.din[f] = d /\ sfs.disk[f] = d
  BY <1>1
<1>5. \A f \in Files : NoHoles(sfs, f)
  BY <1>0, <1>2, <1>4, PlaceHas DEF NoHoles
<1>6. BlocksFor(0) = 0
  BY BlocksAre
<1>7. \A f \in Files : Even(sfs, f) /\ Marked(sfs, f)
  BY <1>0, <1>4, <1>6 DEF Even, Marked
<1>8. Good(sfs)
  BY <1>0, <1>1, <1>3, <1>4, <1>5, <1>7 DEF Good, Sound
<1>9. fds \in [Fds -> OpenFile] /\ \A e \in Fds : fds[e].file = NONE
  BY DEF Init, OpenFile
<1> QED BY <1>1, <1>8, <1>9 DEF BlocksInv, WithinInv, Within

\* What the operations start from.
LEMMA FromInv ==
  ASSUME BlocksInv
  PROVE  /\ Good(sfs) /\ ~sfs.failed /\ fds \in [Fds -> OpenFile]
         /\ \A f \in Files : sfs.din[f].size \in 0 .. MaxLen
         /\ \A d \in Fds : fds[d].pos \in 0 .. MaxLen
         /\ \A d \in Fds : fds[d].file # NONE => fds[d].file \in Files
<1>1. \A f \in Files : sfs.din[f].size \in Nat /\ sfs.din[f].size <= MaxLen
  BY DEF BlocksInv, Good, State, Inode
<1> QED BY <1>1, SizesFit DEF BlocksInv, OpenFile

\* Descriptors of the right kind stay so.
LEMMA FdsStay ==
  ASSUME fds \in [Fds -> OpenFile], NEW d \in Fds, NEW f \in Files \cup {NONE},
         NEW n \in 0 .. MaxLen
  PROVE  /\ [fds EXCEPT ![d].file = f, ![d].pos = n] \in [Fds -> OpenFile]
         /\ [fds EXCEPT ![d].pos = n] \in [Fds -> OpenFile]
         /\ [fds EXCEPT ![d].file = f, ![d].pos = n][d] = [file |-> f, pos |-> n]
         /\ [fds EXCEPT ![d].pos = n][d] = [file |-> fds[d].file, pos |-> n]
         /\ \A e \in Fds : e # d =>
              /\ [fds EXCEPT ![d].file = f, ![d].pos = n][e] = fds[e]
              /\ [fds EXCEPT ![d].pos = n][e] = fds[e]
  BY DEF OpenFile

\* file_open().
LEMMA OpenKeeps ==
  ASSUME BlocksInv, ~sfs.panic, NEW d \in Fds, NEW f \in Files, NEW trunc \in BOOLEAN,
         NEW append \in BOOLEAN, Open(d, f, trunc, append)
  PROVE  \E r : StepOf(d, r)
<1>a. PICK r : r = IF trunc THEN Truncate(sfs, f, 0) ELSE sfs
  OBVIOUS
<1>b. PICK n : n = IF append THEN r.din[f].size ELSE 0
  OBVIOUS
<1>0. /\ Good(sfs) /\ ~sfs.failed /\ fds \in [Fds -> OpenFile] /\ fds[d].file = NONE
  BY FromInv DEF Open
<1>1. /\ sfs' = Cleared(r)
      /\ fds' = IF r.failed THEN fds ELSE [fds EXCEPT ![d].file = f, ![d].pos = n]
  BY <1>a, <1>b, Zenon DEF Open, Stored, Cleared
<1>2. Good(r) /\ (sfs.refused => r.refused) /\ (r.failed => r.refused)
      /\ (~r.refused => ~r.panic /\ Others(f, r))
  <2>1. CASE trunc
    <3>1. Truncates(sfs, f, 0, r)
      BY <1>0, <1>a, <2>1, TruncateDoes, SizesFit
    <3> QED BY <3>1 DEF Truncates, Others
  <2>2. CASE ~trunc
    BY <1>0, <1>a, <2>2 DEF Others
  <2> QED BY <2>1, <2>2
<1>3. r.din[f].size \in 0 .. MaxLen /\ n \in 0 .. MaxLen /\ n <= r.din[f].size
  <2>1. r.din[f].size \in 0 .. MaxLen
    BY <1>2, SizesFit DEF Good, State, Inode
  <2> QED BY <1>b, <2>1, SizesFit
<1>4. fds' \in [Fds -> OpenFile]
  BY <1>0, <1>1, <1>3, FdsStay
<1>5. sfs'.din = r.din
  BY <1>1, <1>2, ClearedDoes
<1>6. \A e \in Fds : e # d => fds'[e] = fds[e]
  BY <1>0, <1>1, <1>3, FdsStay, ZenonT(30)
<1>7. ~r.refused => ~r.panic /\ Within(d)' /\ fds'[d].file = f
  <2> HAVE ~r.refused
  <2>1. fds'[d] = [file |-> f, pos |-> n]
    <3>1. fds' = [fds EXCEPT ![d].file = f, ![d].pos = n]
      BY <1>1, <1>2
    <3>2. f \in Files \cup {NONE}
      OBVIOUS
    <3>3. [fds EXCEPT ![d].file = f, ![d].pos = n][d] = [file |-> f, pos |-> n]
      BY <1>0, <1>3, <3>2 DEF OpenFile
    <3> QED BY <3>1, <3>3
  <2> QED BY <1>2, <1>3, <1>5, <2>1 DEF Within
<1> QED BY <1>1, <1>2, <1>4, <1>7, <1>6 DEF StepOf, Others

\* file_close().
LEMMA CloseKeeps ==
  ASSUME BlocksInv, ~sfs.panic, NEW d \in Fds, Close(d)
  PROVE  \E r : StepOf(d, r)
<1>a. PICK f : f = fds[d].file
  OBVIOUS
<1>b. PICK r : r = IF \E e \in Fds \ {d} : fds[e].file = f THEN sfs ELSE Sync(sfs, f)
  OBVIOUS
<1>0. Good(sfs) /\ fds \in [Fds -> OpenFile] /\ f # NONE /\ f \in Files
  BY <1>a, FromInv DEF Close
<1>1. sfs' = Cleared(r) /\ fds' = [fds EXCEPT ![d] = [file |-> NONE, pos |-> 0]]
  BY <1>a, <1>b, Zenon DEF Close, Stored, Cleared
<1>2. Good(r) /\ r.din = sfs.din /\ r.panic = sfs.panic /\ r.refused = sfs.refused
  BY <1>0, <1>b, SyncDoes
<1>3. fds' \in [Fds -> OpenFile] /\ fds'[d].file = NONE
      /\ \A e \in Fds : e # d => fds'[e] = fds[e]
  BY <1>0, <1>1, SizesFit DEF OpenFile
<1>4. Within(d)'
  BY <1>3 DEF Within
<1>5. Others(fds'[d].file, r)
  BY <1>2 DEF Others
<1> QED BY <1>1, <1>2, <1>3, <1>4, <1>5 DEF StepOf

\* file_read() and file_write().
LEMMA TransferKeeps ==
  ASSUME BlocksInv, ~sfs.panic, NEW d \in Fds, NEW len \in 1 .. BlkSize, NEW write \in BOOLEAN,
         Transfer(d, len, write)
  PROVE  \E r : StepOf(d, r)
<1>a. PICK f : f = fds[d].file
  OBVIOUS
<1>b. PICK n : n = fds[d].pos
  OBVIOUS
<1>c. PICK m : m = Io(sfs, f, n, len, write)
  OBVIOUS
<1>d. PICK r : r = m.s
  OBVIOUS
<1>0. /\ Good(sfs) /\ ~sfs.failed /\ fds \in [Fds -> OpenFile] /\ f # NONE /\ f \in Files
      /\ n \in 0 .. MaxLen /\ n + len <= MaxLen
  BY <1>a, <1>b, FromInv DEF Transfer
<1>1. sfs' = Cleared(r) /\ fds' = [fds EXCEPT ![d].pos = @ + m.alen]
  BY <1>a, <1>b, <1>c, <1>d, Zenon DEF Transfer, Stored, Cleared
<1>2. Transfers(sfs, f, n, len, m)
  BY <1>0, <1>c, IoDoes
<1>3. Good(r) /\ (sfs.refused => r.refused) /\ m.alen \in 0 .. len
      /\ (~r.refused /\ n <= sfs.din[f].size => ~r.panic /\ n + m.alen <= r.din[f].size)
      /\ Others(f, r)
  BY <1>2, <1>d DEF Transfers, Others
<1>4. PICK k : k = n + m.alen
  OBVIOUS
<1>5. k \in 0 .. MaxLen
  BY <1>0, <1>3, <1>4, SizesFit
<1>6. fds' = [fds EXCEPT ![d].pos = k]
  BY <1>1, <1>4, <1>b
<1>7. fds' \in [Fds -> OpenFile] /\ fds'[d] = [file |-> f, pos |-> k]
      /\ \A e \in Fds : e # d => fds'[e] = fds[e]
  <2>1. NONE \in Files \cup {NONE}
    OBVIOUS
  <2> QED BY <1>0, <1>5, <1>6, <1>a, <2>1, FdsStay
<1>8. sfs'.din = r.din
  BY <1>1, <1>3, ClearedDoes
<1>9. ~r.refused /\ WithinInv => ~r.panic /\ Within(d)'
  <2> SUFFICES ASSUME ~r.refused, WithinInv PROVE ~r.panic /\ Within(d)'
    OBVIOUS
  <2>1. n <= sfs.din[f].size
    BY <1>0, <1>3, <1>a, <1>b DEF WithinInv, Within
  <2> QED BY <1>3, <1>4, <1>7, <1>8, <2>1 DEF Within
<1> QED BY <1>1, <1>3, <1>7, <1>9 DEF StepOf, Others

\* file_seek().
LEMMA SeekKeeps ==
  ASSUME BlocksInv, ~sfs.panic, NEW d \in Fds, NEW pos \in 0 .. MaxLen, Seek(d, pos)
  PROVE  \E r : StepOf(d, r)
<1>a. PICK f : f = fds[d].file
  OBVIOUS
<1>b. PICK r : r = IF pos > sfs.din[f].size THEN Truncate(sfs, f, pos) ELSE sfs
  OBVIOUS
<1>0. /\ Good(sfs) /\ ~sfs.failed /\ fds \in [Fds -> OpenFile] /\ f # NONE /\ f \in Files
      /\ sfs.din[f].size \in 0 .. MaxLen
  BY <1>a, FromInv DEF Seek
<1>1. sfs' = Cleared(r) /\ fds' = IF r.failed THEN fds ELSE [fds EXCEPT ![d].pos = pos]
  BY <1>a, <1>b, Zenon DEF Seek, Stored, Cleared
<1>2. Good(r) /\ (sfs.refused => r.refused) /\ (r.failed => r.refused)
      /\ (~r.refused => ~r.panic /\ Others(f, r) /\ pos <= r.din[f].size)
  <2>1. CASE pos > sfs.din[f].size
    <3>1. Truncates(sfs, f, pos, r)
      BY <1>0, <1>b, <2>1, TruncateDoes
    <3> QED BY <1>0, <3>1 DEF Truncates, Others
  <2>2. CASE ~(pos > sfs.din[f].size)
    BY <1>0, <1>b, <2>2 DEF Others
  <2> QED BY <2>1, <2>2
<1>3. fds' \in [Fds -> OpenFile] /\ \A e \in Fds : e # d => fds'[e] = fds[e]
  BY <1>0, <1>1, FdsStay
<1>4. sfs'.din = r.din
  BY <1>1, <1>2, ClearedDoes
<1>5. ~r.refused => ~r.panic /\ Within(d)' /\ fds'[d].file = f
  <2> HAVE ~r.refused
  <2>1. fds'[d] = [file |-> f, pos |-> pos]
    BY <1>0, <1>1, <1>2, <1>a, FdsStay
  <2> QED BY <1>2, <1>4, <2>1 DEF Within
<1> QED BY <1>1, <1>2, <1>3, <1>5 DEF StepOf, Others

\* file_fsync().
LEMMA FsyncKeeps ==
  ASSUME BlocksInv, ~sfs.panic, NEW d \in Fds, Fsync(d)
  PROVE  \E r : StepOf(d, r)
<1>a. PICK f : f = fds[d].file
  OBVIOUS
<1>b. PICK r : r = Sync(sfs, f)
  OBVIOUS
<1>0. Good(sfs) /\ fds \in [Fds -> OpenFile] /\ f \in Files
  BY <1>a, FromInv DEF Fsync
<1>1. sfs' = Cleared(r) /\ fds' = fds
  BY <1>a, <1>b, Zenon DEF Fsync, Stored, Cleared
<1>2. Good(r) /\ r.din = sfs.din /\ r.panic = sfs.panic /\ r.refused = sfs.refused
  BY <1>0, <1>b, SyncDoes
<1>3. sfs'.din = sfs.din
  BY <1>1, <1>2, ClearedDoes
<1>4. WithinInv /\ ~r.refused => Within(d)'
  BY <1>1, <1>2, <1>3 DEF WithinInv, Within
<1>5. WithinInv /\ ~r.refused => ~r.panic
  BY <1>2 DEF WithinInv
<1>6. Others(fds'[d].file, r)
  BY <1>2 DEF Others
<1> QED BY <1>0, <1>1, <1>2, <1>4, <1>5, <1>6 DEF StepOf

\* Every step keeps both invariants.
LEMMA NextKeeps ==
  ASSUME BlocksInv, [Next]_vars
  PROVE  BlocksInv' /\ (OneOpener' /\ WithinInv => WithinInv')
<1>1. CASE UNCHANGED vars
  <2>1. sfs' = sfs /\ fds' = fds
    BY <1>1 DEF vars
  <2>2. BlocksInv'
    BY <2>1 DEF BlocksInv
  <2>3. WithinInv => WithinInv'
    BY <2>1 DEF WithinInv, Within
  <2> QED BY <2>2, <2>3
<1>2. CASE Halted
  BY <1>1, <1>2 DEF Halted
<1>3. ASSUME ~sfs.panic, NEW d \in Fds, Step(d)
      PROVE  BlocksInv' /\ (OneOpener' /\ WithinInv => WithinInv')
  <2>1. \E r : StepOf(d, r)
    BY <1>3, OpenKeeps, TransferKeeps, SeekKeeps, FsyncKeeps, CloseKeeps, Zenon DEF Step
  <2> QED BY <2>1, StepKeeps
<1> QED BY <1>1, <1>2, <1>3 DEF Next

\* Block map and free map are sound and an inode that has changed is marked, in every
\* state the file operations can reach.
THEOREM BlocksHold == Spec => []BlocksInv
<1>1. Init => BlocksInv
  BY InitKeeps
<1>2. BlocksInv /\ [Next]_vars => BlocksInv'
  BY NextKeeps
<1> QED BY <1>1, <1>2, PTL DEF Spec

\* As long as no file is open twice, a descriptor stands inside its file and no
\* assertion fails, until the disk runs full.
THEOREM WithinHolds == Spec /\ []OneOpener => []WithinInv
<1>1. Init => WithinInv
  BY InitKeeps
<1>2. BlocksInv /\ WithinInv /\ OneOpener' /\ [Next]_vars => WithinInv'
  BY NextKeeps
<1> QED BY <1>1, <1>2, BlocksHold, PTL DEF Spec

\* sfs_inode.c:413: no index beyond the blocks of a file is ever asked for, and no
\* other assertion fails, as long as no file is open twice (the run sfs_shared shows
\* what two openers can do), until the disk runs full.
THEOREM NothingPanics == Spec /\ []OneOpener => []NeverPanics
<1>1. WithinInv => NeverPanics
  BY DEF WithinInv, NeverPanics
<1> QED BY <1>1, WithinHolds, PTL

\* sfs_inode.c:416: every change of an inode marks it, until the disk runs full.
THEOREM ChangesAreMarked == Spec => []DirtyIfChanged
<1>1. BlocksInv => DirtyIfChanged
  BY DEF BlocksInv, Good, Marked, DirtyIfChanged
<1> QED BY <1>1, BlocksHold, PTL

\* sfs_inode.c:543: a file has no holes, whatever has failed.
THEOREM MapStaysExact == Spec => []MapExact
<1>1. ASSUME BlocksInv PROVE MapExact
  <2>1. sfs \in State /\ Sound(sfs)
    BY <1>1 DEF BlocksInv, Good
  <2>2. \A f \in Files, i \in 0 .. NPlaces - 1 :
           Mapped(sfs, f, i) # 0 <=> i < sfs.din[f].blocks
    BY <2>1, NamesWhat DEF Sound, NoHoles
  <2>3. ~sfs.refused => \A f \in Files : sfs.din[f].blocks = BlocksFor(sfs.din[f].size)
    BY <1>1 DEF BlocksInv, Good, Even
  <2>4. 0 .. NDirect + NEntries - 1 = 0 .. NPlaces - 1
    BY SizesFit
  <2>5. \A f \in Files, i \in 0 .. NDirect + NEntries - 1 :
           Mapped(sfs, f, i) # 0 <=> i < sfs.din[f].blocks
    BY <2>2, <2>4, Zenon
  <2> QED BY <2>3, <2>5 DEF MapExact
<1> QED BY <1>1, BlocksHold, PTL

\* sfs_inode.c: a block that is not free belongs to one file, in one place, whatever
\* has failed half-way.
THEOREM FreemapStaysExact == Spec => []FreemapExact
<1>1. ASSUME BlocksInv PROVE FreemapExact
  <2>1. sfs \in State /\ Sound(sfs)
    BY <1>1 DEF BlocksInv, Good
  <2>2. ASSUME NEW b \in Block
        PROVE  Owners(b) = {o \in Places : Names(sfs)[o] = b}
    <3>1. b # 0
      BY SizesFit DEF Block
    <3>2. ASSUME NEW o \in Places
          PROVE  (CASE o[2] = "direct"   -> o[3] < NDirect /\ sfs.din[o[1]].direct[o[3]] = b
                    [] o[2] = "indirect" -> o[3] = 0 /\ sfs.din[o[1]].indirect = b
                    [] o[2] = "entry"    ->
                         /\ o[3] \in Entries /\ sfs.din[o[1]].indirect # 0
                         /\ sfs.table[sfs.din[o[1]].indirect][o[3]] = b)
                 <=> Names(sfs)[o] = b
      <4>1. o[2] \in {"direct", "indirect", "entry"}
        BY DEF Places
      <4>2. Names(sfs)[o] = At(sfs, o)
        BY DEF Names
      <4>3. CASE o[2] = "direct"
        BY <3>1, <4>2, <4>3 DEF At
      <4>4. CASE o[2] = "indirect"
        BY <3>1, <4>2, <4>4 DEF At
      <4>5. CASE o[2] = "entry"
        BY <3>1, <4>2, <4>5 DEF At
      <4> QED BY <4>1, <4>3, <4>4, <4>5
    <3>3. Owners(b) = {o \in Places :
             (CASE o[2] = "direct"   -> o[3] < NDirect /\ sfs.din[o[1]].direct[o[3]] = b
                [] o[2] = "indirect" -> o[3] = 0 /\ sfs.din[o[1]].indirect = b
                [] o[2] = "entry"    ->
                     /\ o[3] \in Entries /\ sfs.din[o[1]].indirect # 0
                     /\ sfs.table[sfs.din[o[1]].indirect][o[3]] = b)}
      BY Zenon DEF Owners, Places, NPlaces
    <3> QED BY <3>2, <3>3
  <2>3. ASSUME NEW b \in Block
        PROVE  Cardinality(Owners(b)) = (IF b \in sfs.free THEN 0 ELSE 1)
    <3>0. b # 0 /\ Exact(Names(sfs), sfs.free)
      BY <2>1, SizesFit DEF Block, Sound
    <3>1. CASE b \in sfs.free
      <4>1. Owners(b) = {}
        BY <2>2, <3>0, <3>1 DEF Exact
      <4> QED BY <3>1, <4>1, FS_EmptySet
    <3>2. CASE b \notin sfs.free
      <4>1. PICK o \in Places : Names(sfs)[o] = b
        BY <3>0, <3>2 DEF Exact
      <4>2. Owners(b) = {o}
        BY <2>2, <3>0, <4>1 DEF Exact
      <4>3. Cardinality({o}) = 1
        BY FS_Singleton
      <4> QED BY <3>2, <4>2, <4>3
    <3> QED BY <3>1, <3>2
  <2> QED BY <2>3 DEF FreemapExact
<1> QED BY <1>1, BlocksHold, PTL

\* What holds of the blocks alone holds when inodes move in memory as well.
THEOREM BlocksAlone == FsSpec => Spec
<1>1. FsInit => Init
  BY DEF FsInit
<1>2. [FsNext]_fsVars => [Next]_vars
  BY DEF FsNext, fsVars
<1> QED BY <1>1, <1>2, PTL DEF FsSpec, Spec
=============================================================================
