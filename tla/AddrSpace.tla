----------------------------- MODULE AddrSpace -----------------------------
(***************************************************************************)
(* Address spaces of user processes: page tables and the counts of page    *)
(* frames (lab8/kern/mm/pmm.c), areas and page faults (vmm.c), fork, exec  *)
(* and exit as far as they are about memory (process/proc.c).  A system    *)
(* call never blocks in here and is one action.                            *)
(*                                                                         *)
(* A directory, a table of the middle level and a table of the last level  *)
(* are page frames with Span entries each.  An entry is a frame and        *)
(* whether user code may write there; no frame is 0, PTE_V clear.          *)
(***************************************************************************)
EXTENDS Vma

CONSTANTS
  Procs,      \* user processes
  F,          \* the page frames
  Span,       \* entries of a table
  Programs,   \* program files, as sequences of segments
  StackPages, \* pages of the stack area
  StackThere, \* how many of them, from the top, load_icode() adds at once
  MaxLost,    \* how many frames may be lost before the model stops (bound of the model)
  Values      \* what a page may hold, as far as programs notice; FileData is what files hold

FileData == 0

Segments == [start : 0 .. NV - 1, end : 1 .. NV, filend : 0 .. NV, flags : SUBSET Flags]

SpaceConstantsOK ==
  /\ Span \in Nat \ {0, 1} /\ NV = Span * Span * Span
  /\ F \in Nat \ {0} /\ StackPages \in 1 .. NV /\ StackThere \in 1 .. StackPages
  /\ \A prog \in Programs : prog \in Seq(Segments)
  /\ FileData \in Values

Frames == 1 .. F + 1   \* F + 1 stands for the frame that is not there
Entry  == [frame : 0 .. F + 1, write : BOOLEAN]
Clear  == [frame |-> 0, write |-> FALSE]
EmptyTable == [i \in 0 .. Span - 1 |-> Clear]

VARIABLES
  frames,   \* [used, ref, tab, val]: allocated frames, page->ref, entries, contents;
            \* data, for the invariant: those that page_insert() has put under an entry;
            \* out, in an operation: it has asked for a frame when there was none
  mms,      \* [root, areas]: mm_struct of each process; root 0: none
  halted    \* the kernel has panicked

spaceVars == <<frames, mms, halted>>

NoMm == [root |-> 0, areas |-> <<>>]

SpaceTypeOK ==
  /\ frames.used \subseteq 1 .. F
  /\ frames.ref \in [Frames -> Nat]
  /\ frames.tab \in [Frames -> [0 .. Span - 1 -> Entry]]
  /\ frames.val \in [Frames -> Values]
  /\ frames.data \subseteq frames.used /\ ~ frames.out
  /\ \A p \in Procs : mms[p].root \in 0 .. F /\ mms[p].areas \in Seq(Areas)
  /\ halted \in BOOLEAN

SpaceInit ==
  /\ frames = [used |-> {},
               ref  |-> [f \in Frames |-> 0],
               tab  |-> [f \in Frames |-> EmptyTable],
               val  |-> [f \in Frames |-> FileData],
               data |-> {}, out |-> FALSE]
  /\ mms = [p \in Procs |-> NoMm]
  /\ halted = FALSE

-----------------------------------------------------------------------------
\* alloc_page() gives the lowest free frame (module FirstFit), and page->ref is
\* 0 then.  The tables take care to clear theirs; what a data page holds is
\* up to the action.  Without one the kernel panics (Settle).
Lowest(m) == CHOOSE f \in Frames : f \notin m.used \ {F + 1} /\ 1 .. f - 1 \subseteq m.used

Taken(m, ref) ==
  [m EXCEPT !.used = @ \cup {Lowest(m)}, !.ref[Lowest(m)] = ref, !.out = @ \/ Lowest(m) = F + 1]

\* free_page(); what a free frame holds matters to nobody.
Freed(m, f) ==
  [m EXCEPT !.used = @ \ {f}, !.ref[f] = 0, !.tab[f] = EmptyTable, !.val[f] = FileData,
            !.data = @ \ {f}]

\* PDX1, PDX0 and PTX of the page a.
Pdx1(a) == a \div (Span * Span)
Pdx0(a) == (a \div Span) % Span
Ptx(a)  == a % Span

\* The table that the entry i of the table f leads to, which get_pte(create) adds.
WithTable(m, f, i) ==
  IF m.tab[f][i].frame # 0 THEN m
  ELSE [Taken(m, 1) EXCEPT !.tab[f][i].frame = Lowest(m)]

WithTables(m, root, a) ==
  LET Below(m1) == WithTable(m1, m1.tab[root][Pdx1(a)].frame, Pdx0(a))
  IN  Below(WithTable(m, root, Pdx1(a)))

\* get_pte() without create: the last table for a, 0 if it is not there.
Table(m, root, a) ==
  LET middle == m.tab[root][Pdx1(a)].frame
  IN  IF middle = 0 THEN 0 ELSE m.tab[middle][Pdx0(a)].frame

Pte(m, root, a) ==
  LET t == Table(m, root, a) IN IF t = 0 THEN Clear ELSE m.tab[t][Ptx(a)]

\* Fault: an entry is cleared without giving up the page behind it.
RemovedPteKept(m, t, i) == [m EXCEPT !.tab[t][i] = Clear]

\* page_remove_pte(): the entry i of the table t.
RemovedPte(m, t, i) ==
  LET f   == m.tab[t][i].frame
      Dec == [m EXCEPT !.ref[f] = @ - 1]
      Rid(m1) == IF m1.ref[f] = 0 THEN Freed(m1, f) ELSE m1
  IN  IF f = 0 THEN m ELSE [Rid(Dec) EXCEPT !.tab[t][i] = Clear]

\* page_insert(): the frame f becomes the page a, in place of what was there.
PageInserted(m, root, a, f, write) ==
  LET Entered(m1, t) ==
        LET old == m1.tab[t][Ptx(a)].frame
            Counted == [m1 EXCEPT !.ref[f] = @ + 1, !.data = @ \cup {f}]
            Cleared == IF old = f THEN [Counted EXCEPT !.ref[f] = @ - 1]
                       ELSE RemovedPte(Counted, t, Ptx(a))
        IN  [Cleared EXCEPT !.tab[t][Ptx(a)] = [frame |-> f, write |-> write]]
      In(m1) == Entered(m1, Table(m1, root, a))
  IN  In(WithTables(m, root, a))

\* pgdir_alloc_page(), for a page that then holds v.
PageAlloced(m, root, a, write, v) ==
  PageInserted([Taken(m, 0) EXCEPT !.val[Lowest(m)] = v], root, a, Lowest(m), write)

\* The pages of lo .. hi - 1 whose entries unmap_range() and copy_range() look at:
\* where there is no table they go on at the next multiple of PTSIZE.
Visited(m, root, lo, hi) ==
  LET from[a \in lo .. hi + Span] ==
        IF a >= hi THEN {}
        ELSE IF Table(m, root, a) = 0 THEN from[((a + Span) \div Span) * Span]
        ELSE {a} \cup from[a + 1]
  IN  from[lo]

\* unmap_range(): at[a] is what there is when the loop has come to a.
UnmappedRange(m, root, lo, hi) ==
  LET there == Visited(m, root, lo, hi)
      Step(m1, a) == IF a \in there THEN RemovedPte(m1, Table(m1, root, a), Ptx(a)) ELSE m1
      at[a \in 0 .. NV] == IF a <= lo THEN m ELSE Step(at[a - 1], a - 1)
  IN  at[hi]

\* exit_range(): the tables of the middle level, but not those they lead to.
ExitedRange(m, root, lo, hi) ==
  LET Step(m1, i) ==
        IF m1.tab[root][i].frame = 0 THEN m1
        ELSE [Freed(m1, m1.tab[root][i].frame) EXCEPT !.tab[root][i] = Clear]
      at[i \in 0 .. Span] == IF i <= Pdx1(lo) THEN m ELSE Step(at[i - 1], i - 1)
  IN  at[Pdx1(hi - 1) + 1]

\* exit_mmap(), area after area: the pages first, and then the tables.
Unmapped(m, mm) ==
  LET Step(m1, area) == UnmappedRange(m1, mm.root, area.start, area.end)
      at[k \in 0 .. Len(mm.areas)] == IF k = 0 THEN m ELSE Step(at[k - 1], mm.areas[k])
  IN  at[Len(mm.areas)]

Left(m, mm) ==
  LET Step(m1, area) == ExitedRange(m1, mm.root, area.start, area.end)
      at[k \in 0 .. Len(mm.areas)] == IF k = 0 THEN m ELSE Step(at[k - 1], mm.areas[k])
  IN  at[Len(mm.areas)]

\* exit_mmap(), put_pgdir() and mm_destroy().
Destroyed(m, mm) == Freed(Left(Unmapped(m, mm), mm), mm.root)

\* Fault: fork() maps the parent's page in the child.
CopiedPageShared(m, to, from, a) ==
  LET pte == Pte(m, from, a)
  IN  IF pte.frame = 0 THEN m ELSE PageInserted(m, to, a, pte.frame, pte.write)

\* The step of copy_range() for the page a.
CopiedPage(m, to, from, a) ==
  LET pte == Pte(m, from, a)
      Copy(m1) == PageInserted([Taken(m1, 0) EXCEPT !.val[Lowest(m1)] = m.val[pte.frame]],
                               to, a, Lowest(m1), pte.write)
  IN  IF pte.frame = 0 THEN m ELSE Copy(WithTables(m, to, a))

CopiedRange(m, to, from, lo, hi) ==
  LET there == Visited(m, from, lo, hi)
      Step(m1, a) == IF a \in there THEN CopiedPage(m1, to, from, a) ELSE m1
      at[a \in 0 .. NV] == IF a <= lo THEN m ELSE Step(at[a - 1], a - 1)
  IN  at[hi]

-----------------------------------------------------------------------------
\* What an operation leaves, unless it ran out of frames: alloc_pages() then
\* looks for a victim in check_mm_struct, which is NULL, and the kernel panics.
Settle(m, mms1) ==
  \/ /\ ~ m.out
     /\ frames' = m /\ mms' = mms1
     /\ UNCHANGED halted
  \/ /\ m.out
     /\ halted' = TRUE
     /\ UNCHANGED <<frames, mms>>

Panic == halted' = TRUE /\ UNCHANGED <<frames, mms>>

\* The reads that load_icode() needs for a program.
ReadsOf(prog) ==
  1 + Len(prog) + SumFunction([k \in DOMAIN prog |-> prog[k].filend - prog[k].start])

\* load_icode() is at work: its frames, the new mm, how many more reads of the
\* file succeed, and how it goes.
Loading(m, reads) ==
  [m |-> Taken(m, 0), mm |-> [NoMm EXCEPT !.root = Lowest(m)], reads |-> reads, goes |-> "on"]

\* load_icode_read()
HasRead(s) ==
  IF s.goes # "on" THEN s
  ELSE IF s.reads = 0 THEN [s EXCEPT !.goes = "failed"] ELSE [s EXCEPT !.reads = @ - 1]

HasMapped(s, area) ==
  LET result == MmMap(s.mm.areas, NoArea, area)
  IN  IF s.goes # "on" THEN s
      ELSE IF result = "mapped" THEN [s EXCEPT !.mm.areas = InsertVma(@, area)]
      ELSE [s EXCEPT !.goes = IF result = "inval" THEN "failed" ELSE "panic"]

HasPage(s, a, write, v) ==
  IF s.goes # "on" THEN s
  ELSE [s EXCEPT !.m = PageAlloced(@, s.mm.root, a, write, v)]

\* One segment: its header, its area, its pages; those with data are read.
HasSegment(s, seg) ==
  LET write == "VM_WRITE" \in seg.flags
      Step(s1, a) == IF a < seg.filend THEN HasRead(HasPage(s1, a, write, FileData))
                     ELSE HasPage(s1, a, write, FileData)
      area == [start |-> seg.start, end |-> seg.end, flags |-> seg.flags]
      at[a \in 0 .. NV] == IF a <= seg.start THEN HasMapped(HasRead(s), area)
                           ELSE Step(at[a - 1], a - 1)
  IN  at[seg.end]

StackArea ==
  [start |-> NV - StackPages, end |-> NV, flags |-> {"VM_READ", "VM_WRITE", "VM_STACK"}]

\* load_icode(): the segments of the file, and the pages of the stack; v[k] is what
\* happens to be in page k of it, from the top.
HasFile(s, prog) ==
  LET at[k \in 0 .. Len(prog)] == IF k = 0 THEN s ELSE HasSegment(at[k - 1], prog[k])
  IN  at[Len(prog)]

HasStack(s, v) ==
  LET at[k \in 0 .. StackThere] ==
        IF k = 0 THEN HasMapped(s, StackArea) ELSE HasPage(at[k - 1], NV - k, TRUE, v[k])
  IN  at[StackThere]

Loaded(m, prog, reads, v) == HasStack(HasFile(HasRead(Loading(m, reads)), prog), v)

WithoutMm(p) == IF mms[p].root = 0 THEN frames ELSE Destroyed(frames, mms[p])

\* bad_cleanup_mmap and the labels below it.
Cleaned(s) == Destroyed(s.m, s.mm)

\* do_execve() of a file that is there; the process exits when it does not load.
Exec(p) ==
  \E m \in {WithoutMm(p)}, prog \in Programs : \E reads \in 0 .. ReadsOf(prog) :
    \E v \in [1 .. StackThere -> IF reads = ReadsOf(prog) THEN Values ELSE {FileData}] :
      \E s \in {Loaded(m, prog, reads, v)} :
        \/ s.goes = "on" /\ ~ s.m.out /\ Settle(s.m, [mms EXCEPT ![p] = s.mm])
        \/ s.goes = "failed" /\ ~ s.m.out /\ Settle(Cleaned(s), [mms EXCEPT ![p] = NoMm])
        \/ (s.goes = "panic" \/ s.m.out) /\ Panic

\* dup_mmap(), which goes through the areas from the last to the first.
Duplicated(m, root, mm) ==
  LET Step(s, area) == [m     |-> CopiedRange(s.m, root, mm.root, area.start, area.end),
                        areas |-> InsertVma(s.areas, area)]
      at[k \in 0 .. Len(mm.areas)] ==
        IF k = 0 THEN [m |-> m, areas |-> <<>>]
        ELSE Step(at[k - 1], mm.areas[Len(mm.areas) + 1 - k])
  IN  at[Len(mm.areas)]

\* copy_mm().  A system call never asks for CLONE_VM.
Fork(p, q) ==
  /\ mms[p].root # 0 /\ mms[q].root = 0
  /\ \E root \in {Lowest(frames)} : \E s \in {Duplicated(Taken(frames, 0), root, mms[p])} :
       Settle(s.m, [mms EXCEPT ![q] = [NoMm EXCEPT !.root = root, !.areas = s.areas]])

\* do_exit(), also of a process that touches what it has no area for.
Exit(p) == mms[p].root # 0 /\ Settle(WithoutMm(p), [mms EXCEPT ![p] = NoMm])

-----------------------------------------------------------------------------
PteOf(p, a) == Pte(frames, mms[p].root, a)

\* The process writes to a page, and the processor lets it.
Store(p, a, v) ==
  /\ mms[p].root # 0
  /\ PteOf(p, a).frame # 0 /\ PteOf(p, a).write
  /\ frames' = [frames EXCEPT !.val[PteOf(p, a).frame] = v]
  /\ UNCHANGED <<mms, halted>>

\* do_pgfault() for an access that the processor does not let through, in an area.
\* Any entry that is not zero is taken for a swap entry, also one that is valid
\* and does not allow the access: swap_offset() panics over it.
Fault(p, a, write, v) ==
  LET mm   == mms[p]
      i    == FindVma(mm.areas, NoArea, a)
      pte  == PteOf(p, a)
  IN  /\ mm.root # 0 /\ i # 0
      /\ pte.frame = 0 \/ (write /\ ~ pte.write)
      /\ \/ /\ pte.frame = 0
            /\ Settle(PageAlloced(WithTables(frames, mm.root, a), mm.root, a,
                                  "VM_WRITE" \in mm.areas[i].flags, v), mms)
         \/ pte.frame # 0 /\ Panic

\* The entries of live directories and of the tables they lead to, as pairs of a
\* table and a position; the frames they name.
Users == {p \in Procs : mms[p].root # 0}
Roots == {mms[p].root : p \in Users}
EntriesOf(tables) ==
  {e \in tables \X (0 .. Span - 1) : frames.tab[e[1]][e[2]].frame # 0}
Named(entries) == {frames.tab[e[1]][e[2]].frame : e \in entries}
Middles == Named(EntriesOf(Roots))
Leaves  == Named(EntriesOf(Middles))
Mapped  == Named(EntriesOf(Leaves))
Lost    == frames.used \ (Roots \cup Middles \cup Leaves \cup Mapped)

UserPages == 0 .. NV - 1

SpaceNext ==
  /\ ~ halted /\ Cardinality(Lost) <= MaxLost
  /\ \E p \in Procs :
       \/ Exec(p)
       \/ \E q \in Procs : Fork(p, q)
       \/ Exit(p)
       \/ \E a \in UserPages, v \in Values : Store(p, a, v)
       \/ \E a \in UserPages, write \in BOOLEAN, v \in Values : Fault(p, a, write, v)

SpaceSpec == SpaceInit /\ [][SpaceNext]_spaceVars

-----------------------------------------------------------------------------
\* Every frame that an address space is built of is allocated, is named by one
\* entry only and has a count of one; directories are not counted.  What is
\* allocated and belongs to nobody are tables of the last level that
\* exit_range() left, and they are empty (pmm.c, page_remove_pte and exit_range;
\* pgdir_alloc_page asserts page_ref(page) == 1).
FramesExact ==
  LET entries == EntriesOf(Roots) \cup EntriesOf(Middles) \cup EntriesOf(Leaves)
      owned   == Middles \cup Leaves \cup Mapped
  IN  /\ Roots \cup owned \subseteq frames.used
      /\ Cardinality(entries) = Cardinality(owned)
      /\ Cardinality(Roots) = Cardinality(Users) /\ Roots \cap owned = {}
      /\ \A f \in Roots : frames.ref[f] = 0
      /\ \A f \in owned \cup Lost : frames.ref[f] = 1
      /\ \A f \in Lost : frames.tab[f] = EmptyTable /\ f \notin frames.data

\* A page is mapped only inside an area, and for writing only where the area
\* allows it (vmm.c, do_pgfault; proc.c, load_icode); areas do not overlap.
MappedInAreas ==
  \A p \in Users :
    /\ AreasSorted(mms[p].areas, NoArea)
    /\ \A a \in UserPages :
         PteOf(p, a).frame # 0 =>
           \E area \in ToSet(mms[p].areas) :
             Covers(area, a) /\ PteOf(p, a).write = ("VM_WRITE" \in area.flags)

\* What a process sees in its pages, and what the files of programs hold.
Seen(p) ==
  IF mms[p].root = 0 THEN <<>>
  ELSE [a \in {b \in UserPages : PteOf(p, b).frame # 0} |-> frames.val[PteOf(p, a).frame]]

Image(prog) ==
  [a \in {b \in UserPages : \E k \in DOMAIN prog : prog[k].start <= b /\ b < prog[k].end}
     |-> FileData]

\* The address spaces keep the memory of each process apart, and it changes under
\* a process only by what the process itself stores (module UserMemory).
Memory == INSTANCE UserMemory WITH
  memory <- [p \in Procs |-> Seen(p)],
  Pages  <- UserPages,
  Images <- {Image(prog) : prog \in Programs}

OnlyStores ==
  \/ Memory!KernelKeeps
  \/ \E p \in Procs, a \in UserPages, v \in Values : Store(p, a, v)

ImplementsMemory == Memory!Spec /\ [][OnlyStores]_spaceVars
=============================================================================
