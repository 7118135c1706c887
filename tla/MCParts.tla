------------------------------ MODULE MCParts ------------------------------
(***************************************************************************)
(* Components of the kernel and its tools that share no state, for TLC:    *)
(* the pid allocator, the list of timers and the sibling links of          *)
(* processes; the page allocators, the kernel heaps, areas, address spaces *)
(* and swapping; the ELF loader; the image builder with the names in its   *)
(* images, and the loops of read and write.  One of them moves in a        *)
(* behaviour, and the others rest.                                         *)
(***************************************************************************)
EXTENDS PidAlloc

CONSTANTS
  FitPages,                \* the pages of FirstFit and BestFit
  KinProcs,                \* the processes of ProcLinks
  UserSize, PageBytes,     \* the pages of user memory in VmaList and SysFile, and their bytes
  MaxString,               \* the longest string of VmaList
  IoBuf, FileLen, Lengths, \* the buffer, the file and the calls of SysFile
  Sleepers, MaxSleep,      \* the processes of TimerList, and their longest sleep
  ElfPage, Long, IntBytes, \* the bytes of a page, a long and an int of ElfLoad,
  MaxVa, MaxSize,          \* the first addresses and the sizes of its segments,
  ArgLengths,              \* and the lengths of its arguments
  Virt, Phys, Values,      \* the pages and frames of Swap, and what a page may hold
  SpaceProcs, SpaceFrames, \* the processes and frames of AddrSpace,
  SpacePages, Span,        \* the pages of user memory and the entries of a table,
  Programs,                \* the program files,
  StackPages, StackThere,  \* the pages of the stack, and those that load_icode() adds,
  MaxLost                  \* and how many frames may be lost

VARIABLES
  part,                                                 \* the component that moves
  timerList, phase,                                     \* TimerList
  links, property, isHead, nrFree, holders,             \* FirstFit and BestFit
  total, record, linked, treeFree, treeHeld,            \* Buddy
  free, slobfree, small, big, slobPages, slobs, slobHalted,   \* Slob
  caches, chain, slabs, sized, slabHeld, slabHalted,    \* Slub
  areas, cache,                                         \* VmaList
  frames, mms, halted,                                  \* AddrSpace
  manager, pte, held, vaddr, pra, hand, visited, disk,  \* Swap
  seg, pages, start, la, offset, loading, stack,        \* ElfLoad
  parent, cptr, optr, yptr, zombies,                    \* ProcLinks
  fs, open, building,                                   \* Mksfs
  layout, file, pos, mem, call, given                   \* SysFile

timerVars == <<timerList, phase>>
pageVars  == <<links, property, isHead, nrFree, holders>>
treeVars  == <<total, record, linked, treeFree, treeHeld>>
slobVars  == <<free, slobfree, small, big, slobPages, slobs, slobHalted>>
slabVars  == <<caches, chain, slabs, sized, slabHeld, slabHalted>>
areaVars  == <<areas, cache>>
spaceVars == <<frames, mms, halted>>
swapVars  == <<manager, pte, held, vaddr, pra, hand, visited, disk>>
elfVars   == <<seg, pages, start, la, offset, loading, stack>>
kinVars   == <<parent, cptr, optr, yptr, zombies>>
imageVars == <<fs, open, building>>
ioVars    == <<layout, file, pos, mem, call, given>>

-----------------------------------------------------------------------------
R == {"VM_READ"}
W == {"VM_READ", "VM_WRITE"}
X == {"VM_READ", "VM_EXEC"}
S == {"VM_READ", "VM_WRITE", "VM_STACK"}

Area(first, end, flags) == [start |-> first, end |-> end, flags |-> flags]
Segment(first, end, filend, flags) ==
  [start |-> first, end |-> end, filend |-> filend, flags |-> flags]

\* The program files of AddrSpace.
SmallPrograms == {<<Segment(1, 2, 2, W), Segment(0, 1, 1, X)>>,
                  <<Segment(1, 3, 2, X), Segment(0, 2, 1, X)>>,
                  <<Segment(0, 2, 1, X), Segment(1, 3, 1, X)>>}

\* The areas of processes that call read() and write().
Layouts == {<<Area(0, UserSize, W)>>, <<Area(0, 1, R), Area(1, 3, W)>>,
            <<Area(0, 1, W), Area(1, 2, R)>>, <<Area(0, 2, S)>>}

TimerPart == INSTANCE TimerList
BestPart  == INSTANCE BestFit WITH N <- FitPages, AmpleMemory <- TRUE
TreePart  == INSTANCE Buddy WITH
  FullSize <- 8, Entries <- 8, Totals <- {9, 12}, nrFree <- treeFree, held <- treeHeld
SlobPart  == INSTANCE Slob WITH
  U <- 4, UnitSize <- 2, NPages <- 3, Sizes <- {1, 3, 5, 7, 17},
  pages <- slobPages, halted <- slobHalted
SlabPart  == INSTANCE Slub WITH
  NPages <- 4, PageBytes <- 56, DescBytes <- 20, SizedNum <- 1, OwnSize <- 26,
  Sizes <- {16}, held <- slabHeld, halted <- slabHalted
AreaPart  == INSTANCE VmaList WITH
  NV <- UserSize, Kinds <- {R, W, S}, PB <- PageBytes, MaxCopy <- MaxString
SpacePart == INSTANCE AddrSpace WITH
  NV <- SpacePages, F <- SpaceFrames, Procs <- SpaceProcs
SwapPart  == INSTANCE Swap
ElfPart   == INSTANCE ElfLoad WITH PB <- ElfPage, phase <- loading
KinPart   == INSTANCE ProcLinks WITH MaxProcs <- KinProcs
ImagePart == INSTANCE Mksfs WITH
  NB <- 21, BlkBits <- 8, ND <- 3, NE <- 2, MaxBlocks <- 8, PB <- 2, EntryBytes <- 2,
  FileSizes <- {0, 9, 15, 17}, FileNames <- {1, 2}, Reals <- {1, 2}, phase <- building
IoPart    == INSTANCE SysFile WITH
  NV <- UserSize, PB <- PageBytes, Layouts <- Layouts, areas <- layout, seen <- given

ASSUME MCPartsAssumption ==
  /\ TimerPart!ConstantsOK /\ BestPart!ConstantsOK /\ TreePart!ConstantsOK
  /\ SlobPart!ConstantsOK /\ SlabPart!ConstantsOK /\ AreaPart!ConstantsOK
  /\ SpacePart!SpaceConstantsOK /\ SwapPart!ConstantsOK /\ ElfPart!ConstantsOK
  /\ KinPart!ConstantsOK /\ ImagePart!ConstantsOK /\ IoPart!ConstantsOK

-----------------------------------------------------------------------------
Parts == {"pids", "timers", "first", "best", "tree", "slob", "slab", "areas", "spaces",
          "swap", "elf", "kin", "image", "io"}

\* A part that has several initial states, or none that another part needs, is left
\* without a state when it rests.
Rest == "rest"

PartsInit ==
  /\ part \in Parts
  /\ Init /\ TimerPart!Init /\ BestPart!Init /\ SlobPart!Init /\ AreaPart!Init
  /\ SpacePart!SpaceInit /\ KinPart!Init /\ SlabPart!Init /\ ImagePart!Init
  /\ SwapPart!Init /\ (part # "swap" => manager = "fifo")
  /\ IF part = "tree" THEN TreePart!Init
     ELSE /\ total = Rest /\ record = Rest /\ linked = Rest
          /\ treeFree = Rest /\ treeHeld = Rest
  /\ IF part = "elf" THEN ElfPart!Init
     ELSE /\ seg = Rest /\ pages = Rest /\ start = Rest /\ la = Rest
          /\ offset = Rest /\ loading = Rest /\ stack = Rest
  /\ IF part = "io" THEN IoPart!Init
     ELSE /\ layout = Rest /\ file = Rest /\ pos = Rest
          /\ mem = Rest /\ call = Rest /\ given = Rest

\* The variables of a part in each of these groups; the others keep theirs.
Processes == <<vars, timerVars, kinVars>>
Pages     == <<pageVars, treeVars>>
Heaps     == <<slobVars, slabVars>>
Memories  == <<areaVars, spaceVars, swapVars, elfVars>>
Files     == <<imageVars, ioVars>>

PartsNext ==
  /\ \/ part = "pids" /\ Next /\ UNCHANGED <<timerVars, kinVars, Pages, Heaps, Memories, Files>>
     \/ part = "timers" /\ TimerPart!Next
        /\ UNCHANGED <<vars, kinVars, Pages, Heaps, Memories, Files>>
     \/ part = "kin" /\ KinPart!Next
        /\ UNCHANGED <<vars, timerVars, Pages, Heaps, Memories, Files>>
     \/ part = "first" /\ BestPart!Next
        /\ UNCHANGED <<Processes, treeVars, Heaps, Memories, Files>>
     \/ part = "best" /\ BestPart!BestNext
        /\ UNCHANGED <<Processes, treeVars, Heaps, Memories, Files>>
     \/ part = "tree" /\ TreePart!Next
        /\ UNCHANGED <<Processes, pageVars, Heaps, Memories, Files>>
     \/ part = "slob" /\ SlobPart!Next
        /\ UNCHANGED <<Processes, Pages, slabVars, Memories, Files>>
     \/ part = "slab" /\ SlabPart!Next
        /\ UNCHANGED <<Processes, Pages, slobVars, Memories, Files>>
     \/ part = "areas" /\ AreaPart!Next
        /\ UNCHANGED <<Processes, Pages, Heaps, spaceVars, swapVars, elfVars, Files>>
     \/ part = "spaces" /\ SpacePart!SpaceNext
        /\ UNCHANGED <<Processes, Pages, Heaps, areaVars, swapVars, elfVars, Files>>
     \/ part = "swap" /\ SwapPart!Next
        /\ UNCHANGED <<Processes, Pages, Heaps, areaVars, spaceVars, elfVars, Files>>
     \/ part = "elf" /\ ElfPart!Next
        /\ UNCHANGED <<Processes, Pages, Heaps, areaVars, spaceVars, swapVars, Files>>
     \/ part = "image" /\ ImagePart!Next
        /\ UNCHANGED <<Processes, Pages, Heaps, Memories, ioVars>>
     \/ part = "io" /\ IoPart!Next
        /\ UNCHANGED <<Processes, Pages, Heaps, Memories, imageVars>>
  /\ UNCHANGED part

partsVars == <<part, Processes, Pages, Heaps, Memories, Files>>

PartsSpec ==
  /\ PartsInit /\ [][PartsNext]_partsVars
  /\ WF_partsVars(/\ part = "pids" /\ GetPid
                  /\ UNCHANGED <<part, timerVars, kinVars, Pages, Heaps, Memories, Files>>)

-----------------------------------------------------------------------------
\* sched.c: the deltas keep the promise of do_sleep() (module Timers).
ImplementsTimers == TimerPart!ImplementsTimers

\* proc.c: the sibling links hold the children of each process, youngest first
\* (module ProcLinks).
KinExact == part = "kin" => KinPart!KinExact

\* default_pmm.c and best_fit_pmm.c: the free list is the sorted list of free runs, and a
\* request gets the lowest run that fits, or the shortest (modules FirstFit and BestFit).
RunsExact ==
  /\ part \in {"first", "best"} => BestPart!ListExact
  /\ part = "first" => BestPart!AllocExact
  /\ part = "best" => BestPart!BestExact

\* buddy.c: the tree holds every page once, in halves that are joined (module Buddy).
BuddyExact == part = "tree" => TreePart!BuddyExact

\* kmalloc.c: the free list of the heap and the blocks in use fill its pages (module
\* Slob); slub.c: each object of a cache is in use or free, once (module Slub).
HeapsExact ==
  /\ part = "slob" => SlobPart!HeapExact
  /\ part = "slab" => SlabPart!SlabsExact

\* vmm.c: what the cached lookup finds is what the areas say (module VmaList).
LookupsExact == part = "areas" => AreaPart!LookupsExact

\* pmm.c: what tables name is allocated, counted and inside areas (module AddrSpace);
\* swap_*.c: the list has the frames in use (module Swap).
FramesExact ==
  /\ part = "spaces" => SpacePart!FramesExact /\ SpacePart!MappedInAreas
  /\ part = "swap" => SwapPart!ListExact

\* vmm.c, pmm.c, swap.c: processes have memory of their own, which reads what was
\* written, whatever is copied, freed or replaced (modules AddrSpace, Swap, UserMemory).
ImplementsMemory == SpacePart!ImplementsMemory /\ SwapPart!ImplementsMemory

\* proc.c, load_icode(): memory holds the file, zeros and arguments (module ElfLoad).
LoadExact == part = "elf" => ElfPart!LoadExact /\ ElfPart!ArgsApart

\* mksfs.c: the image is one that the kernel mounts and reads (module Mksfs).
ImageExact == part = "image" => ImagePart!ImageExact

\* sfs_inode.c: names lead to where the image put them (modules Names and Mksfs).
NamesExact == part = "image" => ImagePart!NamesExact

\* sysfile.c: read() and write() move what they count (module SysFile).
TransfersExact == part = "io" => IoPart!TransfersExact
=============================================================================
