# uCore, verified: TLA+ models and proofs

The repository holds the lab kernels of a RISC-V teaching operating system,
uCore. `lab8` is the final kernel and contains what the earlier labs build up
(physical memory, paging, swapping, processes, scheduling, synchronisation, a
file system); `lab1` to `lab5` are its earlier states. This project models the
kernel of `lab8`, and of the other labs the algorithms that `lab8` does not
have. Paths below are relative to `src/lab8/kern` unless they start with `lab`.

## 1 The system

### 1.1 How the kernel executes

One CPU, no kernel preemption. A trap from user mode (system call or timer
interrupt) runs the kernel with interrupts off until it returns or calls
`schedule()`; `trap()` calls `schedule()` on the way out only when it came from
user mode. `idleproc`, `initproc` and the kernel threads of `check_sync()` run
in kernel mode with interrupts on, so a timer interrupt can fall between any two
of their instructions outside `local_intr_save` sections, but it never switches
away from them. Hence the interleavings worth modelling:

* a kernel thread has put itself to sleep and the tick wakes it before it
  reaches `schedule()`;
* a process sleeps inside a system call while others run arbitrary system calls,
  among them `kill()` of the sleeper and `exit()` of its parent or children;
* what a function read before `schedule()` is used after it: wait queues, timers
  and buffers on kernel stacks, the child list of `do_wait()`, file table
  entries, reference counts.

### 1.2 Components

| Component | State | Operations | Talks to |
|---|---|---|---|
| processes (`process/proc.c`, `syscall/syscall.c`, `trap/trap.c`) | `state`, `wait_state`, `flags`, `parent` and sibling links, `need_resched`, `nr_process`, `proc_list`, hash list | fork, exit, wait, kill, yield, sleep, exec, trap exit | scheduler, all others through exit and fork |
| pid allocation (`proc.c: get_pid`) | `last_pid`, `next_safe` | get_pid | `proc_list` |
| scheduler core (`schedule/sched.c`) | run queue, `timer_list` | wakeup_proc, schedule, add_timer, del_timer, run_timer_list | stride class, processes |
| stride class (`schedule/default_sched_stride.c`, `libs/skew_heap.h`) | skew heap, `lab6_stride`, `lab6_priority`, `time_slice` | enqueue, dequeue, pick_next, proc_tick | scheduler core |
| semaphores and wait queues (`sync/sem.c`, `sync/wait.c`) | `value`, `wait_queue` | up, down, try_down, wakeup_* | scheduler core |
| monitor (`sync/monitor.c`) | `mutex`, `next`, `next_count`, `cv[].count` | cond_signal, cond_wait | semaphores |
| philosophers (`sync/check_sync.c`) | `state_sema`, `state_condvar` | take and put forks, two versions | semaphores, monitor, do_sleep |
| keyboard device (`fs/devs/dev_stdin.c`) | ring buffer, wait queue | dev_stdin_read, dev_stdin_write (interrupt) | scheduler core |
| physical pages (`mm/default_pmm.c`, `mm/pmm.c`; `lab2`: best fit, buddy) | free list, `nr_free`, page flags | init_memmap, alloc_pages, free_pages | kmalloc, page tables, swap |
| kernel heap (`mm/kmalloc.c`; `lab2`: slub) | SLOB list, `bigblocks`; caches with their slabs | kmalloc, kfree, kmem_cache_* | physical pages |
| address spaces (`mm/vmm.c`, `mm/pmm.c`) | vma list, `mmap_cache`, page table, page `ref` | mm_map, find_vma, dup_mmap, exit_mmap, do_pgfault, page_insert/remove | physical pages, swap |
| swapping (`mm/swap.c`, `swap_fifo.c`; `lab3`: clock, LRU) | `pra_list_head`, swap entries in ptes | swap_in, swap_out, map_swappable, victim | page tables, disk |
| file table (`fs/file.c`, `fs/fs.c`, `fs/sysfile.c`) | `fd_array`, `open_count`, status | open, close, dup, read, write, seek, dup_files | VFS |
| VFS (`fs/vfs/*`) | inode `ref_count`, `open_count`, device list, `bootfs_node`, `pwd` | lookup, open, close, chdir, mount | SFS, devices |
| SFS (`fs/sfs/*`) | in-memory inodes, hash list, `reclaim_count`, free map, block map | load, lookup, io, truncate, reclaim, sync | disk, semaphores |
| image builder (`tools/mksfs.c`) | next block, cached index blocks, free map | open_dir, add_entry, append_block, close_sfs | SFS, which mounts the image |
| drivers, traps, libraries | registers, console ring | character and block I/O | all |

### 1.3 What is hard, and what makes each component right

* **processes, scheduler.** Nobody is in the run pool twice or while it sleeps;
  a wakeup is not lost in the window before `schedule()`; no zombie is left when
  its parent sleeps in `wait()`; parents and pointers to them stay valid; a
  timer or a wait queue entry, which lives on a kernel stack, is unlinked before
  the stack frame dies; all sleeps end; every orphan is reaped; the kernel shuts
  down only when nothing is left.
* **timer list.** Deltas: an insertion or a deletion in the middle must not
  change anybody else's deadline.
* **pid allocation.** The cached window must stay free of live pids; the search
  wraps around and restarts and must end.
* **stride.** Strides wrap at 2^32; the comparison is right only while they lie
  within half of that. Sleepers and new processes come back with old strides.
* **semaphores, monitor.** Hand-over without going through the value; Hoare
  semantics; nobody forgotten, no unit lost or duplicated.
* **allocators.** Blocks handed out are disjoint, the free list is sorted and
  coalesced, `nr_free` is exact, whatever the order of frees.
* **address spaces.** Every page frame is named by as many entries as it is
  counted, nothing is mapped outside the areas, and a process sees only what it
  wrote itself, across fork, exec, exit, page faults and replacement.
* **reference counts** (inodes, pages, files): never freed in use, freed in the
  end; a lookup races a reclaim.
* **SFS.** Every block has one owner and is free or owned; `size` and `blocks`
  agree also after an operation failed half-way; what the image builder writes
  is what the kernel asserts when it mounts and reads it.
* **loops over two things at once** (read() over a file and user memory,
  load_icode() over a file and pages, find_vma() over a list and a cache): the
  borders of the one fall anywhere within the other, and either may stop first.

## 2 Modules

| Module | Models | Kind |
|---|---|---|
| `Sched` | wakeup_proc(), schedule() as operators on the state of all processes | component |
| `Proc` | process life cycle, system calls, timer interrupts, keyboard; EXTENDS `Sched` | component, composed |
| `Timers` | what do_sleep() promises | abstract specification |
| `TimerList` | the delta-encoded timer list | component, implements `Timers` |
| `PidAlloc` | get_pid() with fork and reap around it | component |
| `Stride` | the stride scheduling class under schedule(); EXTENDS `SkewHeap` | component |
| `SkewHeap` | skew_heap.h on left, right and parent links | data structure |
| `Semaphores` | up() and down() on several semaphores | component |
| `Monitor` | cond_signal(), cond_wait(); EXTENDS `Semaphores` | component |
| `Dining` | neighbours never eat together; who waits is told | abstract specification |
| `PhilSem` | philosophers with semaphores; EXTENDS `Semaphores` | composed, implements `Dining` |
| `PhilMon` | philosophers with the monitor; EXTENDS `Monitor` | composed, implements `Dining` |
| `ProcLinks` | the sibling links behind `parent` | data structure |
| `FirstFit`, `BestFit` | page allocators on a linked list of free blocks | components |
| `Buddy` | the buddy tree of page blocks | component |
| `Slob`, `Slub` | kernel heaps | components |
| `UserMemory` | processes have memory of their own | abstract specification |
| `Vma` | operators on the areas of an address space | data structure |
| `VmaList` | one list of areas under all calls; EXTENDS `Vma` | component |
| `AddrSpace` | page tables, frames and areas under fork, exec, exit and faults; EXTENDS `Vma` | composed, implements `UserMemory` |
| `Swap` | page replacement with four managers | component, implements `UserMemory` |
| `ElfLoad` | load_icode() byte by byte | algorithm |
| `SysFile` | the loops of read() and write(); EXTENDS `Vma` | component |
| `Names` | directories, paths, the working directory | operators |
| `Mksfs` | the image builder, whose result `Names` reads | component, composed |
| `SfsFile` | block map, size and free map of SFS under the file operations | component |
| `OpenFiles` | descriptors, reference counts, inodes in memory | component |
| `ProcProofs`, `KinProofs`, `SyncProofs`, `FilesProofs`, `PageProofs`, `AreaProofs`, `PartsProofs` | theorems | proofs |
| `Loops` | recursive functions and folds: that they exist and what each round keeps; least elements | lemmas |
| `MCProc`, `MCSync`, `MCParts`, `MCFs` | constants and combinations for TLC | instances |

Operators whose comment begins with "Fault:" are not part of any specification.
Each is what a neighbouring definition would be after a plausible programming
error, and shows that the property beside it in `PROJECT.json` notices the error.

`MCParts`, `MCSync` and `MCFs` put components that share no state under one
root. A variable chosen at the start says which of them moves; the others rest in
their initial states, or without any where another part has no use for one. The states are the sum of the components' states, not the
product, and the properties of each are checked in its own part.

### 2.1 Sched and Proc

The state of `Proc` is the array of `proc_struct`s: `state`, `waitState`,
`parent`, `exiting` (`PF_EXITING`), `needResched`, who owns the CPU (`current`)
and where in the kernel each process is (`at`), the run pool, `nrProcess`, the
remaining ticks of every timer, the wait queue and the count of unread
characters of stdin. A process is identified with its slot; `PidAlloc` shows
that the pids of live processes differ, which is what that needs.

Atomicity follows 1.1. A system call of a user process is one action up to its
return or up to `schedule()`; what follows `schedule()` is an action of its own
(`WaitResumes`, `SleepResumes`, `KbdResumes`, `TrapExit`). `idleproc`,
`initproc` and kernel threads take their steps one at a time and a tick may come
between any two. `Switch` is `schedule()` with `proc_run()`. `Tick` is the whole
timer interrupt: `run_timer_list()`, the time slice (as a choice), and the
characters that have arrived.

Abstractions. The scheduling class picks any member of the run pool. The sibling
lists are the `parent` relation, which `ProcLinks` justifies. A timer is the ticks it has left, which
`TimerList` justifies: both it and `Proc` implement `Timers`. A system call that
neither blocks nor touches this state (`SysOther`) leaves it alone, a failing
fork included. `initproc` runs `init_main()` with user_main's process as a user
process. A panic sets `halted`. Characters are counted, not told apart.

### 2.2 TimerList and Timers

`TimerList` keeps the list with its deltas. `AddTimer`, `DelTimer`, and the loop
of `run_timer_list()` are functions on sequences. `Timers` has for each sleeper
the ticks left; its actions say that a tick takes one from each, wakes exactly
those that reach zero, and that interrupted sleepers stop their timer when they
return. `Left` maps a list to that: the sum of the deltas up to an entry.

### 2.3 PidAlloc

One list entry per step, in any order, since nothing in get_pid() depends on the
order. `last_pid` and `next_safe` are kept between calls.

### 2.4 Stride and SkewHeap

`SkewHeap` works on the `left`, `right` and `parent` links of the entries, with
the comparison as a set of pairs, so that a comparison that is no order can be
given to it. `Stride` has one action per entry of the scheduling class:
`schedule()` is enqueue, pick and dequeue in this order, and the pick changes
the stride of the top while it is still in the heap. `idleproc` is not in the
pool, as in `sched.c`. `total` remembers the unbounded sum behind `lab6_stride`;
the field is the sum modulo 2^32, which is four times `BIG_STRIDE` (`Modulus`),
and only the field is compared. A behaviour has one of two loads. "fixed": all
processes exist before the first pick and stay runnable; then sums stay together
and are rebased when all have wrapped, so that the state space is finite and
covers any number of wraps. "open": processes arrive, sleep, wake and exit at any
time, up to `MaxTotal`.

### 2.5 Semaphores, Monitor, PhilSem, PhilMon

A thread's steps end at semaphore operations, and threads interleave there. The
kernel itself would switch only where a thread blocks; the models allow more, so
nothing shown rests on the lack of preemption. A thread that sleeps in a
semaphore is in `WT_KSEM`, which kill() does not interrupt; the `assert(flags ==
0)` of `down()` is therefore not at risk, and `down()` returns only after an
`up()`.

### 2.6 ProcLinks

`cptr`, `optr` and `yptr` under fork, exit and reaping. `Adopted` is set_links()
and one turn of the loop of do_exit() that hands a child to initproc, `Unlinked`
is remove_links(). `KinExact` says that the links are the relation `parent` that
`Proc` has.

### 2.7 Page allocators: FirstFit, BestFit, Buddy

`links` are the `next` and `prev` of every page and of the list head, `property`
and `isHead` what the page structures hold. Pages that are not at the head of a
free block keep what they had, as in memory. `holders` counts how many callers
believe they own a page. Frees give back any part of what is held. With
`AmpleMemory` the last page is never handed out; finding 2 says why that matters.
`BestFit` differs in the choice of the block alone and has the same loop.

`Buddy` keeps `record_area` as a function on the nodes of the tree, with masks
of powers of two as numbers, whose `|` is the sum of the powers that occur in either,
and the free list as a count per page, since nothing reads
its order. `Layout` computes, as buddy_init_memmap() does, how many pages the
records take and what is left.

### 2.8 Kernel heaps: Slob, Slub

`Slob` addresses units of `SLOB_UNIT` bytes. `free` is the circular list with
its `next` pointers, `small` and `big` are what callers hold; pages come from any
place, and others take and give them back meanwhile. A request that meets the
assertion of slob_alloc() halts the model, and so does one without a page.

`Slub` keeps each cache with its three lists of slabs and each slab with its
chain of free objects. The descriptors of caches are objects of the first cache, as
in the code. `ObjectsFit` is finding 6.

### 2.9 Areas and address spaces: UserMemory, Vma, VmaList, AddrSpace

`UserMemory` has a memory per process. A step of the kernel lets a page appear,
copies a whole memory to a new process, replaces one by a program or ends it; it
writes to nothing that is there. Only a store of the process does.

`Vma` has mmap_list as a sequence and `mmap_cache` as the start of an area.
find_vma(), insert_vma_struct(), mm_map(), user_mem_check() and copy_string() are
operators on both, and `VmaList` calls them in any order. mm_map() that panics is
not taken there: `LookupsExact` says that it succeeds exactly if nothing overlaps.

`AddrSpace` keeps page tables of three levels in page frames, with `page->ref`.
get_pte(), page_insert(), page_remove_pte(), unmap_range(), exit_range() and
copy_range() are operators from state to state, and fork, exec, exit, a store and a
page fault are the actions: a system call does not block in here. alloc_page() gives
the lowest free frame. When there is none the operation goes on with frame `F + 1`,
which does not exist, and `out` remembers it; at the end what it did is thrown away
and the model halts, as the kernel halts (section 5). The loops over pages, areas and
segments are recursive functions. load_icode() maps its segments and the stack, and
any of its reads of the file may fail: `reads` is how many succeed. `Seen` maps all
this to `UserMemory`. Contents of files are all the same value: which byte comes where
is the matter of `ElfLoad`. CLONE_VM, which no system call passes on, is left out, and
with it `mm_count`.

### 2.10 Swap

check_swap() of `lab3` and `lab8` is the setting: one address space whose tables
are there, fewer frames than pages. `manager` is chosen at the start among FIFO of
lab8, FIFO, LRU and clock of lab3. A page fault takes a frame, swaps out the
victim if there is none, and brings in what the slot holds. The slot follows from
the address, as in the code.

### 2.11 ElfLoad

The loops of load_icode() for one segment: pages filled from the file, the rest of
the last one cleared, pages without anything of the file; then the layout of the
arguments on the stack. Bytes of the file are their offsets, and what nobody wrote
is `Junk`, so that a gap shows.

### 2.12 SfsFile

One record holds the free map, the inodes in memory and on the disk, the
indirect blocks and the dirty flags. The functions of `sfs_inode.c` are operators
from record to record that stop at the first error or panic, in the nesting of
the code. An operation on a file is one action: nobody sleeps while it holds the
semaphore of an inode, since the disk is in memory and `down()` of the disk's and
the buffer's semaphores finds them free; a user process is not preempted in the
kernel. `Fds` stands for the open files of all processes together; who opens,
forks and closes them is the matter of `OpenFiles`.

### 2.13 OpenFiles

Per process a table of descriptors and what it is doing (`job`); per inode in
memory `ref_count`, `open_count`, `reclaim_count`, the dirty flag and a size that
stands for the content; the size on the disk. Opening is `Open`, `Load`,
`OpenDone`; closing is `Close`, `Sync`, `Drop`, `Reclaim`: a step ends where a
semaphore is taken or given back, and processes interleave there. That is more
than the kernel does today (the semaphores are always free), and what the code is
written for: `reclaim_count` exists only for a lookup that meets a reclaim.
`execve()` closes the descriptors one after the other and opens the program.
`Cleanup` is `fs_cleanup()` when no process is left.

### 2.14 SysFile

One read() or write() call: `Begin`, then a piece of at most `IOBUF_SIZE` at a
time between the file and the buffer and between the buffer and user memory, which
is a list of areas of `Vma`. Between two pieces of a read another process
truncates or overwrites the file; the disk may fail anywhere. `given` in
`MCParts` (`seen` in the module) is what the file gave.

### 2.15 Names, Mksfs

`Mksfs` builds an image as tools/mksfs.c does: blocks out of one counter,
directories depth first, a host inode met again as a link, index blocks filled one
after the other, the free map written in pieces. The host's tree is chosen while
it is read. `Names` has what the kernel does with directories: searching,
listing, the path of one (sfs_namefile()), vfs_lookup(), vfs_chdir(). A name is a
number that is its length as well. `NamesExact` lets the kernel read what the
builder wrote.

## 3 Runs

Passing runs, with the distinct states TLC finds; each takes between ten seconds
and two and a half minutes with two workers:

| Run | Bounds | States | Question |
|---|---|---|---|
| `proc` | 2 users, 1 kernel thread, MAX_PROCESS 5, MaxSleep 2, STDIN_BUFSIZE 1, TICK_NUM 1 | 410,580 | run pool, timers, keys, missed exits, dangling parents, shutdown, who reaps, contract of do_sleep() |
| `proc_live` | 2 users, MAX_PROCESS 4, MaxSleep 1 | 68,848 | all sleeps end, orphans are reaped |
| `parts` | see below | 234,075 | pids, timers, kin, allocators, heaps, memory, loading, images, names, transfers |
| `stride` | 4 nodes fixed, 3 open; BigStride 3, Priorities {2}, MaxSlice 1, MaxTotal 6 | 197,172 | wrap-around, links of the heap, service |
| `sync` | N 4, TIMES 2 | 470,080 | mutual exclusion, hand-over, Hoare's rule, everybody finishes |
| `fs` | 2 files, 4 blocks, NDirect 1, NEntries 2, BlkSize 2, MaxLen 6, 1 descriptor; 2 processes, 2 inode slots, NFds 2, NStd 1, MaxSize 1, MaxLeaks 1 | 790,428 | owners of blocks, sizes, counts, lost writes |

`parts` gives each of its components an instance of its own (`MCParts`):

| Part | Bounds | Property |
|---|---|---|
| pids | MAX_PID 7, MAX_PROCESS 6 | `FreshPid`, `GetPidReturns` |
| timers | 4 sleepers, MaxSleep 3 | `ImplementsTimers` |
| kin | 5 processes | `KinExact` |
| first, best | 5 pages, AmpleMemory | `RunsExact` |
| tree | 8 leaves, 8 records to a page, memories of 9 and 12 pages, which leave 7 and 8 | `BuddyExact` |
| slob | 3 pages of 4 units of 2 bytes; sizes 1, 3, 5, 7, 17 | `HeapsExact` |
| slab | 4 pages of 56 bytes, descriptors of 20, one sized cache, one own of 26 | `HeapsExact` |
| areas | 4 pages of 2 bytes, 3 kinds, strings up to 5 bytes | `LookupsExact` |
| spaces | 2 processes, 8 pages in tables of 2 entries, 18 frames, MaxLost 3, 3 programs, a stack of 2 pages of which 1 is there, 2 values | `FramesExact`, `ImplementsMemory` |
| swap | 4 pages, 2 frames, 2 values, 4 managers | `FramesExact`, `ImplementsMemory` |
| elf | pages of 4 bytes, segments up to 11 bytes that begin below 5; 1 or 2 arguments of 0, 3, 5 characters | `LoadExact` |
| image | 21 blocks, 3 direct pointers, 2 entries to a block of indices, files up to 8 blocks | `ImageExact`, `NamesExact` |
| io | 4 pages of 2 bytes, a buffer of 2, a file of 3, lengths 1, 3, 5; 4 lists of areas | `TransfersExact` |

Runs that TLC must find violated, each behind a finding of section 5:
`proc_kill`, `first_fit_full` (4 pages, all of which may be taken), `stride_new`,
`sfs_shared` (2 descriptors), `files_exit` (1 process), `slub_sizes` (sized caches of
16 and 32 bytes).

Why the bounds suffice. Orphans need three generations, which `proc` has with
`initproc`, its child and a grandchild. A timer list needs four
entries for an insertion and a deletion in the middle with neighbours on both
sides, and three ticks for equal, adjacent and distant deadlines. Seven pids with
up to five processes make get_pid() wrap around and restart several times. Four
philosophers are the least number with two that are not neighbours; two rounds
let one overtake another. Five pages give a free block with a neighbour below, a
neighbour above, both or none, and a block far away. Four nodes give a skew heap
in which a removal in the middle has two children and a parent; a `BigStride` of 3
with priorities 0 and 2 gives passes of 3 and 1. One direct pointer and two
entries behind the indirect block let a file of three blocks cross all borders,
and two such files with their indirect blocks do not fit into four blocks. Two
descriptors per process and two inode slots let an inode be reclaimed while it is
looked up, and a lookup fail for lack of memory. Three levels of tables with two
entries each let a table be missing on every level while its neighbour is there,
and eighteen frames let an operation run out at every point. Two frames for four
pages let the clock meet its hand at the head, in the middle and at the end of the
list. Segments of up to eleven bytes cover four pages of four bytes, with both ends
at every place within a page. Files of up to eight blocks go through direct,
indirect and both halves of double indirect pointers; the map of 21 blocks takes
three pieces, the last of them partial. Five processes let a child with siblings on
both sides go, and be handed over. The proofs of section 4 remove
the bounds for what they cover.

Fairness. `proc_live` assumes weak fairness of each kernel path (a CPU that has
something to execute executes it), strong fairness of the timer interrupt
(interrupts are enabled again and again) and of being picked: among finitely many
processes with priorities up to BIG_STRIDE, each pick moves its owner's stride
on, so nobody is passed over for ever, which is what `Served` of `Stride` shows
for a fixed load. Finding 3 limits that: a process that comes back from far behind
may have to wait until the others have wrapped, which takes long but not for ever.
Nothing is assumed of user programs or of the keyboard. `stride` assumes
that the timer goes on ticking and that who has to call schedule() does. `parts`
assumes that get_pid(), which runs with interrupts off, goes on. `sync` assumes
that a runnable thread runs. The other runs are of safety and assume nothing.

`CHECK_DEADLOCK FALSE` is set for `sync`, where all threads quit and `AllFinish`
says that this is the only way to stop; for `parts`, where an image is finished, a
call returns, a program is loaded, and a kernel out of memory has panicked; and for
`slub_sizes`, for the last of these reasons. A kernel that has panicked or shut down
stutters by an action of its own (`Halted`). Symmetry is used in safety runs
alone: user processes in `Proc`, files and inode slots in `MCFs`. Where a
specification names one process (the first, idleproc), it is no member of the
symmetric set.

## 4 Proofs

`ProcProofs` proves, for any number of processes, any `MaxSleep`, buffer size
and tick count, that `Inv` is invariant: the conjunction of `TypeOK`,
`RunPoolExact`, `RunningIsRunnable`, `WaitStateExact`, `PlaceExact`,
`TimerOwner`, `NoMissedKey`, `ParentLives`, `NoMissedExit` and `NrProcessExact`.
None of them is inductive alone. That the run pool is exact needs to know that
who is woken is asleep, so that wait states are right; that needs to know where
in the kernel each process is; that no exit is missed needs live parents, and
those need that only a parent reaps. There is one lemma per action, and under it
one step per conjunct. Assumptions: the constants' own (`Sched`, `Proc`).
`RunningIsRunnable`, `WaitStateExact`, `PlaceExact` and `NrProcessExact` are the
strengthening: they are in no run's list, since the proof covers them.

`OnlyParentReaps` is proved as an action property from `Inv`.
`CleanShutdown` needs that every process descends from `initproc`, or else two
processes could be each other's parents and never be found. `Rooted` says so
without an induction along the parents: in every set of processes without idleproc somebody has
a parent outside the set, and idleproc has no child but `initproc`. It is part of the
invariant behind `ShutdownIsClean`.
`SleepContract` is `Spec => ImplementsTimers`: every step of `Proc` is a step of
`Timers` or leaves its variables alone.

`KinProofs` proves `KinExact` of `ProcLinks` for any number of processes. The
invariant (`KinInv`) says that there is an order of birth, a rank that no field
records, in which the links of every family lead down and back (`Family`).
Putting a child first, taking the first away and passing one by are lemmas about
one family. A chain along the links goes down in rank, so that it meets each child
once and ends; the loop of do_exit() hands over one child a turn, so that as many
turns as there are processes are enough.

It also holds the lemmas about `TimerList`, for any number of sleepers and ticks. Each
operation is first described on the list by the deadlines it leaves (`Added`, `Removed`,
`Ticked`): a deadline is the one before it and the timer's own ticks (`DeadlineIs`), and
where two lists have the same ticks their deadlines run in parallel (`Parallel`), so that
everything behind the place of an insertion, a deletion or an expiry keeps its distance.
From that follows, process by process, what is left of each (`AddKeeps`, `DelKeeps`,
`TickKeeps`), which are the steps of `Timers`. The invariant (`TimerInv`) says that no
process is on the list twice, that no timer on it has run out, and that a process is on
it only inside do_sleep(), and always while it sleeps.

`SyncProofs` proves, for any number of philosophers and rounds, `InsideExact`,
`ConditionHolds` and `ImplementsDining` of both versions. The wait queues are
sequences; two lemmas turn what down() and up() do to them into sets of waiting
threads. The invariants count the one right to be inside: it is the unit of the
mutex, or with a thread, or handed to one that has not returned from down() yet.
For the monitor there is at most one signaller who waits, since whom it woke only
leaves.

`FilesProofs` proves `NodesExact`, `WrittenInTheEnd` and the action property
`ContentKept` for any number of processes, files, inodes and descriptors. The
invariant (`FilesInv`) equates `ref_count`, `open_count` and `reclaim_count` with
the numbers of descriptors, operations under way and reclaims to come, which the
lemmas on cardinalities change one at a time; that a process has descriptors only
between birth and death; and that what is not on the disk is in a dirty inode.

Of the blocks (`SfsFile`) it proves, for any number of files, descriptors and blocks,
any layout of an inode and any size, `FreemapExact`, `MapExact`, `DirtyIfChanged` and,
as long as no file is open twice, `NeverPanics`; the run `sfs_shared` shows that two
openers can make an assertion fail. `Names` says in one function which block each
pointer and each entry names. It names no block twice and the free blocks are those it
does not name (`Exact`), which taking and returning a block keep (`Gain`, `Loss`).
Every operator of the module has a lemma that says what it does: a block appended
(`Extended`), looked up or appended (`LoadDoes`), given up (`DropLastDoes`), a loop of
these (`AddsDo`, `CutsDo`), a whole truncation (`TruncateDoes`). A transfer has at most
three pieces, of which one lemma gives the next from the last (`NextReach`); a file is
filled without gaps because its blocks are those its size needs (`Even`) until the disk
runs full. What holds after that, when an operation has failed half-way, is kept apart
in the same invariant (`Good`), so that `FreemapExact` and the first half of `MapExact`
hold then too. For `NeverPanics` each descriptor stands inside its file (`Within`).

`PageProofs` proves for memory of any size that the free list of `FirstFit` and
`BestFit` is exact, that a request is served as promised, and that no page is held
twice (`FirstFitExact`, `BestFitExact`, `NoPageTwice`). The invariant has three
layers: the links are in order both ways (`Threaded`), the free blocks do not touch
and have no holders (`Tiled`, `Apart`), and the list is that of the blocks
(`BlocksOK`). The loops of the code are recursive functions, which `Loops` unfolds:
`Repeats` says that such a walk exists, `EveryRound` carries a fact along it. The
assumption `AmpleMemory`, that the last page is never handed out, is needed: the
run `first_fit_full` and finding 2 show what happens without it. It holds in the
running kernel.

Of the loader (`ElfLoad`) `PageProofs` proves `LoadExact` and `ArgsApart` for pages
and words of any size, and for every segment. Pages do not overlap, and an address has
one page and one place in it (`PagesApart`, `BaseUnique`): that is all the proof needs
of `\div` and `%`. The invariant (`ElfInv`) says which pages there are (`Laid`), that
below the next byte all of them hold what they should (`ReadTo`), and where the next
byte is in each loop of the code, seen from the last page (`Placed`): behind its end
only before the first page, and within it only where the segment or its part in the
file has ended. One lemma is about a page that is added (`PageAdded`), and both loops
use it. The arguments lie one behind the other down from the top (`AreasJoin`).

Of page replacement (`Swap`) it proves `ListExact` and `ImplementsMemory` for any number of
pages and frames. The invariant (`SwapInv`) says that no two pages have the same frame or
slot, each slot being that of the page's address (`NamesApart`), and that the list has the frames
in use, once each (`Listed`). The hand of the clock passes a visited page at most once, so
that among one more places than there are frames one stops it (`ClockIs`); all that the
managers need to promise is a victim that is on the list and a hand that is not on the
victim (`VictimIs`). Where a page goes out its contents move from a frame to a slot, and
where one comes in they move back (`SwapOutKeeps`, `InsertKeeps`), so that memory changes
only where a page appears or the program writes.

`AreaProofs` proves `LookupsExact` of `VmaList` and `TransfersExact` of `SysFile` for
user memory of any size. The list stays sorted because the assertions on the two
neighbours of a new area are the same as that it overlaps nothing at all
(`AssertsAreApart`), so the area found at the start of a request decides (`MapExact`);
the cache only changes which of the covering areas is found, and no address has two
(`OneCovers`). user_mem_check() and copy_string() are recursive functions. They are
shown to be what `Usable` and `Copyable` say by giving the explicit solution of the
recursion and taking the highest address at which another one could differ
(`CheckExact`, `CopyExact`). dup_mmap() is a fold from the last area to the first, each
put in front (`DuplicateSame`). For read() and write() the invariant (`IoInv`) says how
the position, the count and what arrived are related before each piece, during it and
at the end, where a check of the user's buffer has failed, or the file or the length
has ended.

Of the address spaces (`AddrSpace`) it proves `FramesExact`, `MappedInAreas` and
`ImplementsMemory` for any number of processes, frames and programs and tables of any
span. `FramesExact` is not inductive: it counts entries, and does not say that an
entry of a directory leads to a table and that one of a table leads to a page. The
invariant (`SpaceInv`) has three layers. Frames have levels (`Shape`): an entry leads
from one level to the next, no two lead to one frame, and what has a level and is no
directory is led to. With that, what a directory holds is a function on pages
(`Cells`), and an operation on one directory leaves those of the others alone
(`Kept`). A directory goes with a list of areas (`GoesWith`): what is mapped lies
inside them, and tables of the middle level hang only where there are areas, so that
exit_range() frees all of them. Last, each process has a directory of its own
(`Spaces`). Every operator has a lemma that says what it does to `Shape` and to
`Cells`, and each loop of unmap_range(), exit_range(), copy_range(), dup_mmap() and
load_icode() one that carries it from round to round, by `Repeats` and `EveryRound` of
`Loops`. Where an operation has run out of frames nothing is known but that it will be
thrown away (`Gone`), which every operator keeps. From the invariant a step is one of
`UserMemory` or changes no memory: `Cells` are what a process sees. That each entry is
counted once is a bijection between entries and frames. Assumed is `SpaceConstantsOK`:
at least one frame, tables of at least two entries, user pages as many as three levels
of tables have (the kernel's own entries, which no operation changes, are left out),
and a stack that is within them.

`PartsProofs` proves `FreshPid` and `WindowClear` (no live pid lies between `last_pid`
and `next_safe`) of `PidAlloc` for all MAX_PID and MAX_PROCESS; its invariant relates
the candidate to the entries already passed. It also carries the results of
`PageProofs`, `KinProofs` and `AreaProofs` to the specification that the run `parts`
checks, as `RunsStayExact`, `KinStaysExact`, `LookupsStayExact`, `TransfersStayExact`,
`LoadStaysExact`, `FramesStayExact` and `SwapListStaysExact`, and the refinements of
`Timers` as `TimersAreKept` and of `UserMemory` as `MemoryIsKept` (by address spaces
and by page replacement) and `SwapKeepsContents`: a part that moves takes its own
steps, and one that rests keeps its state. `FitPages`, `KinProcs`, `Sleepers`,
`UserSize`, `SpacePages`, `SpaceFrames`, `ElfPage`, `Virt`, `Phys` and the other sizes, to which the
run gives small values, are constants there, so that the theorems are for every value.

Checked by TLC only:

* liveness (`SleepEnds`, `OrphansAreReaped`, `GetPidReturns`, `Served`,
  `AllFinish`), which is out of the prover's reach;
* `Buddy`, whose masks are sums of powers of two: an induction over data;
* `SkewHeap`, whose merge is recursive, and with it `Stride`;
* `Slob`, `Slub`, `Mksfs` and `Names`, whose loops are folds over states.

## 5 Findings

1. `proc_kill`, `KillEnds`. kill() is documented as leading to do_exit()
   (`process/proc.c:58-59`). A process marked while it is preempted in `trap()`
   goes back to user mode unnoticed, and may then sleep for ever; a second
   kill() does not wake it.
2. `first_fit_full`, `HeldOnce`. The loop of default_free_pages() that links a
   block behind the last one has no `break` (`mm/default_pmm.c:148`), goes on to
   the block it has just linked and links it behind itself. list_del() then does
   not remove it, and its pages are handed out again. It happens only when the
   freed block lies above every free block; in the running kernel the end of
   memory has never been handed out, which is why nothing is seen of it
   (`AmpleMemory`).
3. `stride_new`, `PickMinimum`. A new process starts at stride 0, a sleeper keeps
   its stride; when the others are more than half of 2^32 ahead, the comparison
   takes it for the one ahead (`schedule/default_sched_stride.c:20`).
4. `sfs_shared`, `NeverPanics`. Truncation through one descriptor leaves the
   position of another one beyond the end; its next write meets
   `assert(index <= din->blocks)` (`fs/sfs/sfs_inode.c:413`).
5. `files_exit`, `ExitCloses`. do_exit() closes no descriptor, although
   `fs/fs.c:47` says that files_destroy() is called at exit.
6. `slub_sizes`, `ObjectsFit`. kmem_sized_index() finds the largest cache whose
   objects are not larger than what was asked for, rounded up to an even number:
   17 bytes come from the cache of 16 (`lab2/kern/mm/slub.c:97`), where the
   comments say that it rounds up and takes the size that fits best (lines 91,
   409). Sizes of 16, 32, 64 and so on are right.

Seen while reading, not behind a run:

* kill() of initproc makes do_exit() panic, "initproc exit."
  (`process/proc.c:573-576`). It is left out of the runs.
* A file that grows while the disk runs full keeps the blocks it got without the
  size: a later operation meets `assert(tblks == din->blocks)`
  (`fs/sfs/sfs_inode.c:1133`). When only an existing indirect block gets an entry
  the inode is not marked dirty (line 426). `MapExact`, `NeverPanics` and
  `DirtyIfChanged` therefore speak of file systems on which no block was ever
  refused; `FreemapExact` speaks of all.
* open() with `O_CREAT | O_EXCL` of an existing file keeps the reference of the
  lookup (`fs/vfs/vfsfile.c:77`); `leaked` counts these. open() with `O_CREAT` of
  a missing file calls an operation no inode has (line 64).
* find_order() halves a size and drops the remainder (`mm/kmalloc.c:213`): 8193
  bytes get two pages. `HeapExact` bounds by how little a block falls short. Sizes
  from 4064 to 4079 pass the test in __kmalloc() and meet the assertion in
  slob_alloc() (lines 224, 100). No caller asks for any of these.
* exit_range() frees the tables of the middle level and loses those of the last
  (`mm/pmm.c:343`). `FramesExact` shows that nothing else is lost; `MaxLost` bounds
  how many are before the run stops.
* When memory is gone alloc_pages() swaps out of `check_mm_struct`, which is NULL
  (`mm/pmm.c:66`). do_pgfault() takes an entry that is valid, but does not allow the
  access, for a swap entry, and swap_offset() panics (`mm/vmm.c:452`): a program
  that writes to its code halts the kernel.
* mm_map() looks up the start of an area only (`mm/vmm.c:172`); one that begins
  below another and reaches into it meets an assertion, in load_icode() that of a
  program file.
* One FIFO list serves all address spaces and every mm_create() empties it
  (`mm/swap_fifo.c:36`). Nothing swaps out of user processes, so that only
  check_swap() sees it, with one address space.
* stdin: a full buffer overwrites the oldest character that nobody has read
  (`fs/devs/dev_stdin.c:31`).
* sfs_io() of several blocks at once takes them for consecutive on the disk
  (`fs/sfs/sfs_inode.c:758`); the number of blocks it is called with is one.
* getcwd() gives "disk0:/a/", and vfs_lookup() takes what follows the device for one
  name (`fs/sfs/sfs_inode.c`, sfs_lookup): chdir() of a path of several components
  fails. `NamesExact` walks one name at a time.
* tools/mksfs.c writes an entry without the last four bytes of its structure
  (line 434), so that names of 252 to 255 characters lose their end; the index
  blocks are hashed under inode number 0 (line 187) and would not be found by
  search_cache_block(), if anybody searched. It builds double indirect
  blocks, which the kernel cannot read.
* slub: a cache that is created where one was destroyed links a descriptor that is
  on the chain already, after which the chain has no end; kmem_cache_grow() does not
  test whether there is a page.
* buddy: from 258 to 511 pages the tree needs two pages of records and gets one
  (`lab2/kern/mm/buddy.c:66`). The machine has more; `ConstantsOK` of `Buddy`
  excludes these sizes.

## 6 Plan

All components with state of their own that a model checker reaches have a model
(section 7 has the rest). What is left is to prove more of what the runs check, in
this order:

1. The spread of strides, from an abstract pick of the minimum.
2. The chain of free units of `Slob`, along the lines of `FirstFit`.

## 7 Not modelled

* Drivers, console and disk I/O, boot code, trap entry and context switch in
  assembly, page table hardware, printing, string and formatting code: no control
  state of their own, or out of TLC's reach. They are most of the lines of the
  repository, together with six copies of the same headers, and are why the mapped
  share of all lines stays low.
* The device list and mounting (`fs/vfs/vfsdev.c`), written once at start; system
  calls that only pass their arguments on. The kernel has no operations for
  symbolic links (SFS_TYPE_LINK), which the image builder writes.
* Characters of stdin are counted, not told apart. Writers that interfere with a
  write() (`SysFile` has them for read()).
* Memory shared by CLONE_VM with `mm_count`; the tick of the LRU manager of `lab3`,
  which no code calls; constructors of slub objects, and caches created after one
  was destroyed.
* The round robin class (`schedule/default_sched_c`), which is not compiled.
* Kernel monitor and debugging. User programs: they appear as arbitrary sequences
  of system calls.
* `lab1` to `lab5` where `lab8` has the same code; do_fork() of `lab5` is an
  unfinished exercise. `obj`, `bin` and build directories are generated.
