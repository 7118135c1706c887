-------------------------------- MODULE Vma --------------------------------
(***************************************************************************)
(* The areas of an address space, lab8/kern/mm/vmm.c, in pages: mmap_list  *)
(* as a sequence, with mmap_cache, the area that was found last.  An area  *)
(* is the pages start .. end - 1 with flags; the cache is the start of an  *)
(* area, which no two areas of a list share.                               *)
(***************************************************************************)
EXTENDS Integers, Sequences, FiniteSets, FiniteSetsExt, SequencesExt

CONSTANT NV   \* the pages of user memory, USERBASE to USERTOP

NoArea == -1

Flags == {"VM_READ", "VM_WRITE", "VM_EXEC", "VM_STACK"}
Areas == [start : 0 .. NV - 1, end : 1 .. NV, flags : SUBSET Flags]

Covers(area, a) == area.start <= a /\ a < area.end

-----------------------------------------------------------------------------
\* find_vma(): the position of the area that covers a, 0 if there is none.  The
\* cached area is asked first, then the list from its start.
FindVma(areas, cache, a) ==
  LET covering == {i \in DOMAIN areas : Covers(areas[i], a)}
      cached   == {i \in covering : areas[i].start = cache}
  IN  IF cached # {} THEN Min(cached)
      ELSE IF covering # {} THEN Min(covering) ELSE 0

\* mmap_cache after find_vma().
CacheAfter(areas, cache, a) ==
  LET i == FindVma(areas, cache, a) IN IF i = 0 THEN cache ELSE areas[i].start

\* insert_vma_struct(): behind every area that does not start above the new one.
PlaceOf(areas, area) ==
  LET above == {i \in DOMAIN areas : areas[i].start > area.start}
  IN  IF above = {} THEN Len(areas) + 1 ELSE Min(above)

\* The assertions of check_vma_overlap() on both neighbours.
InsertAsserts(areas, area) ==
  LET i == PlaceOf(areas, area)
  IN  /\ area.start < area.end
      /\ i > 1 => areas[i - 1].end <= area.start
      /\ i <= Len(areas) => area.end <= areas[i].start

InsertVma(areas, area) == InsertAt(areas, PlaceOf(areas, area), area)

\* mm_map(): -E_INVAL for what is not user memory, and when the area found at
\* the start reaches into the new one.  Only the start is looked up: an area that
\* begins above it is met by the assertions of insert_vma_struct().
MmMap(areas, cache, area) ==
  LET i == FindVma(areas, cache, area.start)
  IN  IF ~ (0 <= area.start /\ area.start < area.end /\ area.end <= NV) THEN "inval"
      ELSE IF i # 0 /\ area.end > areas[i].start THEN "inval"
      ELSE IF InsertAsserts(areas, area) THEN "mapped" ELSE "panic"

-----------------------------------------------------------------------------
\* Fault: the lowest page of the stack is not kept back.
StepNoGuard(areas, i, a, write) ==
  i # 0 /\ (IF write THEN "VM_WRITE" ELSE "VM_READ") \in areas[i].flags

\* What user_mem_check() asks of the area i in which its walk is at a.
StepPasses(areas, i, a, write) ==
  /\ i # 0
  /\ (IF write THEN "VM_WRITE" ELSE "VM_READ") \in areas[i].flags
  /\ ~ (write /\ "VM_STACK" \in areas[i].flags /\ a < areas[i].start + 1)

\* user_mem_check(mm, lo, hi - lo, write): area after area, each from where the
\* one before has ended.
UserMemCheck(areas, cache, lo, hi, write) ==
  LET passes[a \in lo .. NV] ==
        \/ a >= hi
        \/ LET i == FindVma(areas, cache, a)
           IN  StepPasses(areas, i, a, write) /\ passes[areas[i].end]
  IN  lo < hi /\ hi <= NV /\ passes[lo]

\* The cache it leaves: the area of the last address the walk looked up.
CacheAfterCheck(areas, cache, lo, hi, write) ==
  LET after[a \in lo .. NV] ==     \* the cache when the walk has been at a
        LET i == FindVma(areas, cache, a)
        IN  IF i = 0 THEN cache
            ELSE IF StepPasses(areas, i, a, write) /\ areas[i].end < hi
                    /\ FindVma(areas, cache, areas[i].end) # 0
                 THEN after[areas[i].end] ELSE areas[i].start
  IN  IF lo < hi /\ hi <= NV THEN after[lo] ELSE cache

\* copy_string(mm, dst, src, maxn) of a string of len characters, in bytes, PB to a
\* page: chunk by chunk, each up to the end of its page, each checked before it is
\* read, until one holds the terminating zero.
CopyString(areas, cache, PB, src, maxn, len) ==
  LET PartEnd(x) == Min({((x + PB) \div PB) * PB, src + maxn})
      copies[x \in src .. src + maxn] ==
        /\ UserMemCheck(areas, cache, x \div PB, (PartEnd(x) + PB - 1) \div PB, FALSE)
        /\ \/ src + len < PartEnd(x)
           \/ PartEnd(x) < src + maxn /\ copies[PartEnd(x)]
  IN  copies[src]

-----------------------------------------------------------------------------
\* mmap_list is sorted and its areas do not overlap, and the cache is one of them
\* (vmm.c, check_vma_overlap and find_vma).
AreasSorted(areas, cache) ==
  /\ \A i \in DOMAIN areas : areas[i].start < areas[i].end
  /\ \A i, j \in DOMAIN areas : i < j => areas[i].end <= areas[j].start
  /\ cache # NoArea => \E i \in DOMAIN areas : areas[i].start = cache

\* A range is usable when every page of it lies in an area with the flag, and is
\* not the lowest page of the stack when it is to be written.
Usable(areas, lo, hi, write) ==
  \A a \in lo .. hi - 1 :
    \E i \in DOMAIN areas :
      /\ Covers(areas[i], a)
      /\ (IF write THEN "VM_WRITE" ELSE "VM_READ") \in areas[i].flags
      /\ (write /\ "VM_STACK" \in areas[i].flags) => a # areas[i].start

\* A string is copied when it fits with its zero and all of it may be read.
Copyable(areas, PB, src, maxn, len) ==
  len < maxn /\ Usable(areas, src \div PB, (src + len) \div PB + 1, FALSE)
=============================================================================
