------------------------------ MODULE VmaList ------------------------------
(***************************************************************************)
(* One mm_struct with the calls that change or search its areas, in any    *)
(* order (lab8/kern/mm/vmm.c).                                             *)
(***************************************************************************)
EXTENDS Vma

CONSTANTS
  Kinds,   \* the flags that areas are mapped with
  PB,      \* bytes of a page
  MaxCopy  \* the longest string that is asked for, in bytes

ConstantsOK ==
  /\ NV \in Nat \ {0} /\ PB \in Nat \ {0} /\ MaxCopy \in Nat
  /\ Kinds \subseteq SUBSET Flags

VARIABLES areas, cache   \* mmap_list and mmap_cache

vars == <<areas, cache>>

Init == areas = <<>> /\ cache = NoArea

\* mm_map(); the kernel goes on unless it panics.
Map(area) ==
  /\ MmMap(areas, cache, area) # "panic"
  /\ areas' = IF MmMap(areas, cache, area) = "mapped" THEN InsertVma(areas, area) ELSE areas
  /\ cache' = CacheAfter(areas, cache, area.start)

\* find_vma(), of a page fault.
Lookup(a) == cache' = CacheAfter(areas, cache, a) /\ UNCHANGED areas

\* user_mem_check(), of a system call.
Check(lo, hi, write) ==
  cache' = CacheAfterCheck(areas, cache, lo, hi, write) /\ UNCHANGED areas

\* dup_mmap(): the list of the child, which takes the areas from the last to the first.
Duplicate ==
  /\ areas' = FoldLeft(InsertVma, <<>>, Reverse(areas))
  /\ cache' = NoArea

Requests == {area \in [start : 0 .. NV - 1, end : 1 .. NV, flags : Kinds] : area.start < area.end}

Next ==
  \/ \E area \in Requests : Map(area)
  \/ \E a \in 0 .. NV - 1 : Lookup(a)
  \/ \E lo \in 0 .. NV - 1, hi \in 1 .. NV, write \in BOOLEAN : Check(lo, hi, write)
  \/ Duplicate

Spec == Init /\ [][Next]_vars

-----------------------------------------------------------------------------
\* The list is sorted, no two areas overlap, and the cache is an area of the list.
\* find_vma() finds the area of each address, mm_map() takes what overlaps nothing
\* and nothing else, user_mem_check() and copy_string() pass what lies in areas
\* that allow it and nothing else, whatever was looked up before (vmm.c,
\* find_vma, mm_map, user_mem_check, copy_string).
LookupsExact ==
  /\ AreasSorted(areas, cache)
  /\ \A a \in 0 .. NV - 1 :
       LET i == FindVma(areas, cache, a)
       IN  IF i = 0 THEN \A j \in DOMAIN areas : ~ Covers(areas[j], a) ELSE Covers(areas[i], a)
  /\ \A area \in Requests :
       (MmMap(areas, cache, area) = "mapped")
         = (\A j \in DOMAIN areas : area.end <= areas[j].start \/ areas[j].end <= area.start)
  /\ \A lo \in 0 .. NV - 1, write \in BOOLEAN : \A hi \in lo + 1 .. NV :
       UserMemCheck(areas, cache, lo, hi, write) = Usable(areas, lo, hi, write)
  /\ \A src \in 0 .. NV * PB - 1, maxn \in 1 .. MaxCopy, len \in 0 .. MaxCopy :
       CopyString(areas, cache, PB, src, maxn, len) = Copyable(areas, PB, src, maxn, len)
=============================================================================
