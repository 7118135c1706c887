------------------------------ MODULE FirstFit ------------------------------
(***************************************************************************)
(* The first-fit allocator of physical pages, lab8/kern/mm/default_pmm.c,  *)
(* with the doubly linked free list of libs/list.h.  All operations run    *)
(* with interrupts off and are one action each.                            *)
(*                                                                         *)
(* A free block is linked by its first page, which has PG_property set and *)
(* holds the length.  Links and lengths of other pages are left over from  *)
(* earlier and stay as they are.                                           *)
(***************************************************************************)
EXTENDS Integers, Sequences, FiniteSets, FiniteSetsExt

CONSTANTS
  N,           \* the pages of memory
  AmpleMemory  \* TRUE: the load never takes the last page (bound of the model)

ConstantsOK == N \in Nat \ {0} /\ AmpleMemory \in BOOLEAN

Pages == 1 .. N
FreeList == 0   \* the list head, free_area.free_list

VARIABLES
  links,      \* [next, prev]: page_link of every page and of the head
  property,   \* page->property
  isHead,     \* the pages with PG_property
  nrFree,     \* nr_free
  holders     \* how many callers have been given a page and not freed it

vars == <<links, property, isHead, nrFree, holders>>

TypeOK ==
  /\ links \in [next : [0 .. N -> 0 .. N], prev : [0 .. N -> 0 .. N]]
  /\ property \in [Pages -> 0 .. N]
  /\ isHead \in SUBSET Pages
  /\ nrFree \in 0 .. N
  /\ holders \in [Pages -> Nat]

\* default_init(), and default_init_memmap() for all of memory.
Init ==
  /\ links = [next |-> [e \in 0 .. N |-> IF e = FreeList THEN 1 ELSE FreeList],
              prev |-> [e \in 0 .. N |-> IF e = FreeList THEN 1 ELSE FreeList]]
  /\ property = [p \in Pages |-> IF p = 1 THEN N ELSE 0]
  /\ isHead = {1}
  /\ nrFree = N
  /\ holders = [p \in Pages |-> 0]

-----------------------------------------------------------------------------
\* libs/list.h; the assignments are made in this order.
ListInsert(l, elm, p, n) ==
  [next |-> [l.next EXCEPT ![p] = elm, ![elm] = n],
   prev |-> [l.prev EXCEPT ![n] = elm, ![elm] = p]]

ListAdd(l, e, elm)       == ListInsert(l, elm, e, l.next[e])
ListAddBefore(l, e, elm) == ListInsert(l, elm, l.prev[e], e)

ListDel(l, e) ==
  [next |-> [l.next EXCEPT ![l.prev[e]] = l.next[e]],
   prev |-> [l.prev EXCEPT ![l.next[e]] = l.prev[e]]]

\* The entries in the order a loop over the list meets them.  A list that does
\* not come back to its head is cut off; the code would loop for ever.
Chain(l) ==
  LET at[k \in 0 .. N] == IF k = 0 THEN FreeList ELSE l.next[at[k - 1]]
      ends == {k \in 1 .. N : at[k] = FreeList}
  IN  [k \in 1 .. (IF ends = {} THEN N ELSE Min(ends) - 1) |-> at[k]]

\* The first entry of the list that has room for n pages, FreeList if there is none.
FirstWithRoom(n) ==
  LET chain == Chain(links)
      fit   == {k \in DOMAIN chain : property[chain[k]] >= n}
  IN  IF n > nrFree \/ fit = {} THEN FreeList ELSE chain[Min(fit)]

-----------------------------------------------------------------------------
Remainder(page, n) == property[page] - n

\* n pages are taken from the start of the block page, and the rest takes its place.
AllocFrom(page, n) ==
  LET rest == page + n
      cut  == ListDel(links, page)
  IN  /\ page # FreeList
      /\ AmpleMemory => N \notin page .. rest - 1
      /\ \/ /\ property[page] > n
            /\ property' = [property EXCEPT ![rest] = Remainder(page, n)]
            /\ links' = ListAdd(cut, links.prev[page], rest)
            /\ isHead' = (isHead \cup {rest}) \ {page}
         \/ /\ property[page] = n
            /\ links' = cut
            /\ isHead' = isHead \ {page}
            /\ UNCHANGED property
      /\ nrFree' = nrFree - n
      /\ holders' = [p \in Pages |-> holders[p] + (IF p \in page .. rest - 1 THEN 1 ELSE 0)]

\* default_alloc_pages(n) that finds a block.
Alloc(n) == AllocFrom(FirstWithRoom(n), n)

\* The loop of default_free_pages() that links a block.  It has no break when
\* the block comes behind all others: it then reaches the block it has just
\* linked, which is now the last one, and adds it behind itself.
Linked(l, base) ==
  LET chain  == Chain(l)
      higher == {k \in DOMAIN chain : base < chain[k]}
      last   == chain[Len(chain)]
  IN  IF chain = <<>> THEN ListAdd(l, FreeList, base)
      ELSE IF higher # {} THEN ListAddBefore(l, chain[Min(higher)], base)
      ELSE ListAdd(ListAdd(l, last, base), base, base)

\* a and b are linked one behind the other, and b begins where a ends.
Adjacent(s, a, b) == a # FreeList /\ b # FreeList /\ a + s.property[a] = b

\* The block b becomes part of a.
Joined(s, a, b) ==
  [links    |-> ListDel(s.links, b),
   property |-> [s.property EXCEPT ![a] = @ + s.property[b]],
   isHead   |-> s.isHead \ {b}]

\* Fault: a freed block is not joined with the one in front of it.
MergedPrevNot(s, base) == s

MergedPrev(s, base) ==
  LET before == s.links.prev[base]
  IN  IF Adjacent(s, before, base) THEN Joined(s, before, base) ELSE s

MergedNext(s, base) ==
  LET after == s.links.next[base]
  IN  IF Adjacent(s, base, after) THEN Joined(s, base, after) ELSE s

\* default_free_pages(base, n): a caller gives back pages it holds, not always
\* all it was given at once (default_check).
Free(base, n) ==
  LET run    == base .. base + n - 1
      linked == [links    |-> Linked(links, base),
                 property |-> [property EXCEPT ![base] = n],
                 isHead   |-> isHead \cup {base}]
      before == linked.links.prev[base]
      merged == MergedPrev(linked, base)
      final  == MergedNext(merged, IF base \in merged.isHead THEN base ELSE before)
  IN  /\ run \subseteq {p \in Pages : holders[p] > 0}
      /\ links' = final.links
      /\ property' = final.property
      /\ isHead' = final.isHead
      /\ nrFree' = nrFree + n
      /\ holders' = [p \in Pages |-> holders[p] - (IF p \in run THEN 1 ELSE 0)]

Next == \E n \in Pages : Alloc(n) \/ \E base \in Pages : Free(base, n)

Spec == Init /\ [][Next]_vars

-----------------------------------------------------------------------------
FreePages == {p \in Pages : holders[p] = 0}

\* No page is handed out to two callers, and default_free_pages() may assert
\* that no page it gets is the head of a free block (default_pmm.c, basic_check:
\* pages of different allocations differ).
HeldOnce == \A p \in Pages : holders[p] <= 1 /\ (holders[p] = 1 => p \notin isHead)

\* The free list holds the maximal runs of free pages from low to high, each
\* with its length and the flag, backward links match forward ones, and nr_free
\* counts the pages (default_pmm.c, default_free_pages and default_check).
RunStarts == {p \in FreePages : p - 1 \notin FreePages}

ListExact ==
  LET chain == Chain(links)
  IN  /\ {chain[k] : k \in DOMAIN chain} = RunStarts /\ isHead = RunStarts
      /\ \A j, k \in DOMAIN chain : j < k => chain[j] < chain[k]
      /\ \A e \in RunStarts \cup {FreeList} : links.prev[links.next[e]] = e
      /\ \A p \in RunStarts : /\ p .. p + property[p] - 1 \subseteq FreePages
                              /\ p + property[p] \notin FreePages
      /\ nrFree = Cardinality(FreePages)

\* A request is refused only when there is no run of that many free pages, and
\* is otherwise served from the lowest (default_pmm.c, default_alloc_pages).
LowestRun(n) ==
  LET runs == {p \in Pages : p .. p + n - 1 \subseteq FreePages}
  IN  IF runs = {} THEN FreeList ELSE Min(runs)

AllocExact == \A n \in Pages : FirstWithRoom(n) = LowestRun(n)
=============================================================================
