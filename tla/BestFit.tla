------------------------------ MODULE BestFit ------------------------------
(***************************************************************************)
(* The best-fit allocator of physical pages, lab2/kern/mm/best_fit_pmm.c.  *)
(* Its free list and the way blocks are split, linked and joined are those *)
(* of first fit, with the missing break; only the choice of a block is     *)
(* another one.                                                            *)
(***************************************************************************)
EXTENDS FirstFit

\* The loop of best_fit_alloc_pages(): a block replaces the one found before only
\* if it is smaller.
BestWithRoom(n) ==
  LET chain == Chain(links)
      best[k \in 0 .. Len(chain)] ==      \* the position found in the first k blocks
        IF k = 0 THEN 0
        ELSE LET Size(j) == IF j = 0 THEN nrFree + 1 ELSE property[chain[j]]
             IN  IF property[chain[k]] >= n /\ property[chain[k]] < Size(best[k - 1])
                 THEN k ELSE best[k - 1]
      found == best[Len(chain)]
  IN  IF n > nrFree \/ found = 0 THEN FreeList ELSE chain[found]

\* best_fit_alloc_pages(n) that finds a block.
BestAlloc(n) == AllocFrom(BestWithRoom(n), n)

\* best_fit_free_pages(base, n)
BestFree(base, n) == Free(base, n)

BestNext == \E n \in Pages : BestAlloc(n) \/ \E base \in Pages : BestFree(base, n)

-----------------------------------------------------------------------------
\* A request is served from a shortest run that is long enough, the lowest one of
\* those, and refused only when there is none (best_fit_pmm.c, best_fit_alloc_pages).
Length(p) == Max({k \in 1 .. N : p .. p + k - 1 \subseteq FreePages})

ShortestRun(n) ==
  LET runs  == {p \in RunStarts : Length(p) >= n}
      short == {p \in runs : \A q \in runs : Length(p) <= Length(q)}
  IN  IF runs = {} THEN FreeList ELSE Min(short)

BestExact == \A n \in Pages : BestWithRoom(n) = ShortestRun(n)
=============================================================================
