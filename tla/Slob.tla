-------------------------------- MODULE Slob --------------------------------
(***************************************************************************)
(* The kernel heap, kmalloc() and kfree() of lab8/kern/mm/kmalloc.c.       *)
(* Addresses count units of SLOB_UNIT bytes; page k is the U units from    *)
(* k * U.  The arena is a static block of one unit below all pages, here   *)
(* at address 0.  The list of free blocks is circular; slobfree moves.     *)
(***************************************************************************)
EXTENDS Integers, Sequences, FiniteSets, FiniteSetsExt, SequencesExt

CONSTANTS
  U,        \* units of a page
  UnitSize, \* SLOB_UNIT in bytes
  NPages,   \* pages of memory
  Sizes     \* the sizes asked for, in bytes

PageSize == U * UnitSize

ConstantsOK ==
  /\ UnitSize \in Nat \ {0} /\ U \in Nat /\ U >= 4 /\ NPages \in Nat
  /\ Sizes \subseteq Nat \ {0}

Arena == 0
MemPages == 1 .. NPages
UnitsOf(k) == k * U .. k * U + U - 1

BigUnits == 2   \* SLOB_UNITS(sizeof(bigblock_t))

VARIABLES
  free,      \* the free blocks: [units, next] of each
  slobfree,  \* where the search begins
  small,     \* units of each block that is handed out, by its address
  big,       \* bigblocks, the first one first: [at, page, order, size]
  pages,     \* the pages that are allocated, here or by others
  slobs,     \* those that slob_alloc() has taken
  halted     \* the kernel has panicked

vars == <<free, slobfree, small, big, pages, slobs, halted>>

Init ==
  /\ free = [b \in {Arena} |-> [units |-> 1, next |-> Arena]]
  /\ slobfree = Arena
  /\ small = <<>> /\ big = <<>>
  /\ pages = {} /\ slobs = {} /\ halted = FALSE

-----------------------------------------------------------------------------
\* The entries behind slobfree, as the search meets them; slobfree comes last.
Ring(fr, from) ==
  LET at[k \in 1 .. Cardinality(DOMAIN fr)] ==
        fr[IF k = 1 THEN from ELSE at[k - 1]].next
  IN  at

Without(f, x) == [y \in DOMAIN f \ {x} |-> f[y]]
With(f, x, v) == [y \in DOMAIN f \cup {x} |-> IF y = x THEN v ELSE f[y]]

\* Fault: the block after the last one is never found to be the place.
PlaceNoWrap(fr, from, b) ==
  LET ring == <<from>> \o Ring(fr, from)
      fits == {k \in DOMAIN ring : ring[k] < b /\ b < fr[ring[k]].next}
  IN  IF fits = {} THEN from ELSE ring[Min(fits)]

\* The search of slob_free(): the entry the block b goes behind, at the end of the
\* address order the one with the highest address.
PlaceOf(fr, from, b) ==
  LET ring == <<from>> \o Ring(fr, from)
      fits == {k \in DOMAIN ring :
                 LET cur == ring[k] next == fr[cur].next
                 IN  \/ cur < b /\ b < next
                     \/ cur >= next /\ (b > cur \/ b < next)}
  IN  ring[Min(fits)]

\* slob_free() of the block b of n units: joined with the entry behind it and
\* with the one in front.
Freed(s, b, n) ==
  LET cur   == PlaceOf(s.free, s.slobfree, b)
      next  == s.free[cur].next
      Ahead == IF b + n = next
               THEN With(Without(s.free, next), b,
                         [units |-> n + s.free[next].units, next |-> s.free[next].next])
               ELSE With(s.free, b, [units |-> n, next |-> next])
      Behind(fr) == IF cur + fr[cur].units = b
                    THEN [Without(fr, b) EXCEPT
                            ![cur] = [units |-> @.units + fr[b].units, next |-> fr[b].next]]
                    ELSE [fr EXCEPT ![cur].next = b]
  IN  [free |-> Behind(Ahead), slobfree |-> cur]

\* The first n units of cur are taken, and the rest takes its place in the list.
Split(s, prev, cur, n) ==
  [free |-> With([Without(s.free, cur) EXCEPT ![prev].next = cur + n], cur + n,
                 [units |-> s.free[cur].units - n, next |-> s.free[cur].next]),
   slobfree |-> prev]

Unlinked(s, prev, cur) ==
  [free |-> [Without(s.free, cur) EXCEPT ![prev].next = s.free[cur].next], slobfree |-> prev]

\* The loop of slob_alloc() for n units; at is 0 when nothing is large enough.
Found(s, n) ==
  LET ring == Ring(s.free, s.slobfree)
      fits == {k \in DOMAIN ring : s.free[ring[k]].units >= n}
      k    == Min(fits)
      prev == IF k = 1 THEN s.slobfree ELSE ring[k - 1]
      Take(s1, cur) == [at |-> cur, free |-> s1.free, slobfree |-> s1.slobfree]
  IN  IF fits = {} THEN [at |-> 0, free |-> s.free, slobfree |-> s.slobfree]
      ELSE IF s.free[ring[k]].units = n THEN Take(Unlinked(s, prev, ring[k]), ring[k])
      ELSE Take(Split(s, prev, ring[k], n), ring[k])

Now == [free |-> free, slobfree |-> slobfree]

\* slob_alloc() of n units, as a set of results: at once, or with one page more,
\* which may be any free one.  No page means that alloc_pages() panics.
Allocs(n) ==
  LET first == Found(Now, n)
      Grown(k) == Found(Freed(Now, k * U, U), n)
  IN  IF first.at # 0
      THEN {[at |-> first.at, free |-> first.free, slobfree |-> first.slobfree, page |-> 0]}
      ELSE {LET r == Grown(k)
            IN  [at |-> r.at, free |-> r.free, slobfree |-> r.slobfree, page |-> k] :
              k \in MemPages \ pages}

SlobUnits(size) == (size + UnitSize - 1) \div UnitSize

\* find_order(): halves that lose their remainder.
FindOrder(size) ==
  LET order[n \in 0 .. size] == IF n <= PageSize THEN 0 ELSE 1 + order[n \div 2]
  IN  order[size]

Panic == halted' = TRUE /\ UNCHANGED <<free, slobfree, small, big, pages, slobs>>

Grow(r) == IF r.page = 0 THEN {} ELSE {r.page}

UnitsFor(size) == SlobUnits(size + UnitSize)

\* kmalloc() of less than a page.  slob_alloc() asserts that two units are left
\* of a page, where kmalloc() has left one.
Kmalloc(size) ==
  /\ size < PageSize - UnitSize
  /\ \/ /\ size + UnitSize + UnitSize < PageSize
        /\ \E r \in Allocs(UnitsFor(size)) :
             /\ free' = r.free /\ slobfree' = r.slobfree
             /\ small' = With(small, r.at, UnitsFor(size))
             /\ pages' = pages \cup Grow(r) /\ slobs' = slobs \cup Grow(r)
             /\ UNCHANGED <<big, halted>>
     \/ ~ (size + UnitSize + UnitSize < PageSize) /\ Panic
     \/ /\ size + UnitSize + UnitSize < PageSize /\ Allocs(UnitsFor(size)) = {}
        /\ Panic

Run(k, order) == k .. k + 2 ^ order - 1

\* kmalloc() of a page or more.  The pages come from alloc_pages(); when there are
\* none together the header is freed and the caller gets NULL, and for a single
\* page alloc_pages() panics.
KmallocBig(size) ==
  /\ size >= PageSize - UnitSize
  /\ LET order == FindOrder(size)
         Runs(taken) == {k \in MemPages : Run(k, order) \subseteq MemPages \ taken}
     IN  \/ \E r \in Allocs(BigUnits) :
              LET taken == pages \cup Grow(r)
              IN  /\ slobs' = slobs \cup Grow(r)
                  /\ \/ \E k \in Runs(taken) :
                          /\ free' = r.free /\ slobfree' = r.slobfree
                          /\ big' = <<[at |-> r.at, page |-> k, order |-> order,
                                       size |-> size]>> \o big
                          /\ pages' = taken \cup Run(k, order)
                          /\ UNCHANGED <<small, halted>>
                     \/ /\ Runs(taken) = {} /\ order > 0
                        /\ \E s \in {Freed([free |-> r.free, slobfree |-> r.slobfree],
                                           r.at, BigUnits)} :
                             free' = s.free /\ slobfree' = s.slobfree
                        /\ pages' = taken
                        /\ UNCHANGED <<small, big, halted>>
         \/ /\ \/ Allocs(BigUnits) = {}
               \/ order = 0 /\ \E r \in Allocs(BigUnits) : Runs(pages \cup Grow(r)) = {}
            /\ Panic

\* kfree() of a block of less than a page; its units are in its header.  A block
\* that begins at a page is first looked for among the big ones, in vain.
Kfree(b) ==
  /\ \E s \in {Freed(Now, b, small[b])} : free' = s.free /\ slobfree' = s.slobfree
  /\ small' = Without(small, b)
  /\ UNCHANGED <<big, pages, slobs, halted>>

\* kfree() of a big block: out of the list, then the pages, then the header.
KfreeBig(i) ==
  /\ big' = RemoveAt(big, i)
  /\ pages' = pages \ Run(big[i].page, big[i].order)
  /\ \E s \in {Freed(Now, big[i].at, BigUnits)} : free' = s.free /\ slobfree' = s.slobfree
  /\ UNCHANGED <<small, slobs, halted>>

\* Other users of the page allocator take a page and give it back.
Others ==
  /\ \/ \E k \in MemPages \ pages : pages' = pages \cup {k}
     \/ \E k \in pages \ slobs :
          /\ \A i \in DOMAIN big : k \notin Run(big[i].page, big[i].order)
          /\ pages' = pages \ {k}
  /\ UNCHANGED <<free, slobfree, small, big, slobs, halted>>

Next ==
  /\ ~ halted
  /\ \/ \E size \in Sizes : Kmalloc(size) \/ KmallocBig(size)
     \/ \E b \in DOMAIN small : Kfree(b)
     \/ \E i \in DOMAIN big : KfreeBig(i)
     \/ Others

Spec == Init /\ [][Next]_vars

-----------------------------------------------------------------------------
Units(b, n) == b .. b + n - 1

\* The ring goes once through all free blocks, upwards with one step down, and no
\* block ends where the next one begins; free blocks, blocks handed out and
\* headers of big blocks do not overlap and fill the pages of the heap
\* completely; big blocks have pages of their own, which find_order() may leave
\* short by less than a byte for each page (kmalloc.c, slob_alloc, slob_free, find_order).
HeapExact ==
  LET ring   == Ring(free, slobfree)
      blocks == {[at |-> b, units |-> free[b].units] : b \in DOMAIN free}
                \cup {[at |-> b, units |-> small[b]] : b \in DOMAIN small}
                \cup {[at |-> big[i].at, units |-> BigUnits] : i \in DOMAIN big}
  IN  /\ slobfree \in DOMAIN free /\ Arena \in DOMAIN free
      /\ ToSet(ring) = DOMAIN free
      /\ Cardinality({b \in DOMAIN free : free[b].next <= b}) = 1
      /\ \A b \in DOMAIN free : b + free[b].units # free[b].next
      /\ Cardinality(blocks)
           = Cardinality(DOMAIN free) + Cardinality(DOMAIN small) + Len(big)
      /\ \A x, y \in blocks : x # y => Units(x.at, x.units) \cap Units(y.at, y.units) = {}
      /\ UNION {Units(x.at, x.units) : x \in blocks} = {Arena} \cup UNION {UnitsOf(k) : k \in slobs}
      /\ slobs \subseteq pages
      /\ \A i, j \in DOMAIN big :
           /\ Run(big[i].page, big[i].order) \subseteq pages \ slobs
           /\ big[i].size < (PageSize + 1) * 2 ^ big[i].order
           /\ i # j => Run(big[i].page, big[i].order) \cap Run(big[j].page, big[j].order) = {}
=============================================================================
