-------------------------------- MODULE Buddy --------------------------------
(***************************************************************************)
(* The buddy allocator of physical pages, lab2/kern/mm/buddy.c.  Node 1 is *)
(* the root of a full binary tree over the pages, node b has the children  *)
(* 2b and 2b + 1.  record[b] is the bitwise or of the lengths of the free  *)
(* blocks below b, and of an entirely free node its length.                *)
(*                                                                         *)
(* The record area takes the first pages of memory; the tree may be larger *)
(* than what is left, and pages that do not exist look allocated.          *)
(***************************************************************************)
EXTENDS Integers, Sequences, FiniteSets, SequencesExt, FiniteSetsExt

CONSTANTS
  FullSize,   \* full_tree_size, a power of two
  Entries,    \* the records that a page has room for
  Totals      \* the sizes of memory that are tried, in pages

VARIABLES
  total,     \* total_size
  record,    \* record_area
  linked,    \* how often free_list has each page; nothing reads the order of the list
  nrFree,    \* nr_free
  held       \* what callers were given: [at, n], n rounded up

vars == <<total, record, linked, nrFree, held>>

Nodes  == 1 .. 2 * FullSize - 1
Root   == 1
Levels == CHOOSE k \in 0 .. FullSize : 2 ^ k = FullSize

\* POWER_ROUND_DOWN, POWER_REMAINDER and POWER_ROUND_UP
Powers == {2 ^ k : k \in 0 .. Levels + 1}
RoundDown(a) == Max({p \in Powers : p <= a})
Remainder(a) == a - RoundDown(a)
RoundUp(a)   == IF Remainder(a) = 0 THEN a ELSE 2 * RoundDown(a)

\* The tree of less than a page of records must fit there: buddy_init_memmap() takes
\* one page for it, also from half that size on, where it needs two.
ConstantsOK ==
  /\ \E k \in 0 .. FullSize : FullSize = 2 ^ k
  /\ Entries \in Nat \ {0} /\ Totals \subseteq Nat \ {0, 1}
  /\ \A n \in Totals : n < Entries => 2 * RoundUp(n - 1) <= Entries

NodeLength(b)    == FullSize \div RoundDown(b)
NodeBeginning(b) == Remainder(b) * NodeLength(b)
BuddyBlock(at, n) == FullSize \div n + at \div n

BuddyEmpty(rec, b) == rec[b] = NodeLength(b)

\* list_add() and list_del(); every node in question is linked once, or not at all.
Added(list, at)   == [list EXCEPT ![at] = @ + 1]
Removed(list, at) == [list EXCEPT ![at] = @ - 1]

\* buddy_init_memmap(): real is cut into powers of two from left to right.
InitState(size) ==
  LET cut[k \in 0 .. Levels] ==     \* the state of the loop after k rounds
        IF k = 0
        THEN [block |-> Root, rest |-> size, full |-> FullSize,
              list |-> [x \in 0 .. FullSize - 1 |-> 0],
              rec |-> [b \in Nodes |-> IF b = Root THEN size ELSE 0]]
        ELSE LET s    == cut[k - 1]
                 half == s.full \div 2
                 l    == 2 * s.block
             IN  IF s.rest = s.full THEN s
                 ELSE IF s.rest > half
                 THEN [block |-> l + 1, rest |-> s.rest - half, full |-> half,
                       list |-> Added(s.list, NodeBeginning(s.block)),
                       rec |-> [s.rec EXCEPT ![l] = half, ![l + 1] = s.rest - half]]
                 ELSE [s EXCEPT !.block = l, !.full = half, !.rec[l] = s.rest]
  IN  [record |-> cut[Levels].rec,
       list |-> Added(cut[Levels].list, NodeBeginning(cut[Levels].block))]

\* The sizes that buddy_init_memmap() computes for n pages.
Layout(n) ==
  LET full == RoundDown(n)
      area == (full * 2) \div Entries
      k    == IF n > full + 2 * area THEN 2 ELSE 1
      Cut(f, a) == [full |-> f, area |-> a, real |-> Min({f, n - a})]
  IN  IF n < Entries THEN Cut(RoundUp(n - 1), 1) ELSE Cut(k * full, k * area)

real == Layout(total).real

Init ==
  \E n \in Totals, size \in 1 .. FullSize :
    /\ Layout(n).full = FullSize /\ Layout(n).real = size
    /\ total = n
    /\ record = InitState(size).record /\ linked = InitState(size).list
    /\ nrFree = size
    /\ held = {}

-----------------------------------------------------------------------------
\* The nodes above b, from its parent to the root.
Depth(b) == CHOOSE k \in 0 .. Levels : 2 ^ k = RoundDown(b)
Path(b)  == [k \in 1 .. Depth(b) |-> b \div 2 ^ k]

\* length & mask, for a power of two.
HasLength(mask, length) == (mask \div length) % 2 = 1

\* m | n
Or(m, n) == SumSet({p \in Powers : HasLength(m, p) \/ HasLength(n, p)})

\* One round of the loop in buddy_allocate_pages() for length pages: an entirely
\* free block is split; else an exact fit is preferred, then the left child.
Down(s, length) ==
  LET l == 2 * s.block  r == l + 1
      begin == NodeBeginning(s.block)
      half  == s.rec[s.block] \div 2
  IN  IF BuddyEmpty(s.rec, s.block)
      THEN [block |-> l, rec |-> [s.rec EXCEPT ![l] = half, ![r] = half],
            list  |-> Added(Added(Removed(s.list, begin), begin), NodeBeginning(r))]
      ELSE [s EXCEPT !.block = IF HasLength(s.rec[l], length) THEN l
                               ELSE IF HasLength(s.rec[r], length) THEN r
                               ELSE IF length <= s.rec[l] THEN l ELSE r]

Found(length) ==
  LET at[k \in 0 .. Levels] ==
        IF k = 0 THEN [block |-> Root, rec |-> record, list |-> linked]
        ELSE LET s == at[k - 1]
             IN  IF length <= s.rec[s.block] /\ length < NodeLength(s.block)
                 THEN Down(s, length) ELSE s
  IN  at[Levels]

\* The records of the nodes above b, after an allocation.
Up(rec, b) ==
  FoldLeft(LAMBDA r, a : [r EXCEPT ![a] = Or(r[2 * a], r[2 * a + 1])], rec, Path(b))

\* buddy_allocate_pages(n); it returns NULL when the block it comes to is too small,
\* which is the root then.
Alloc(n) ==
  LET length == RoundUp(n)
  IN  \E s \in {Found(length)} :
        /\ length <= s.rec[s.block]
        /\ record' = Up([s.rec EXCEPT ![s.block] = 0], s.block)
        /\ linked' = Removed(s.list, NodeBeginning(s.block))
        /\ nrFree' = nrFree - length
        /\ held' = held \cup {[at |-> NodeBeginning(s.block), n |-> length]}
  /\ UNCHANGED total

\* Fault: only the left half is asked whether it is free.
JoinLeft(s, a) ==
  LET l == 2 * a  r == l + 1
  IN  IF BuddyEmpty(s.rec, l)
      THEN [rec  |-> [s.rec EXCEPT ![a] = 2 * s.rec[l]],
            list |-> Added(Removed(Removed(s.list, NodeBeginning(l)), NodeBeginning(r)),
                           NodeBeginning(l))]
      ELSE [s EXCEPT !.rec[a] = Or(s.rec[l], s.rec[r])]

\* The node a, below which something became free.
Join(s, a) ==
  LET l == 2 * a  r == l + 1
  IN  IF BuddyEmpty(s.rec, l) /\ BuddyEmpty(s.rec, r)
      THEN [rec  |-> [s.rec EXCEPT ![a] = 2 * s.rec[l]],
            list |-> Added(Removed(Removed(s.list, NodeBeginning(l)), NodeBeginning(r)),
                           NodeBeginning(l))]
      ELSE [s EXCEPT !.rec[a] = Or(s.rec[l], s.rec[r])]

\* buddy_free_pages(base, n), of what was allocated at once with the same n.
Free(h) ==
  LET block == BuddyBlock(h.at, h.n)
  IN  /\ \E s \in {FoldLeft(Join, [rec  |-> [record EXCEPT ![block] = h.n],
                                   list |-> Added(linked, h.at)], Path(block))} :
           record' = s.rec /\ linked' = s.list
      /\ nrFree' = nrFree + h.n
      /\ held' = held \ {h}
      /\ UNCHANGED total

Next == \E n \in 1 .. FullSize : Alloc(n) \/ \E h \in held : Free(h)

Spec == Init /\ [][Next]_vars

-----------------------------------------------------------------------------
\* The blocks that are free, as the tree has them.  What it says below a block that
\* is entirely free or entirely in use is left over from earlier.
Split(b) == record[b] # 0 /\ ~ BuddyEmpty(record, b)

FreeNodes ==
  {b \in Nodes : BuddyEmpty(record, b) /\ \A k \in DOMAIN Path(b) : Split(Path(b)[k])}

PagesOf(at, n) == at .. at + n - 1
FreePages == UNION {PagesOf(NodeBeginning(b), NodeLength(b)) : b \in FreeNodes}

\* Nothing is handed out twice or lost: free blocks and blocks in use, each as long
\* as its power of two and aligned to it, are disjoint and together all the pages
\* there are behind the record area, which has room for all nodes.  The list has
\* the free blocks, once each; two halves of a block are never both free; a
\* request is refused only when no free block is long enough
\* (buddy.c, buddy_allocate_pages and buddy_free_pages; alloc_check).
BuddyExact ==
  LET blocks == {[at |-> NodeBeginning(b), n |-> NodeLength(b)] : b \in FreeNodes}
                \cup held
  IN  /\ Layout(total).area * Entries >= 2 * FullSize
      /\ real + Layout(total).area <= total
      /\ \A x, y \in blocks : x # y => PagesOf(x.at, x.n) \cap PagesOf(y.at, y.n) = {}
      /\ UNION {PagesOf(x.at, x.n) : x \in blocks} = 0 .. real - 1
      /\ Cardinality(blocks) = Cardinality(FreeNodes) + Cardinality(held)
      /\ \A x \in blocks : x.at % x.n = 0
      /\ \A at \in DOMAIN linked :
           linked[at] = Cardinality({b \in FreeNodes : NodeBeginning(b) = at})
      /\ nrFree = Cardinality(FreePages)
      /\ \A b \in Nodes : 2 * b \in FreeNodes => 2 * b + 1 \notin FreeNodes
      /\ \A n \in 1 .. FullSize :
           (\E b \in FreeNodes : NodeLength(b) >= n) <=> (RoundUp(n) <= record[Root])
=============================================================================
