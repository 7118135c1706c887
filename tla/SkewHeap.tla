------------------------------ MODULE SkewHeap ------------------------------
(***************************************************************************)
(* The skew heap of lab8/libs/skew_heap.h.  A heap is a record of the left,*)
(* right and parent links of all nodes; those of a node in no heap are     *)
(* NULL.  less holds the pairs <<a, b>> with comp(a, b) == -1.             *)
(***************************************************************************)
EXTENDS Naturals, Sequences

CONSTANTS
  Nodes,  \* the entries
  NULL    \* no node

ASSUME NullAssumption == NULL \notin Nodes

Links == [Nodes -> Nodes \cup {NULL}]
Heaps == [left : Links, right : Links, parent : Links]

EmptyHeap ==
  LET none == [x \in Nodes |-> NULL]
  IN  [left |-> none, right |-> none, parent |-> none]

\* x gets the children l and r; the left one is told its parent.
Adopt(h, x, l, r) ==
  [left   |-> [h.left EXCEPT ![x] = l],
   right  |-> [h.right EXCEPT ![x] = r],
   parent |-> IF l = NULL THEN h.parent ELSE [h.parent EXCEPT ![l] = x]]

\* skew_heap_merge(): the heap with a and b merged, and the top of the result.
\* The children of the new top change sides.
RECURSIVE Merge(_, _, _, _)
Merge(less, h, a, b) ==
  IF a = NULL \/ b = NULL THEN [heap |-> h, top |-> IF a = NULL THEN b ELSE a]
  ELSE LET first == IF <<a, b>> \in less THEN a ELSE b
           other == IF first = a THEN b ELSE a
           sub   == IF first = a THEN Merge(less, h, h.right[a], b)
                                 ELSE Merge(less, h, a, h.right[b])
       IN  [heap |-> Adopt(sub.heap, first, sub.top, h.left[first]), top |-> first]

\* skew_heap_init() of x.
Cleared(h, x) ==
  [left   |-> [h.left EXCEPT ![x] = NULL],
   right  |-> [h.right EXCEPT ![x] = NULL],
   parent |-> [h.parent EXCEPT ![x] = NULL]]

\* skew_heap_insert().
Insert(less, h, top, b) == Merge(less, Cleared(h, b), top, b)

\* Fault: what replaces a removed node keeps the removed node as its parent.
ReplaceStale(h, b, rep) == h

\* The node rep, made of the children of b, takes the place of b.
Replace(h, b, rep) ==
  LET p == h.parent[b]
  IN  [left   |-> IF p # NULL /\ h.left[p] = b THEN [h.left EXCEPT ![p] = rep] ELSE h.left,
       right  |-> IF p # NULL /\ h.left[p] # b THEN [h.right EXCEPT ![p] = rep] ELSE h.right,
       parent |-> IF rep = NULL THEN h.parent ELSE [h.parent EXCEPT ![rep] = p]]

\* skew_heap_remove().  The code leaves the links of b as they are; nobody reads
\* them before skew_heap_insert() clears them, so they are cleared here already.
Remove(less, h, top, b) ==
  LET m == Merge(less, h, h.left[b], h.right[b])
  IN  [heap |-> Cleared(Replace(m.heap, b, m.top), b),
       top  |-> IF h.parent[b] = NULL THEN m.top ELSE top]

\* The nodes at or below x, each as often as it is reached; the fuel ends the
\* walk should the links form a cycle.
RECURSIVE Reached(_, _, _)
Reached(h, x, fuel) ==
  IF x = NULL \/ fuel = 0 THEN << >>
  ELSE <<x>> \o Reached(h, h.left[x], fuel - 1) \o Reached(h, h.right[x], fuel - 1)
=============================================================================
