----------------------------- MODULE PageProofs -----------------------------
(***************************************************************************)
(* Proofs about pages.  For any number of pages, the lists of FirstFit and *)
(* BestFit are exact and both serve a request as they promise, provided    *)
(* that the last page is never handed out (AmpleMemory).  load_icode()     *)
(* (ElfLoad) puts a segment and arguments, wherever they begin and end,    *)
(* into pages as they are.  A page (Swap) reads what was written to it,    *)
(* whichever page the manager has put out since.                           *)
(*                                                                         *)
(* The argument about the lists has three layers: the links (Threaded),    *)
(* the lengths (Tiled, Apart), and the list of blocks that both make up    *)
(* (BlocksOK).  Linking and unlinking are lemmas about links alone,        *)
(* cutting and joining about lengths alone, and the steps put the two      *)
(* together.                                                               *)
(***************************************************************************)
EXTENDS BestFit, Loops, FiniteSetTheorems, SequenceTheorems, TLAPS

CONSTANTS ElfPage, Long, IntBytes, MaxVa, MaxSize, ArgLengths, Virt, Phys, Values
VARIABLES seg, pages, start, la, offset, loading, stack, manager, pte, held, vaddr, pra, hand,
  visited, disk

Elf == INSTANCE ElfLoad WITH PB <- ElfPage, phase <- loading
Sw  == INSTANCE Swap

\* at is the walk along the list, N steps from its head.
Places(l, at) ==
  /\ at \in [0 .. N -> 0 .. N]
  /\ at[0] = FreeList
  /\ \A k \in 1 .. N : at[k] = l.next[at[k - 1]]

\* The entries that Chain gives are the places of a walk from the head.
LEMMA ChainPlaces ==
  ASSUME ConstantsOK, NEW l, l.next \in [0 .. N -> 0 .. N]
  PROVE  \E at : /\ Places(l, at)
                 /\ LET ends == {k \in 1 .. N : at[k] = FreeList}
                    IN  Chain(l) = [k \in 1 .. (IF ends = {} THEN N ELSE Min(ends) - 1)
                                      |-> at[k]]
<1> DEFINE f == CHOOSE at : at = [k \in 0 .. N |-> IF k = 0 THEN FreeList ELSE l.next[at[k - 1]]]
<1>1. N \in Nat /\ FreeList \in 0 .. N
  BY DEF ConstantsOK, FreeList
<1> PICK nx \in [0 .. N -> 0 .. N] : nx = l.next
  OBVIOUS
<1>2. PICK g \in [0 .. N -> 0 .. N] :
        g[0] = FreeList /\ \A k \in 1 .. N : g[k] = nx[g[k - 1]]
  <2> HIDE DEF f
  <2>1. 0 \in 0 .. N /\ N \in Nat
    BY <1>1 DEF FreeList
  <2>2. PICK step \in [Nat \X (0 .. N) -> 0 .. N] :
          \A k \in Nat, v \in 0 .. N : step[<<k, v>>] = nx[v]
    <3>1. [a \in Nat \X (0 .. N) |-> nx[a[2]]] \in [Nat \X (0 .. N) -> 0 .. N]
      OBVIOUS
    <3> QED BY <3>1
  <2>3. PICK g : Walk(0 .. N, step, 0, N, g)
    BY <2>1, Repeats
  <2>4. \A k \in 1 .. N : k \in Nat /\ g[k - 1] \in 0 .. N
    <3>1. g \in [0 .. N -> 0 .. N]
      BY <2>3 DEF Walk
    <3>2. \A k \in 1 .. N : k \in Nat /\ k - 1 \in 0 .. N
      BY <2>1
    <3> QED BY <3>1, <3>2
  <2> QED BY <2>2, <2>3, <2>4, ZenonT(30) DEF Walk, FreeList
<1>3. g = [k \in 0 .. N |-> IF k = 0 THEN FreeList ELSE l.next[g[k - 1]]]
  <2> HIDE DEF f
  <2>1. \A k \in 0 .. N : g[k] = IF k = 0 THEN FreeList ELSE nx[g[k - 1]]
    <3> SUFFICES ASSUME NEW k \in 0 .. N
                 PROVE  g[k] = IF k = 0 THEN FreeList ELSE nx[g[k - 1]]
      OBVIOUS
    <3>1. k # 0 => k \in 1 .. N
      BY <1>1
    <3> QED BY <1>2, <3>1
  <2>2. g = [k \in 0 .. N |-> g[k]]
    OBVIOUS
  <2> QED BY <2>1, <2>2
<1>4. f = [k \in 0 .. N |-> IF k = 0 THEN FreeList ELSE l.next[f[k - 1]]]
  BY <1>3, Zenon
<1>5. Chain(l) = LET ends == {k \in 1 .. N : f[k] = FreeList}
                 IN  [k \in 1 .. (IF ends = {} THEN N ELSE Min(ends) - 1) |-> f[k]]
  BY Zenon DEF Chain
<1> HIDE DEF f
<1>6. Places(l, f)
  <2>1. f[0] = FreeList /\ \A k \in 1 .. N : f[k] = l.next[f[k - 1]]
    <3>1. 0 \in 0 .. N /\ \A k \in 1 .. N : k \in 0 .. N /\ k # 0
      BY <1>1
    <3>2. \A k \in 0 .. N : f[k] = IF k = 0 THEN FreeList ELSE l.next[f[k - 1]]
      BY <1>4
    <3> QED BY <3>1, <3>2
  <2> DEFINE T == {k \in 0 .. N : f[k] \notin 0 .. N}
  <2>2. T = {}
    <3> SUFFICES ASSUME T # {} PROVE FALSE
      OBVIOUS
    <3>1. PICK k \in T : \A j \in T : k <= j
      BY LeastOf, T \in SUBSET Nat, <1>1
    <3>2. k # 0
      BY <3>1, <2>1, <1>1
    <3>3. k - 1 \in 0 .. N /\ k - 1 \notin T /\ k \in 1 .. N
      BY <3>1, <3>2, <1>1
    <3>4. f[k - 1] \in 0 .. N
      BY <3>3
    <3> QED BY <2>1, <3>1, <3>3, <3>4
  <2>3. \A k \in 0 .. N : f[k] \in 0 .. N
    BY <2>2
  <2>4. f \in [0 .. N -> 0 .. N]
    BY <1>4, <2>3
  <2> QED BY <2>1, <2>4 DEF Places
<1> QED BY <1>5, <1>6, Zenon

-----------------------------------------------------------------------------
(* The links. *)

\* nx leads through the pages of S, from low to high, and pv leads back; 0 is the head.
Threaded(nx, pv, S) ==
  /\ \A x \in S \cup {0} : nx[x] \in S \cup {0} /\ pv[nx[x]] = x
  /\ \A x \in S \cup {0} : pv[x] \in S \cup {0} /\ nx[pv[x]] = x
  /\ \A x \in S \cup {0} : nx[x] # 0 => x < nx[x]
  /\ \A x \in S \cup {0}, q \in S : x < q => nx[x] # 0 /\ nx[x] <= q

\* nx2 and pv2 go past e, where nx and pv go through it.
GoPast(nx, pv, S, e, nx2, pv2) ==
  \A x \in S \cup {0} : /\ nx2[x] = IF x = pv[e] THEN nx[e] ELSE nx[x]
                       /\ pv2[x] = IF x = nx[e] THEN pv[e] ELSE pv[x]

\* The neighbours of a page that list_del() takes out are linked, and the rest stays
\* as it was (list.h).
LEMMA ThreadedWithout ==
  ASSUME NEW S \in SUBSET (Nat \ {0}), NEW nx, NEW pv, Threaded(nx, pv, S),
         NEW e \in S, NEW nx2, NEW pv2, GoPast(nx, pv, S, e, nx2, pv2)
  PROVE  Threaded(nx2, pv2, S \ {e}) /\ pv[e] # e /\ nx[e] # e
<1>0. \A x \in S \cup {0} : /\ nx2[x] = IF x = pv[e] THEN nx[e] ELSE nx[x]
                           /\ pv2[x] = IF x = nx[e] THEN pv[e] ELSE pv[x]
  BY DEF GoPast
<1>1. \A x \in S \cup {0} : x \in Nat
  OBVIOUS
<1>2. pv[e] \in S \cup {0} /\ nx[e] \in S \cup {0} /\ nx[pv[e]] = e /\ pv[nx[e]] = e
  BY DEF Threaded
<1>3. nx[e] # e /\ pv[e] # e
  BY <1>1, <1>2 DEF Threaded
<1>4. ASSUME NEW x \in (S \ {e}) \cup {0}
      PROVE  nx2[x] \in (S \ {e}) \cup {0} /\ pv2[nx2[x]] = x
  <2>1. x \in S \cup {0} /\ x # e
    OBVIOUS
  <2>2. nx[x] \in S \cup {0} /\ pv[nx[x]] = x
    BY <2>1 DEF Threaded
  <2> QED BY <1>0, <1>2, <1>3, <2>1, <2>2
<1>5. ASSUME NEW x \in (S \ {e}) \cup {0}
      PROVE  pv2[x] \in (S \ {e}) \cup {0} /\ nx2[pv2[x]] = x
  <2>1. x \in S \cup {0} /\ x # e
    OBVIOUS
  <2>2. pv[x] \in S \cup {0} /\ nx[pv[x]] = x
    BY <2>1 DEF Threaded
  <2> QED BY <1>0, <1>2, <1>3, <2>1, <2>2
<1>6. ASSUME NEW x \in (S \ {e}) \cup {0}
      PROVE  nx2[x] # 0 => x < nx2[x]
  <2>1. x \in S \cup {0} /\ x # e /\ x \in Nat /\ e \in Nat /\ e # 0
    OBVIOUS
  <2>2. nx[x] # 0 => x < nx[x]
    BY <2>1 DEF Threaded
  <2>3. nx[e] # 0 => e < nx[e]
    BY DEF Threaded
  <2>4. nx[e] \in Nat
    BY <1>1, <1>2
  <2> QED BY <1>0, <1>2, <2>1, <2>2, <2>3, <2>4
<1>7. ASSUME NEW x \in (S \ {e}) \cup {0}, NEW q \in S \ {e}, x < q
      PROVE  nx2[x] # 0 /\ nx2[x] <= q
  <2>1. x \in S \cup {0} /\ x # e /\ x \in Nat /\ e \in Nat /\ q \in Nat /\ q \in S /\ q # e
    OBVIOUS
  <2>2. nx[x] # 0 /\ nx[x] <= q
    BY <1>7, <2>1 DEF Threaded
  <2>3. e < q => nx[e] # 0 /\ nx[e] <= q
    BY <2>1 DEF Threaded
  <2>4. nx[e] \in Nat /\ nx[x] \in Nat
    BY <1>1, <1>2, <2>1 DEF Threaded
  <2> QED BY <1>0, <1>2, <2>1, <2>2, <2>3, <2>4
<1> QED BY <1>3, <1>4, <1>5, <1>6, <1>7 DEF Threaded

\* nx2 and pv2 go through e, which comes behind p, where nx and pv go past it.
GoThrough(nx, pv, S, e, p, nx2, pv2) ==
  \A x \in S \cup {0, e} :
    /\ nx2[x] = IF x = e THEN nx[p] ELSE IF x = p THEN e ELSE nx[x]
    /\ pv2[x] = IF x = e THEN p ELSE IF x = nx[p] THEN e ELSE pv[x]

\* A page linked between two neighbours in its place keeps the list sorted (list.h,
\* __list_add).
LEMMA ThreadedWith ==
  ASSUME NEW S \in SUBSET (Nat \ {0}), NEW nx, NEW pv, Threaded(nx, pv, S),
         NEW e \in Nat \ {0}, e \notin S, NEW p \in S \cup {0}, p < e,
         nx[p] = 0 \/ e < nx[p],
         NEW nx2, NEW pv2, GoThrough(nx, pv, S, e, p, nx2, pv2)
  PROVE  Threaded(nx2, pv2, S \cup {e})
<1>0. \A x \in S \cup {0, e} :
        /\ nx2[x] = IF x = e THEN nx[p] ELSE IF x = p THEN e ELSE nx[x]
        /\ pv2[x] = IF x = e THEN p ELSE IF x = nx[p] THEN e ELSE pv[x]
  BY DEF GoThrough
<1>1. \A x \in S \cup {0, e} : x \in Nat
  OBVIOUS
<1>2. nx[p] \in S \cup {0} /\ pv[nx[p]] = p /\ nx[p] # e /\ p # e
  BY <1>1 DEF Threaded
<1>4. ASSUME NEW x \in S \cup {e} \cup {0}
      PROVE  nx2[x] \in S \cup {e} \cup {0} /\ pv2[nx2[x]] = x
  <2>2. x # e => x \in S \cup {0} /\ nx[x] \in S \cup {0} /\ pv[nx[x]] = x
    BY DEF Threaded
  <2> QED BY <1>0, <1>2, <2>2
<1>5. ASSUME NEW x \in S \cup {e} \cup {0}
      PROVE  pv2[x] \in S \cup {e} \cup {0} /\ nx2[pv2[x]] = x
  <2>2. x # e => x \in S \cup {0} /\ pv[x] \in S \cup {0} /\ nx[pv[x]] = x
    BY DEF Threaded
  <2> QED BY <1>0, <1>2, <2>2
<1>6. ASSUME NEW x \in S \cup {e} \cup {0}
      PROVE  nx2[x] # 0 => x < nx2[x]
  <2>2. x # e => x \in S \cup {0} /\ (nx[x] # 0 => x < nx[x])
    BY DEF Threaded
  <2>4. x \in Nat /\ p \in Nat
    OBVIOUS
  <2> QED BY <1>0, <1>2, <2>2, <2>4
<1>7. ASSUME NEW x \in S \cup {e} \cup {0}, NEW q \in S \cup {e}, x < q
      PROVE  nx2[x] # 0 /\ nx2[x] <= q
  <2>1. x \in Nat /\ p \in Nat /\ q \in Nat /\ nx[p] \in Nat
    BY <1>1, <1>2
  <2>2. CASE x = e
    <3>1. q \in S /\ p < q
      BY <1>7, <2>1, <2>2
    <3> QED BY <1>0, <1>2, <2>1, <2>2, <3>1 DEF Threaded
  <2>3. CASE x = p
    <3>1. q = e \/ (nx[p] # 0 /\ nx[p] <= q)
      BY <1>7, <2>3 DEF Threaded
    <3> QED BY <1>0, <1>2, <2>1, <2>3, <3>1
  <2>4. CASE x # e /\ x # p
    <3>1. x \in S \cup {0} /\ nx2[x] = nx[x]
      BY <1>0, <2>4
    <3>2. CASE q \in S
      BY <1>7, <3>1, <3>2 DEF Threaded
    <3>3. CASE q = e
      <4>1. p < x => nx[p] # 0 /\ nx[p] <= x
        BY <2>4, <3>1, <2>1 DEF Threaded
      <4>2. x < p
        BY <1>7, <2>1, <2>4, <3>3, <4>1
      <4>3. p \in S
        BY <2>1, <4>2
      <4>4. nx[x] # 0 /\ nx[x] <= p /\ nx[x] \in Nat
        BY <1>1, <3>1, <4>2, <4>3 DEF Threaded
      <4> QED BY <2>1, <3>1, <3>3, <4>4
    <3> QED BY <3>2, <3>3
  <2> QED BY <2>2, <2>3, <2>4
<1> QED BY <1>4, <1>5, <1>6, <1>7 DEF Threaded

LinkType == [next : [0 .. N -> 0 .. N], prev : [0 .. N -> 0 .. N]]

\* list_del() takes one page out and leaves the others linked (list.h).
LEMMA DelThreaded ==
  ASSUME ConstantsOK, NEW S \in SUBSET Pages, NEW l \in LinkType,
         Threaded(l.next, l.prev, S), NEW e \in S
  PROVE  /\ ListDel(l, e) \in LinkType
         /\ Threaded(ListDel(l, e).next, ListDel(l, e).prev, S \ {e})
         /\ ListDel(l, e).next[l.prev[e]] = l.next[e]
         /\ l.prev[e] \in (S \ {e}) \cup {0}
         /\ l.next[e] \in (S \ {e}) \cup {0}
<1>1. S \in SUBSET (Nat \ {0}) /\ \A x \in S \cup {0} : x \in 0 .. N
  BY DEF ConstantsOK, Pages
<1>2. PICK nx, pv : nx = l.next /\ pv = l.prev
  OBVIOUS
<1>3. nx \in [0 .. N -> 0 .. N] /\ pv \in [0 .. N -> 0 .. N]
  BY <1>2 DEF LinkType
<1>4. PICK nx2, pv2 : nx2 = [nx EXCEPT ![pv[e]] = nx[e]] /\ pv2 = [pv EXCEPT ![nx[e]] = pv[e]]
  OBVIOUS
<1>5. ListDel(l, e) = [next |-> nx2, prev |-> pv2]
  BY <1>2, <1>4 DEF ListDel
<1>6. pv[e] \in S \cup {0} /\ nx[e] \in S \cup {0}
  BY <1>2 DEF Threaded
<1>7. nx2 \in [0 .. N -> 0 .. N] /\ pv2 \in [0 .. N -> 0 .. N]
  BY <1>1, <1>3, <1>4, <1>6
<1>8. GoPast(nx, pv, S, e, nx2, pv2)
  BY <1>1, <1>3, <1>4 DEF GoPast
<1>9. Threaded(nx2, pv2, S \ {e}) /\ pv[e] # e /\ nx[e] # e
  <2>1. Threaded(nx, pv, S)
    BY <1>2
  <2> QED BY <1>1, <1>8, <2>1, ThreadedWithout, Zenon
<1> QED BY <1>2, <1>5, <1>6, <1>7, <1>8, <1>9 DEF LinkType, GoPast

\* __list_add() links a page between p and what follows p (list.h).
LEMMA InsertThreaded ==
  ASSUME ConstantsOK, NEW S \in SUBSET Pages, NEW l \in LinkType,
         Threaded(l.next, l.prev, S), NEW e \in Pages, e \notin S,
         NEW p \in S \cup {0}, p < e, l.next[p] = 0 \/ e < l.next[p]
  PROVE  /\ ListInsert(l, e, p, l.next[p]) \in LinkType
         /\ Threaded(ListInsert(l, e, p, l.next[p]).next,
                     ListInsert(l, e, p, l.next[p]).prev, S \cup {e})
<1>1. S \in SUBSET (Nat \ {0}) /\ e \in Nat \ {0} /\ \A x \in S \cup {0, e} : x \in 0 .. N
  BY DEF ConstantsOK, Pages
<1>2. PICK nx, pv : nx = l.next /\ pv = l.prev
  OBVIOUS
<1>3. nx \in [0 .. N -> 0 .. N] /\ pv \in [0 .. N -> 0 .. N]
  BY <1>2 DEF LinkType
<1>4. PICK nx2, pv2 : /\ nx2 = [nx EXCEPT ![p] = e, ![e] = nx[p]]
                      /\ pv2 = [pv EXCEPT ![nx[p]] = e, ![e] = p]
  OBVIOUS
<1>5. ListInsert(l, e, p, l.next[p]) = [next |-> nx2, prev |-> pv2]
  BY <1>2, <1>4 DEF ListInsert
<1>6. nx[p] \in S \cup {0} /\ p # e
  BY <1>2 DEF Threaded
<1>7. nx2 \in [0 .. N -> 0 .. N] /\ pv2 \in [0 .. N -> 0 .. N]
  BY <1>1, <1>3, <1>4, <1>6
<1>8. GoThrough(nx, pv, S, e, p, nx2, pv2)
  BY <1>1, <1>3, <1>4, <1>6 DEF GoThrough
<1>9. Threaded(nx2, pv2, S \cup {e})
  <2>1. Threaded(nx, pv, S) /\ (nx[p] = 0 \/ e < nx[p])
    BY <1>2
  <2> QED BY <1>1, <1>8, <2>1, ThreadedWith, Zenon
<1> QED BY <1>5, <1>7, <1>9 DEF LinkType

\* c goes through S from low to high.
Lists(c, S) ==
  /\ DOMAIN c = 1 .. Len(c) /\ Len(c) \in Nat
  /\ \A k \in 1 .. Len(c) : c[k] \in S
  /\ \A q \in S : \E k \in 1 .. Len(c) : c[k] = q
  /\ \A j, k \in 1 .. Len(c) : j < k => c[j] < c[k]

\* A loop over a sorted list meets every page of it once and comes back to the head.
LEMMA ChainLists ==
  ASSUME ConstantsOK, NEW S \in SUBSET Pages, NEW l \in LinkType,
         Threaded(l.next, l.prev, S)
  PROVE  Lists(Chain(l), S)
<1>1. N \in Nat /\ (\A x \in S \cup {0} : x \in Nat) /\ \A x \in S : x <= N /\ x # 0
  BY DEF ConstantsOK, Pages
<1>2. PICK nx : nx = l.next
  OBVIOUS
<1>3. PICK at : /\ Places(l, at)
                /\ LET ends == {k \in 1 .. N : at[k] = FreeList}
                   IN  Chain(l) = [k \in 1 .. (IF ends = {} THEN N ELSE Min(ends) - 1) |-> at[k]]
  BY ChainPlaces DEF LinkType
<1>4. at[0] = 0 /\ \A k \in 1 .. N : at[k] = nx[at[k - 1]]
  BY <1>2, <1>3 DEF Places, FreeList
<1>5. /\ \A x \in S \cup {0} : nx[x] \in S \cup {0}
      /\ \A x \in S \cup {0} : nx[x] # 0 => x < nx[x]
      /\ \A x \in S \cup {0}, q \in S : x < q => nx[x] # 0 /\ nx[x] <= q
  BY <1>2 DEF Threaded
<1>6. \A k \in 0 .. N : at[k] \in S \cup {0}
  <2> DEFINE P == {k \in 0 .. N : at[k] \in S \cup {0}}
  <2>1. 0 \in P
    BY <1>1, <1>4
  <2>2. ASSUME NEW k \in 1 .. N, k - 1 \in P PROVE k \in P
    <3>1. k \in 0 .. N
      BY <1>1
    <3> QED BY <1>4, <1>5, <2>2, <3>1
  <2> HIDE DEF P
  <2>3. \A k \in 0 .. N : k \in P
    BY <1>1, <2>1, <2>2, EveryRound
  <2> QED BY <2>3 DEF P
<1> DEFINE ends == {k \in 1 .. N : at[k] = 0}
<1>7. PICK n : n = IF ends = {} THEN N ELSE Min(ends) - 1
  OBVIOUS
<1>8. Chain(l) = [k \in 1 .. n |-> at[k]]
  BY <1>3, <1>7 DEF FreeList
<1>9. n \in 0 .. N /\ (\A k \in 1 .. n : at[k] # 0) /\ (n < N => at[n + 1] = 0)
  <2>1. CASE ends = {}
    BY <1>1, <1>7, <2>1
  <2>2. CASE ends # {}
    <3>1. Min(ends) \in ends /\ \A y \in ends : Min(ends) <= y
      BY <2>2, LeastOf
    <3>2. PICK m \in ends : m = Min(ends)
      BY <3>1
    <3>3. m \in 1 .. N /\ at[m] = 0 /\ n = m - 1 /\ \A y \in ends : m <= y
      BY <1>7, <2>2, <3>1, <3>2
    <3>4. ASSUME NEW k \in 1 .. n PROVE at[k] # 0
      <4>1. k \in 1 .. N /\ ~(m <= k)
        BY <1>1, <3>3
      <4> QED BY <3>3, <4>1
    <3> QED BY <1>1, <3>3, <3>4
  <2> QED BY <2>1, <2>2
<1> HIDE DEF ends
<1>10. \A k \in 1 .. n : k \in 1 .. N /\ k - 1 \in 0 .. N /\ at[k] \in S /\ at[k - 1] < at[k]
  <2> SUFFICES ASSUME NEW k \in 1 .. n
               PROVE  k \in 1 .. N /\ k - 1 \in 0 .. N /\ at[k] \in S /\ at[k - 1] < at[k]
    OBVIOUS
  <2>1. k \in 1 .. N /\ k - 1 \in 0 .. N /\ k \in 0 .. N
    BY <1>1, <1>9
  <2>2. at[k] # 0 /\ at[k] \in S /\ at[k] = nx[at[k - 1]]
    BY <1>4, <1>6, <1>9, <2>1
  <2> QED BY <1>5, <1>6, <2>1, <2>2
<1>11. ASSUME NEW j \in 1 .. n, NEW k \in 1 .. n, j < k PROVE at[j] < at[k]
  <2> DEFINE P == {i \in 0 .. n : j < i => at[j] < at[i]}
  <2>1. 0 \in P
    BY <1>9
  <2>2. ASSUME NEW i \in 1 .. n, i - 1 \in P PROVE i \in P
    <3> SUFFICES ASSUME j < i PROVE at[j] < at[i]
      BY <1>9
    <3>0. at[i - 1] < at[i] /\ i \in 0 .. N /\ i - 1 \in 0 .. N /\ j \in 0 .. N
      BY <1>1, <1>9, <1>10
    <3>1. at[i - 1] < at[i] /\ at[i] \in Nat /\ at[i - 1] \in Nat /\ at[j] \in Nat
      BY <1>1, <1>6, <3>0
    <3>2. j = i - 1 \/ j < i - 1
      BY <1>9
    <3>3. j < i - 1 => at[j] < at[i - 1]
      BY <2>2
    <3> QED BY <3>1, <3>2, <3>3
  <2> HIDE DEF P
  <2>3. \A i \in 0 .. n : i \in P
    BY <1>9, <2>1, <2>2, EveryRound
  <2>4. k \in P
    BY <1>9, <2>3
  <2> QED BY <1>11, <2>4 DEF P
<1>12. ASSUME NEW q \in S PROVE \E k \in 1 .. n : at[k] = q
  <2> SUFFICES ASSUME \A k \in 1 .. n : at[k] # q PROVE FALSE
    OBVIOUS
  <2> DEFINE P == {i \in 0 .. n : at[i] < q /\ i <= at[i]}
  <2>0. q \in Nat /\ q # 0 /\ q <= N
    BY <1>1
  <2>1. 0 \in P
    BY <1>4, <1>9, <2>0
  <2>2. ASSUME NEW i \in 1 .. n, i - 1 \in P PROVE i \in P
    <3>1. at[i - 1] < at[i] /\ at[i] \in Nat /\ at[i - 1] \in Nat /\ i - 1 \in 0 .. N
          /\ at[i - 1] \in S \cup {0} /\ i \in 1 .. N
      <4>1. at[i - 1] < at[i] /\ i - 1 \in 0 .. N /\ i \in 0 .. N /\ i \in 1 .. N
        BY <1>1, <1>9, <1>10
      <4> QED BY <1>1, <1>6, <4>1
    <3>2. at[i - 1] < q /\ i - 1 <= at[i - 1]
      BY <2>2
    <3>3. at[i] = nx[at[i - 1]] /\ at[i] <= q /\ at[i] # q
      BY <1>4, <1>5, <3>1, <3>2
    <3> QED BY <1>9, <2>0, <3>1, <3>2, <3>3
  <2> HIDE DEF P
  <2>3. \A i \in 0 .. n : i \in P
    BY <1>9, <2>1, <2>2, EveryRound
  <2>4. n \in P
    BY <1>9, <2>3
  <2>5. at[n] < q /\ n <= at[n] /\ at[n] \in S \cup {0} /\ at[n] \in Nat
    <3>1. at[n] < q /\ n <= at[n]
      BY <2>4 DEF P
    <3> QED BY <1>1, <1>6, <1>9, <3>1
  <2>6. n < N
    BY <1>1, <1>9, <2>0, <2>5
  <2>7. n + 1 \in 1 .. N /\ (n + 1) - 1 = n
    BY <1>1, <1>9, <2>6
  <2>8. at[n + 1] = nx[at[n]]
    BY <1>4, <2>7
  <2>9. nx[at[n]] # 0
    BY <1>5, <2>5
  <2> QED BY <1>9, <2>6, <2>8, <2>9
<1>13. PICK c : c = [k \in 1 .. n |-> at[k]]
  OBVIOUS
<1>14. n \in Nat /\ DOMAIN c = 1 .. n /\ Len(c) = n /\ \A k \in 1 .. n : c[k] = at[k]
  <2>1. n \in Nat /\ DOMAIN c = 1 .. n /\ \A k \in 1 .. n : c[k] = at[k]
    BY <1>9, <1>13
  <2>2. c \in Seq(S)
    BY <1>10, <1>13, <2>1
  <2> QED BY <2>1, <2>2
<1>15. Lists(c, S)
  BY <1>10, <1>11, <1>12, <1>14 DEF Lists
<1> QED BY <1>8, <1>13, <1>15

-----------------------------------------------------------------------------
(* The lengths. *)

\* The pages of F are those of the blocks that begin at S, len[p] pages from p on,
\* and no page is in two of them.
Tiled(len, S, F) ==
  /\ \A p \in S : len[p] \in Nat /\ len[p] > 0
  /\ \A p, q \in S : p < q => p + len[p] <= q
  /\ \A x \in Nat : x \in F <=> \E p \in S : p <= x /\ x < p + len[p]

\* No block begins where another ends.
Apart(len, S) == \A p, q \in S : p + len[p] # q

\* A block begins where another ends only if one of them is b.
ApartBut(len, S, b) == \A p, q \in S : p + len[p] = q => p = b \/ q = b

\* len2 agrees with len on S.
SameAt(len2, len, S) == \A x \in S : len2[x] = len[x]

\* A block of which the first n pages are taken leaves a block of the others, which has
\* not been linked before (default_pmm.c, default_alloc_pages).
LEMMA TiledCut ==
  ASSUME NEW S \in SUBSET Nat, NEW F \in SUBSET Nat, NEW len, Tiled(len, S, F), Apart(len, S),
         NEW p \in S, NEW n \in Nat, n > 0, n < len[p],
         NEW len2, SameAt(len2, len, S \ {p}), len2[p + n] = len[p] - n
  PROVE  /\ p + n \notin S
         /\ Tiled(len2, (S \cup {p + n}) \ {p}, F \ (p .. p + n - 1))
         /\ Apart(len2, (S \cup {p + n}) \ {p})
<1>1. /\ p \in Nat /\ p + n \in Nat /\ len[p] \in Nat /\ len2[p + n] \in Nat
      /\ len2[p + n] > 0 /\ (p + n) + len2[p + n] = p + len[p] /\ p < p + n
      /\ p + n < p + len[p]
  BY DEF Tiled
<1>2. \A x \in S : x \in Nat /\ len[x] \in Nat /\ len[x] > 0
  BY DEF Tiled
<1>3. p + n \notin S
  BY <1>1 DEF Tiled
<1> DEFINE T == (S \cup {p + n}) \ {p}
<1>4. \A x \in T : \/ x = p + n
                   \/ x \in S /\ x # p /\ len2[x] = len[x] /\ x # p + n
  BY <1>3 DEF SameAt
<1>5. p + n \in T /\ \A x \in S \ {p} : x \in T
  BY <1>1
<1>6. ASSUME NEW x \in T PROVE len2[x] \in Nat /\ len2[x] > 0
  BY <1>1, <1>2, <1>4
<1>7. ASSUME NEW x \in T, NEW y \in T, x < y
      PROVE  x + len2[x] <= y /\ x + len2[x] # y
  <2>1. CASE x = p + n
    <3>1. y \in S /\ p < y /\ y \in Nat
      BY <1>1, <1>2, <1>4, <1>7, <2>1
    <3>2. p + len[p] <= y /\ p + len[p] # y
      BY <3>1 DEF Tiled, Apart
    <3> QED BY <1>1, <2>1, <3>2
  <2>2. CASE x \in S /\ x # p /\ len2[x] = len[x] /\ x # p + n
    <3>1. CASE y = p + n
      <4>1. x < p \/ p < x
        BY <1>2, <2>2
      <4>2. p < x => p + len[p] <= x
        BY <2>2 DEF Tiled
      <4>3. x < p
        BY <1>1, <1>2, <1>7, <2>2, <3>1, <4>1, <4>2
      <4>4. x + len[x] <= p
        BY <2>2, <4>3 DEF Tiled
      <4> QED BY <1>1, <1>2, <2>2, <3>1, <4>4
    <3>2. CASE y \in S
      BY <1>7, <2>2, <3>2 DEF Tiled, Apart
    <3> QED BY <1>4, <3>1, <3>2
  <2> QED BY <1>4, <2>1, <2>2
<1>8. ASSUME NEW x \in Nat
      PROVE  x \in F \ (p .. p + n - 1) <=> \E q \in T : q <= x /\ x < q + len2[q]
  <2>1. ASSUME x \in F, x \notin p .. p + n - 1
        PROVE  \E q \in T : q <= x /\ x < q + len2[q]
    <3>1. PICK q \in S : q <= x /\ x < q + len[q]
      BY <2>1 DEF Tiled
    <3>2. CASE q = p
      <4>1. p + n <= x
        BY <1>1, <2>1, <3>1, <3>2
      <4> QED BY <1>1, <1>5, <3>1, <3>2, <4>1
    <3>3. CASE q # p
      BY <1>5, <3>1, <3>3 DEF SameAt
    <3> QED BY <3>2, <3>3
  <2>2. ASSUME NEW q \in T, q <= x, x < q + len2[q]
        PROVE  x \in F /\ x \notin p .. p + n - 1
    <3>1. CASE q = p + n
      <4>1. p <= x /\ x < p + len[p]
        BY <1>1, <2>2, <3>1
      <4> QED BY <1>1, <2>2, <3>1, <4>1 DEF Tiled
    <3>2. CASE q \in S /\ q # p /\ len2[q] = len[q]
      <4>1. x \in F
        BY <2>2, <3>2 DEF Tiled
      <4>2. q < p => q + len[q] <= p
        BY <3>2 DEF Tiled
      <4>3. p < q => p + len[p] <= q
        BY <3>2 DEF Tiled
      <4> QED BY <1>1, <1>2, <2>2, <3>2, <4>1, <4>2, <4>3
    <3> QED BY <1>4, <3>1, <3>2
  <2> QED BY <2>1, <2>2
<1>9. \A x, y \in T : x + len2[x] # y
  <2> SUFFICES ASSUME NEW x \in T, NEW y \in T, x + len2[x] = y PROVE FALSE
    OBVIOUS
  <2>1. x \in Nat /\ len2[x] \in Nat /\ len2[x] > 0
    BY <1>1, <1>6
  <2>2. x < y
    BY <2>1
  <2> QED BY <1>7, <2>2
<1> QED BY <1>3, <1>6, <1>7, <1>8, <1>9 DEF Tiled, Apart

\* A block that is taken as a whole leaves the other blocks as they are.
LEMMA TiledTake ==
  ASSUME NEW S \in SUBSET Nat, NEW F \in SUBSET Nat, NEW len, Tiled(len, S, F), Apart(len, S),
         NEW p \in S
  PROVE  /\ Tiled(len, S \ {p}, F \ (p .. p + len[p] - 1))
         /\ Apart(len, S \ {p})
<1>1. \A x \in S : x \in Nat /\ len[x] \in Nat /\ len[x] > 0
  BY DEF Tiled
<1>2. ASSUME NEW x \in Nat
      PROVE  x \in F \ (p .. p + len[p] - 1) <=> \E q \in S \ {p} : q <= x /\ x < q + len[q]
  <2>1. ASSUME x \in F, x \notin p .. p + len[p] - 1
        PROVE  \E q \in S \ {p} : q <= x /\ x < q + len[q]
    <3>1. PICK q \in S : q <= x /\ x < q + len[q]
      BY <2>1 DEF Tiled
    <3>2. q # p
      BY <1>1, <2>1, <3>1
    <3> QED BY <3>1, <3>2
  <2>2. ASSUME NEW q \in S \ {p}, q <= x, x < q + len[q]
        PROVE  x \in F /\ x \notin p .. p + len[p] - 1
    <3>1. x \in F
      BY <2>2 DEF Tiled
    <3>2. q < p => q + len[q] <= p
      BY <2>2 DEF Tiled
    <3>3. p < q => p + len[p] <= q
      BY <2>2 DEF Tiled
    <3> QED BY <1>1, <2>2, <3>1, <3>2, <3>3
  <2> QED BY <2>1, <2>2
<1> QED BY <1>2 DEF Tiled, Apart

\* n pages that are given back make a block, and it may touch its neighbours
\* (default_pmm.c, default_free_pages).
LEMMA TiledGiven ==
  ASSUME NEW S \in SUBSET Nat, NEW F \in SUBSET Nat, NEW len, Tiled(len, S, F), Apart(len, S),
         NEW b \in Nat, NEW n \in Nat, n > 0, F \cap (b .. b + n - 1) = {},
         NEW len2, SameAt(len2, len, S), len2[b] = n
  PROVE  /\ b \notin S
         /\ Tiled(len2, S \cup {b}, F \cup (b .. b + n - 1))
         /\ ApartBut(len2, S \cup {b}, b)
<1>1. \A x \in S : x \in Nat /\ len[x] \in Nat /\ len[x] > 0 /\ len2[x] = len[x]
  BY DEF Tiled, SameAt
<1>2. \A x \in S : x \in F
  BY <1>1 DEF Tiled
<1>3. b \in b .. b + n - 1
  OBVIOUS
<1>4. b \notin S
  BY <1>2, <1>3
<1>5. ASSUME NEW p \in S, NEW q \in S, p < q PROVE p + len[p] <= q
  BY <1>5 DEF Tiled
<1>6. ASSUME NEW p \in S, p < b PROVE p + len[p] <= b
  <2>1. b \notin F
    BY <1>3
  <2>2. ~(b < p + len[p])
    BY <1>1, <1>6, <2>1 DEF Tiled
  <2> QED BY <1>1, <2>2
<1>7. ASSUME NEW q \in S, b < q PROVE b + n <= q
  <2>1. q \notin b .. b + n - 1
    BY <1>2
  <2> QED BY <1>1, <1>7, <2>1
<1>8. ASSUME NEW x \in Nat
      PROVE  x \in F \cup (b .. b + n - 1) <=> \E q \in S \cup {b} : q <= x /\ x < q + len2[q]
  <2>1. x \in b .. b + n - 1 <=> b <= x /\ x < b + n
    OBVIOUS
  <2>2. x \in F <=> \E q \in S : q <= x /\ x < q + len[q]
    BY DEF Tiled
  <2> QED BY <1>1, <2>1, <2>2
<1>9. ASSUME NEW p \in S \cup {b}, NEW q \in S \cup {b}, p < q PROVE p + len2[p] <= q
  BY <1>1, <1>5, <1>6, <1>7, <1>9
<1>10. \A x \in S \cup {b} : len2[x] \in Nat /\ len2[x] > 0
  BY <1>1
<1>11. Tiled(len2, S \cup {b}, F \cup (b .. b + n - 1))
  BY <1>8, <1>9, <1>10 DEF Tiled
<1> QED BY <1>1, <1>4, <1>11 DEF Apart, ApartBut

\* Two blocks that touch may be made one.
LEMMA TiledJoin ==
  ASSUME NEW S \in SUBSET Nat, NEW F \in SUBSET Nat, NEW len, Tiled(len, S, F),
         NEW a \in S, NEW b \in S, a + len[a] = b,
         NEW len2, SameAt(len2, len, S \ {a}), len2[a] = len[a] + len[b]
  PROVE  Tiled(len2, S \ {b}, F)
<1>1. \A x \in S : x \in Nat /\ len[x] \in Nat /\ len[x] > 0
  BY DEF Tiled
<1>0. \A x \in S \ {a} : len2[x] = len[x]
  BY DEF SameAt
<1>2. a < b /\ a + len2[a] = b + len[b] /\ len2[a] \in Nat /\ len2[a] > 0
  BY <1>1
<1>3. ASSUME NEW p \in S \ {b}, NEW q \in S \ {b}, p < q PROVE p + len2[p] <= q
  <2>1. CASE p = a
    <3>1. a + len[a] <= q
      BY <1>3, <2>1 DEF Tiled
    <3>2. b < q
      BY <1>1, <1>3, <3>1
    <3>3. b + len[b] <= q
      BY <1>3, <3>2 DEF Tiled
    <3> QED BY <1>2, <2>1, <3>3
  <2>2. CASE p # a
    BY <1>0, <1>3, <2>2 DEF Tiled
  <2> QED BY <2>1, <2>2
<1>4. ASSUME NEW x \in Nat
      PROVE  x \in F <=> \E q \in S \ {b} : q <= x /\ x < q + len2[q]
  <2>1. ASSUME x \in F PROVE \E q \in S \ {b} : q <= x /\ x < q + len2[q]
    <3>1. PICK q \in S : q <= x /\ x < q + len[q]
      BY <2>1 DEF Tiled
    <3>2. CASE q = a \/ q = b
      <4>1. a <= x /\ x < a + len2[a] /\ a \in S \ {b}
        BY <1>1, <1>2, <3>1, <3>2
      <4> QED BY <4>1
    <3>3. CASE q # a /\ q # b
      <4>1. q \in S \ {b} /\ len2[q] = len[q]
        BY <1>0, <3>3
      <4> QED BY <3>1, <4>1
    <3> QED BY <3>2, <3>3
  <2>2. ASSUME NEW q \in S \ {b}, q <= x, x < q + len2[q] PROVE x \in F
    <3>1. CASE q = a
      <4>1. (a <= x /\ x < a + len[a]) \/ (b <= x /\ x < b + len[b])
        BY <1>1, <1>2, <2>2, <3>1
      <4> QED BY <4>1 DEF Tiled
    <3>2. CASE q # a
      BY <1>0, <2>2, <3>2 DEF Tiled
    <3> QED BY <3>1, <3>2
  <2> QED BY <2>1, <2>2
<1>5. \A x \in S \ {b} : len2[x] \in Nat /\ len2[x] > 0
  BY <1>0, <1>1, <1>2
<1> QED BY <1>3, <1>4, <1>5 DEF Tiled

-----------------------------------------------------------------------------
(* The blocks. *)

\* The list l of the blocks at S, len[p] pages from p on, has the pages of F.
BlocksOK(l, len, S, F) ==
  /\ l \in LinkType /\ len \in [Pages -> 0 .. N]
  /\ S \in SUBSET Pages /\ F \in SUBSET Pages
  /\ Threaded(l.next, l.prev, S)
  /\ Tiled(len, S, F)

\* Blocks are pages.
LEMMA BlockBounds ==
  ASSUME ConstantsOK, NEW len, NEW S \in SUBSET Pages, NEW F \in SUBSET Pages, Tiled(len, S, F)
  PROVE  /\ N \in Nat /\ S \in SUBSET Nat /\ F \in SUBSET Nat
         /\ \A p \in S : /\ p \in Nat /\ p > 0 /\ len[p] \in Nat /\ len[p] > 0
                         /\ p + len[p] <= N + 1
                         /\ p \in F /\ p .. p + len[p] - 1 \subseteq F
<1>1. N \in Nat /\ Pages = 1 .. N
  BY DEF ConstantsOK, Pages
<1>2. ASSUME NEW p \in S
      PROVE  /\ p \in Nat /\ p > 0 /\ len[p] \in Nat /\ len[p] > 0
             /\ p + len[p] <= N + 1
             /\ p \in F /\ p .. p + len[p] - 1 \subseteq F
  <2>1. p \in Nat /\ p > 0 /\ len[p] \in Nat /\ len[p] > 0
    BY <1>1 DEF Tiled
  <2>2. \A x \in Nat : p <= x /\ x < p + len[p] => x \in F
    BY DEF Tiled
  <2>3. p + len[p] - 1 \in Nat /\ p <= p + len[p] - 1 /\ p + len[p] - 1 < p + len[p]
    BY <2>1
  <2>4. p + len[p] - 1 \in F
    BY <2>2, <2>3
  <2>5. p + len[p] - 1 <= N
    <3>1. p + len[p] - 1 \in Pages
      BY <2>4
    <3> QED BY <1>1, <3>1
  <2>6. p + len[p] <= N + 1
    BY <1>1, <2>1, <2>5
  <2>7. p \in F
    BY <2>1, <2>2
  <2>8. \A x \in p .. p + len[p] - 1 : x \in Nat /\ p <= x /\ x < p + len[p]
    BY <2>1
  <2> QED BY <2>1, <2>2, <2>6, <2>7, <2>8
<1> QED BY <1>1, <1>2

\* What is left of a block takes its place in the list.
LEMMA TakenPart ==
  ASSUME ConstantsOK, NEW l, NEW len, NEW S, NEW F, BlocksOK(l, len, S, F), Apart(len, S),
         NEW p \in S, NEW n \in Nat, n > 0, n < len[p]
  PROVE  /\ BlocksOK(ListAdd(ListDel(l, p), l.prev[p], p + n),
                     [len EXCEPT ![p + n] = len[p] - n],
                     (S \cup {p + n}) \ {p}, F \ (p .. p + n - 1))
         /\ Apart([len EXCEPT ![p + n] = len[p] - n], (S \cup {p + n}) \ {p})
<1>0. /\ l \in LinkType /\ len \in [Pages -> 0 .. N]
      /\ S \in SUBSET Pages /\ F \in SUBSET Pages
      /\ Threaded(l.next, l.prev, S) /\ Tiled(len, S, F)
  BY DEF BlocksOK
<1>1. /\ N \in Nat /\ Pages = 1 .. N /\ S \in SUBSET Nat /\ F \in SUBSET Nat
      /\ p \in Nat /\ p > 0 /\ len[p] \in Nat /\ p + len[p] <= N + 1
  BY <1>0, BlockBounds DEF ConstantsOK, Pages
<1>2. p + n \in Pages /\ len[p] - n \in 0 .. N /\ p < p + n /\ p + n < p + len[p]
  BY <1>1
<1>3. PICK len2 : len2 = [len EXCEPT ![p + n] = len[p] - n]
  OBVIOUS
<1>4. len2 \in [Pages -> 0 .. N] /\ len2[p + n] = len[p] - n
  BY <1>0, <1>2, <1>3
<1>5. p + n \notin S
  BY <1>0, <1>1, <1>2 DEF Tiled
<1>6. SameAt(len2, len, S \ {p})
  BY <1>0, <1>3, <1>5 DEF SameAt
<1>7. /\ Tiled(len2, (S \cup {p + n}) \ {p}, F \ (p .. p + n - 1))
      /\ Apart(len2, (S \cup {p + n}) \ {p})
  BY <1>0, <1>1, <1>4, <1>6, TiledCut
<1>8. PICK d : d = ListDel(l, p)
  OBVIOUS
<1>9. /\ d \in LinkType /\ Threaded(d.next, d.prev, S \ {p})
      /\ d.next[l.prev[p]] = l.next[p] /\ l.prev[p] \in (S \ {p}) \cup {0}
  BY <1>0, <1>8, DelThreaded
<1>10. l.prev[p] < p + n
  <2>1. l.prev[p] \in S \cup {0} /\ l.next[l.prev[p]] = p /\ p # 0
    BY <1>0, <1>1 DEF Threaded
  <2>2. l.prev[p] < p
    BY <1>0, <2>1 DEF Threaded
  <2>3. l.prev[p] \in Nat
    <3>1. \A x \in S \cup {0} : x \in Nat
      BY <1>1
    <3> QED BY <2>1, <3>1
  <2> QED BY <1>1, <1>2, <2>2, <2>3
<1>11. l.next[p] = 0 \/ p + n < l.next[p]
  <2> SUFFICES ASSUME l.next[p] # 0 PROVE p + n < l.next[p]
    OBVIOUS
  <2>1. l.next[p] \in S /\ p < l.next[p]
    BY <1>0 DEF Threaded
  <2>2. p + len[p] <= l.next[p] /\ l.next[p] \in Nat
    BY <1>0, <1>1, <2>1 DEF Tiled
  <2> QED BY <1>1, <1>2, <2>2
<1>12. PICK l2 : l2 = ListInsert(d, p + n, l.prev[p], d.next[l.prev[p]])
  OBVIOUS
<1>13. l2 \in LinkType /\ Threaded(l2.next, l2.prev, (S \ {p}) \cup {p + n})
  BY <1>0, <1>2, <1>5, <1>9, <1>10, <1>11, <1>12, InsertThreaded, ZenonT(30)
<1>14. (S \ {p}) \cup {p + n} = (S \cup {p + n}) \ {p}
  BY <1>1, <1>2
<1>15. Threaded(l2.next, l2.prev, (S \cup {p + n}) \ {p})
  BY <1>13, <1>14
<1>16. ListAdd(ListDel(l, p), l.prev[p], p + n) = l2
  BY <1>8, <1>12 DEF ListAdd
<1>17. (S \cup {p + n}) \ {p} \in SUBSET Pages /\ F \ (p .. p + n - 1) \in SUBSET Pages
  BY <1>0, <1>2
<1>18. BlocksOK(l2, len2, (S \cup {p + n}) \ {p}, F \ (p .. p + n - 1))
  BY <1>4, <1>7, <1>13, <1>15, <1>17 DEF BlocksOK
<1> QED BY <1>3, <1>7, <1>16, <1>18

\* A block that is used up leaves the list.
LEMMA TakenWhole ==
  ASSUME ConstantsOK, NEW l, NEW len, NEW S, NEW F, BlocksOK(l, len, S, F), Apart(len, S),
         NEW p \in S
  PROVE  /\ BlocksOK(ListDel(l, p), len, S \ {p}, F \ (p .. p + len[p] - 1))
         /\ Apart(len, S \ {p})
<1>0. /\ l \in LinkType /\ len \in [Pages -> 0 .. N]
      /\ S \in SUBSET Pages /\ F \in SUBSET Pages
      /\ Threaded(l.next, l.prev, S) /\ Tiled(len, S, F)
  BY DEF BlocksOK
<1>1. S \in SUBSET Nat /\ F \in SUBSET Nat
  BY <1>0, BlockBounds
<1>2. /\ Tiled(len, S \ {p}, F \ (p .. p + len[p] - 1))
      /\ Apart(len, S \ {p})
  BY <1>0, <1>1, TiledTake
<1>3. ListDel(l, p) \in LinkType /\ Threaded(ListDel(l, p).next, ListDel(l, p).prev, S \ {p})
  BY <1>0, DelThreaded
<1>4. S \ {p} \in SUBSET Pages /\ F \ (p .. p + len[p] - 1) \in SUBSET Pages
  BY <1>0
<1> QED BY <1>0, <1>2, <1>3, <1>4 DEF BlocksOK

\* The places of c that hold one of T.
Found(c, T) == {k \in DOMAIN c : c[k] \in T}

\* A loop over the list finds the lowest of the entries it looks for.
LEMMA FirstFound ==
  ASSUME NEW c, NEW S \in SUBSET Nat, Lists(c, S), NEW T \in SUBSET S, T # {}
  PROVE  /\ Found(c, T) # {} /\ c[Min(Found(c, T))] \in T
         /\ \A q \in T : c[Min(Found(c, T))] <= q
<1> DEFINE found == Found(c, T)
<1>1. found # {} /\ found \in SUBSET Nat
  <2>1. PICK q \in T : TRUE
    OBVIOUS
  <2>2. PICK k \in 1 .. Len(c) : c[k] = q
    BY DEF Lists
  <2>3. DOMAIN c = 1 .. Len(c) /\ Len(c) \in Nat
    BY DEF Lists
  <2> QED BY <2>1, <2>2, <2>3 DEF Found
<1>2. Min(found) \in found /\ \A k \in found : Min(found) <= k
  BY <1>1, LeastOf
<1>3. PICK m \in found : m = Min(found) /\ \A k \in found : m <= k
  BY <1>2
<1>4. m \in 1 .. Len(c) /\ c[m] \in T /\ Len(c) \in Nat
  BY <1>3 DEF Lists, Found
<1>5. ASSUME NEW q \in T PROVE c[m] <= q
  <2>1. PICK k \in 1 .. Len(c) : c[k] = q
    BY DEF Lists
  <2>2. k \in found
    BY <2>1 DEF Lists, Found
  <2>3. m = k \/ m < k
    <3>1. m <= k
      BY <1>3, <2>2
    <3> QED BY <1>4, <3>1
  <2>4. m < k => c[m] < c[k]
    BY <1>4 DEF Lists
  <2>5. c[m] \in Nat /\ q \in Nat
    BY <1>4
  <2> QED BY <2>1, <2>3, <2>4, <2>5
<1> QED BY <1>1, <1>3, <1>4, <1>5

\* A block that comes back is linked in its place, in front of one that is higher.
LEMMA GivenBack ==
  ASSUME ConstantsOK, NEW l, NEW len, NEW S, NEW F, BlocksOK(l, len, S, F), Apart(len, S),
         NEW b \in Pages, NEW n \in Nat, n > 0, b .. b + n - 1 \subseteq Pages \ F, N \in F
  PROVE  /\ b \notin S
         /\ BlocksOK(Linked(l, b), [len EXCEPT ![b] = n], S \cup {b}, F \cup (b .. b + n - 1))
         /\ ApartBut([len EXCEPT ![b] = n], S \cup {b}, b)
<1>0. /\ l \in LinkType /\ len \in [Pages -> 0 .. N]
      /\ S \in SUBSET Pages /\ F \in SUBSET Pages
      /\ Threaded(l.next, l.prev, S) /\ Tiled(len, S, F)
  BY DEF BlocksOK
<1>1. /\ N \in Nat /\ Pages = 1 .. N /\ S \in SUBSET Nat /\ F \in SUBSET Nat
      /\ \A p \in S : p \in Nat /\ p > 0 /\ len[p] \in Nat /\ p + len[p] <= N + 1
  BY <1>0, BlockBounds DEF ConstantsOK, Pages
<1>2. b \in Nat /\ b > 0 /\ b + n - 1 <= N /\ n \in 0 .. N
  <2>1. b \in Nat /\ b > 0 /\ b + n - 1 \in b .. b + n - 1
    BY <1>1
  <2>2. b + n - 1 \in Pages
    BY <2>1
  <2>3. b + n - 1 <= N
    BY <1>1, <2>2
  <2> QED BY <1>1, <2>1, <2>3
<1>3. b \in b .. b + n - 1 /\ b \notin F /\ F \cap (b .. b + n - 1) = {}
  <2>1. b \in b .. b + n - 1
    BY <1>2
  <2> QED BY <2>1
<1>4. PICK len2 : len2 = [len EXCEPT ![b] = n]
  OBVIOUS
<1>5. len2 \in [Pages -> 0 .. N] /\ len2[b] = n
  BY <1>0, <1>2, <1>4
<1>6. b \notin S
  BY <1>0, <1>3, BlockBounds
<1>7. SameAt(len2, len, S)
  BY <1>0, <1>4, <1>6 DEF SameAt
<1>8. /\ Tiled(len2, S \cup {b}, F \cup (b .. b + n - 1))
      /\ ApartBut(len2, S \cup {b}, b)
  <2>1. b \in Nat /\ n \in Nat
    BY <1>2
  <2> QED BY <1>0, <1>1, <1>3, <1>5, <1>7, <2>1, TiledGiven, Zenon
<1>9. Lists(Chain(l), S)
  BY <1>0, ChainLists
<1> DEFINE T == {q \in S : b < q}
<1>10. T # {} /\ T \in SUBSET S
  <2>1. PICK q \in S : q <= N /\ N < q + len[q]
    BY <1>0, <1>1 DEF Tiled
  <2>2. b # q
    BY <1>6
  <2>3. b < N
    BY <1>1, <1>2, <1>3
  <2>4. b \in Nat /\ q <= b /\ b < q + len[q] => b \in F
    BY <1>0 DEF Tiled
  <2>5. b < q
    BY <1>1, <1>2, <1>3, <2>1, <2>2, <2>3, <2>4
  <2> QED BY <2>5
<1>11. PICK c : c = Chain(l)
  OBVIOUS
<1> DEFINE found == {k \in DOMAIN c : c[k] \in T}
           higher == {k \in DOMAIN c : b < c[k]}
<1>12. higher = found
  BY <1>9, <1>11 DEF Lists
<1>13. found # {} /\ c[Min(found)] \in T /\ \A q \in T : c[Min(found)] <= q
  <2> HIDE DEF T
  <2>1. Lists(c, S)
    BY <1>9, <1>11
  <2>2. /\ Found(c, T) # {} /\ c[Min(Found(c, T))] \in T
        /\ \A q \in T : c[Min(Found(c, T))] <= q
    BY <1>1, <1>10, <2>1, FirstFound
  <2>3. Found(c, T) = found
    BY DEF Found
  <2> QED BY <2>2, <2>3
<1>14. PICK h : h = c[Min(higher)]
  OBVIOUS
<1>15. h \in S /\ b < h /\ \A q \in S : b < q => h <= q
  <2>1. h \in T /\ \A q \in T : h <= q
    BY <1>12, <1>13, <1>14
  <2> QED BY <2>1
<1>16. c # <<>> /\ higher # {}
  BY <1>12, <1>13
<1>17. Linked(l, b) = ListAddBefore(l, h, b)
  BY <1>11, <1>14, <1>16 DEF Linked
<1>18. PICK p : p = l.prev[h]
  OBVIOUS
<1>19. p \in S \cup {0} /\ l.next[p] = h /\ p \in Nat
  BY <1>0, <1>1, <1>15, <1>18 DEF Threaded
<1>20. p < b
  <2>1. h \in Nat /\ h # 0
    BY <1>1, <1>15
  <2>2. p < h
    BY <1>0, <1>19, <2>1 DEF Threaded
  <2>3. p \in S => ~(b < p)
    BY <1>15, <1>19, <2>1, <2>2
  <2>4. p # b
    BY <1>2, <1>6, <1>19
  <2> QED BY <1>2, <1>19, <2>3, <2>4
<1>21. PICK l2 : l2 = ListInsert(l, b, p, l.next[p])
  OBVIOUS
<1>22. l2 \in LinkType /\ Threaded(l2.next, l2.prev, S \cup {b})
  BY <1>0, <1>6, <1>15, <1>19, <1>20, <1>21, InsertThreaded
<1>23. Linked(l, b) = l2
  BY <1>17, <1>18, <1>19, <1>21 DEF ListAddBefore
<1>24. S \cup {b} \in SUBSET Pages /\ F \cup (b .. b + n - 1) \in SUBSET Pages
  BY <1>0
<1>25. BlocksOK(l2, len2, S \cup {b}, F \cup (b .. b + n - 1))
  BY <1>5, <1>8, <1>22, <1>24 DEF BlocksOK
<1> QED BY <1>4, <1>6, <1>8, <1>23, <1>25

\* First pages and lengths of blocks are numbers.
LEMMA BlockNumbers ==
  ASSUME ConstantsOK, NEW l, NEW len, NEW S, NEW F, BlocksOK(l, len, S, F)
  PROVE  \A p \in S : p \in Nat /\ len[p] \in Nat
<1>1. S \in SUBSET Pages /\ F \in SUBSET Pages /\ Tiled(len, S, F)
  BY DEF BlocksOK
<1> QED BY <1>1, BlockBounds

\* Of two blocks that begin where the other ends, the list has one behind the other.
LEMMA Neighbours ==
  ASSUME ConstantsOK, NEW l, NEW len, NEW S, NEW F, BlocksOK(l, len, S, F),
         NEW p \in S, NEW q \in S, p + len[p] = q
  PROVE  l.next[p] = q /\ l.prev[q] = p /\ p # 0 /\ q # 0 /\ p < q
<1>1. S \in SUBSET Pages /\ F \in SUBSET Pages /\ Threaded(l.next, l.prev, S) /\ Tiled(len, S, F)
  BY DEF BlocksOK
<1>2. \A x \in S : x \in Nat /\ x > 0 /\ len[x] \in Nat /\ len[x] > 0
  BY <1>1, BlockBounds
<1>3. p < q /\ p # 0 /\ q # 0
  BY <1>2
<1>4. l.next[p] \in S /\ p < l.next[p] /\ l.next[p] <= q /\ l.prev[l.next[p]] = p
  BY <1>1, <1>3 DEF Threaded
<1>5. p + len[p] <= l.next[p]
  BY <1>1, <1>4 DEF Tiled
<1>6. l.next[p] = q
  BY <1>2, <1>4, <1>5
<1> QED BY <1>3, <1>4, <1>6

\* Joining two blocks of the list that touch keeps its pages.
LEMMA JoinedOK ==
  ASSUME ConstantsOK, NEW s, NEW F, BlocksOK(s.links, s.property, s.isHead, F),
         NEW a \in s.isHead, NEW b \in s.isHead, a + s.property[a] = b
  PROVE  /\ BlocksOK(Joined(s, a, b).links, Joined(s, a, b).property, Joined(s, a, b).isHead, F)
         /\ Joined(s, a, b).isHead = s.isHead \ {b}
         /\ Joined(s, a, b).property[a] = s.property[a] + s.property[b]
         /\ SameAt(Joined(s, a, b).property, s.property, s.isHead \ {a})
<1> DEFINE l == s.links
           len == s.property
           S == s.isHead
<1>1. /\ l \in LinkType /\ len \in [Pages -> 0 .. N]
      /\ S \in SUBSET Pages /\ F \in SUBSET Pages
      /\ Threaded(l.next, l.prev, S) /\ Tiled(len, S, F)
  BY DEF BlocksOK
<1> HIDE DEF l, len, S
<1>2. /\ N \in Nat /\ Pages = 1 .. N /\ S \in SUBSET Nat /\ F \in SUBSET Nat
      /\ \A x \in S : x \in Nat /\ x > 0 /\ len[x] \in Nat /\ len[x] > 0 /\ x + len[x] <= N + 1
  BY <1>1, BlockBounds DEF ConstantsOK, Pages
<1>3. PICK len2 : len2 = [len EXCEPT ![a] = len[a] + len[b]]
  OBVIOUS
<1>4. a \in S /\ b \in S /\ a + len[a] = b
  BY DEF S, len
<1>5. len[a] + len[b] \in 0 .. N
  <2>1. /\ a \in Nat /\ a > 0 /\ len[a] \in Nat /\ len[a] > 0
        /\ len[b] \in Nat /\ len[b] > 0 /\ b + len[b] <= N + 1
    BY <1>2, <1>4
  <2> QED BY <1>2, <1>4, <2>1
<1>6. a \in Pages
  BY <1>1, <1>4
<1>7. len2 \in [Pages -> 0 .. N] /\ len2[a] = len[a] + len[b]
  BY <1>1, <1>3, <1>5, <1>6
<1>8. SameAt(len2, len, S \ {a})
  BY <1>1, <1>3 DEF SameAt
<1>9. Tiled(len2, S \ {b}, F)
  BY <1>1, <1>2, <1>4, <1>7, <1>8, TiledJoin, Zenon
<1>10. ListDel(l, b) \in LinkType /\ Threaded(ListDel(l, b).next, ListDel(l, b).prev, S \ {b})
  BY <1>1, <1>4, DelThreaded
<1>11. S \ {b} \in SUBSET Pages
  BY <1>1
<1>12. BlocksOK(ListDel(l, b), len2, S \ {b}, F)
  BY <1>1, <1>7, <1>9, <1>10, <1>11 DEF BlocksOK
<1>13. Joined(s, a, b) = [links |-> ListDel(l, b), property |-> len2, isHead |-> S \ {b}]
  BY <1>3 DEF Joined, l, len, S
<1> QED BY <1>7, <1>8, <1>12, <1>13 DEF len, S

\* Only behind x may there be a block that begins where it ends.
ApartBehind(len, S, x) == \A p, q \in S : p + len[p] = q => p = x

\* After a look at the block in front, only the block behind may still touch.
LEMMA MergedPrevOK ==
  ASSUME ConstantsOK, NEW s, NEW F, BlocksOK(s.links, s.property, s.isHead, F),
         NEW b \in s.isHead, ApartBut(s.property, s.isHead, b)
  PROVE  LET m == MergedPrev(s, b)
             x == IF b \in m.isHead THEN b ELSE s.links.prev[b]
         IN  /\ BlocksOK(m.links, m.property, m.isHead, F)
             /\ x \in m.isHead /\ ApartBehind(m.property, m.isHead, x)
<1>1. PICK a : a = s.links.prev[b]
  OBVIOUS
<1>2. a \in s.isHead \cup {0}
  BY <1>1 DEF BlocksOK, Threaded
<1>3. b # 0
  BY DEF BlocksOK, Pages
<1>4. CASE Adjacent(s, a, b)
  <2>1. a \in s.isHead /\ a + s.property[a] = b
    BY <1>2, <1>4 DEF Adjacent, FreeList
  <2>2. PICK m : m = Joined(s, a, b)
    OBVIOUS
  <2>3. /\ BlocksOK(m.links, m.property, m.isHead, F)
        /\ m.isHead = s.isHead \ {b} /\ SameAt(m.property, s.property, s.isHead \ {a})
    BY <2>1, <2>2, JoinedOK, SMTT(30)
  <2>4. MergedPrev(s, b) = m
    BY <1>1, <1>4, <2>2 DEF MergedPrev
  <2>5. a # b
    <3>1. a < b
      BY <2>1, Neighbours
    <3>2. a \in Nat
      BY <2>1 DEF Pages, BlocksOK
    <3> QED BY <3>1, <3>2
  <2>6. ApartBehind(m.property, m.isHead, a)
    <3> SUFFICES ASSUME NEW p \in m.isHead, NEW q \in m.isHead, p + m.property[p] = q, p # a
                 PROVE  FALSE
      BY DEF ApartBehind
    <3>1. p \in s.isHead /\ q \in s.isHead /\ p # b /\ q # b
      BY <2>3
    <3>2. m.property[p] = s.property[p]
      BY <2>3, <3>1 DEF SameAt
    <3> QED BY <3>1, <3>2 DEF ApartBut
  <2> QED BY <1>1, <2>1, <2>3, <2>4, <2>5, <2>6
<1>5. CASE ~ Adjacent(s, a, b)
  <2>1. MergedPrev(s, b) = s
    BY <1>1, <1>5 DEF MergedPrev
  <2>2. ApartBehind(s.property, s.isHead, b)
    <3> SUFFICES ASSUME NEW p \in s.isHead, NEW q \in s.isHead, p + s.property[p] = q, p # b
                 PROVE  FALSE
      BY DEF ApartBehind
    <3>1. q = b
      BY DEF ApartBut
    <3>2. s.links.prev[q] = p /\ p # 0 /\ q # 0
      BY Neighbours
    <3> QED BY <1>1, <1>5, <3>1, <3>2 DEF Adjacent, FreeList
  <2> QED BY <2>1, <2>2
<1> QED BY <1>4, <1>5

\* After a look at the block behind, no two blocks touch.
LEMMA MergedNextOK ==
  ASSUME ConstantsOK, NEW s, NEW F, BlocksOK(s.links, s.property, s.isHead, F),
         NEW x \in s.isHead, ApartBehind(s.property, s.isHead, x)
  PROVE  LET m == MergedNext(s, x)
         IN  BlocksOK(m.links, m.property, m.isHead, F) /\ Apart(m.property, m.isHead)
<1>1. PICK a : a = s.links.next[x]
  OBVIOUS
<1>2. a \in s.isHead \cup {0}
  BY <1>1 DEF BlocksOK, Threaded
<1>4. CASE Adjacent(s, x, a)
  <2>1. a \in s.isHead /\ x + s.property[x] = a
    BY <1>2, <1>4 DEF Adjacent, FreeList
  <2>2. PICK m : m = Joined(s, x, a)
    OBVIOUS
  <2>3. /\ BlocksOK(m.links, m.property, m.isHead, F)
        /\ m.isHead = s.isHead \ {a} /\ SameAt(m.property, s.property, s.isHead \ {x})
        /\ m.property[x] = s.property[x] + s.property[a]
    <3>1. /\ BlocksOK(Joined(s, x, a).links, Joined(s, x, a).property, Joined(s, x, a).isHead, F)
          /\ Joined(s, x, a).isHead = s.isHead \ {a}
          /\ Joined(s, x, a).property[x] = s.property[x] + s.property[a]
          /\ SameAt(Joined(s, x, a).property, s.property, s.isHead \ {x})
      BY <2>1, JoinedOK
    <3> QED BY <2>2, <3>1
  <2>4. MergedNext(s, x) = m
    BY <1>1, <1>4, <2>2 DEF MergedNext
  <2>5. x < a /\ x \in Nat /\ a \in Nat /\ s.property[x] \in Nat /\ s.property[a] \in Nat
    <3>1. x < a
      BY <2>1, Neighbours
    <3>3. \A p \in s.isHead : p \in Nat /\ s.property[p] \in Nat
      BY BlockNumbers
    <3> QED BY <2>1, <3>1, <3>3
  <2>6. Apart(m.property, m.isHead)
    <3> SUFFICES ASSUME NEW p \in m.isHead, NEW q \in m.isHead, p + m.property[p] = q
                 PROVE  FALSE
      BY DEF Apart
    <3>1. p \in s.isHead /\ q \in s.isHead /\ p # a /\ q # a
      BY <2>3
    <3>2. CASE p = x
      <4>1. a + s.property[a] = q
        <5> PICK px, pa : px = s.property[x] /\ pa = s.property[a]
          OBVIOUS
        <5>1. x + (px + pa) = q
          BY <2>3, <3>2
        <5>2. px \in Nat /\ pa \in Nat /\ x \in Nat /\ x + px = a
          BY <2>1, <2>5
        <5> QED BY <5>1, <5>2
      <4>2. a = x
        BY <2>1, <3>1, <4>1 DEF ApartBehind
      <4> QED BY <2>5, <4>2
    <3>3. CASE p # x
      <4>1. m.property[p] = s.property[p]
        BY <2>3, <3>1, <3>3 DEF SameAt
      <4> QED BY <3>1, <3>3, <4>1 DEF ApartBehind
    <3> QED BY <3>2, <3>3
  <2> QED BY <2>3, <2>4, <2>6
<1>5. CASE ~ Adjacent(s, x, a)
  <2>1. MergedNext(s, x) = s
    BY <1>1, <1>5 DEF MergedNext
  <2>2. Apart(s.property, s.isHead)
    <3> SUFFICES ASSUME NEW p \in s.isHead, NEW q \in s.isHead, p + s.property[p] = q
                 PROVE  FALSE
      BY DEF Apart
    <3>1. p = x
      BY DEF ApartBehind
    <3>2. s.links.next[p] = q /\ p # 0 /\ q # 0
      BY Neighbours
    <3> QED BY <1>1, <1>5, <3>1, <3>2 DEF Adjacent, FreeList
  <2> QED BY <2>1, <2>2
<1> QED BY <1>4, <1>5

-----------------------------------------------------------------------------
(* The steps. *)

\* The pages of a run of n pages, from p on, taken from a set that has them.
LEMMA RunTaken ==
  ASSUME N \in Nat, NEW F \in SUBSET (1 .. N), NEW p \in Nat, NEW n \in Nat,
         p .. p + n - 1 \subseteq F
  PROVE  /\ Cardinality(F) \in Nat /\ Cardinality(F) <= N
         /\ n <= Cardinality(F)
         /\ Cardinality(F \ (p .. p + n - 1)) = Cardinality(F) - n
<1>1. IsFiniteSet(1 .. N) /\ Cardinality(1 .. N) = N
  <2>1. 1 \in Int /\ N \in Int /\ (1 > N => N = 0)
    OBVIOUS
  <2> QED BY <2>1, FS_Interval
<1>2. IsFiniteSet(F) /\ Cardinality(F) \in Nat /\ Cardinality(F) <= N
  BY <1>1, FS_Subset, FS_CardinalityType
<1>3. IsFiniteSet(p .. p + n - 1) /\ Cardinality(p .. p + n - 1) = n
  <2>1. p \in Int /\ p + n - 1 \in Int /\ (p + n - 1) - p + 1 = n /\ (p > p + n - 1 => n = 0)
    OBVIOUS
  <2> QED BY <2>1, FS_Interval
<1>5. Cardinality(F \ (p .. p + n - 1)) = Cardinality(F) - n
  <2> PICK T : T = p .. p + n - 1
    OBVIOUS
  <2>1. F \cap T = T /\ Cardinality(T) = n
    BY <1>3
  <2>2. Cardinality(F \ T) = Cardinality(F) - Cardinality(F \cap T)
    BY <1>2, FS_Difference
  <2> QED BY <2>1, <2>2
<1>6. n <= Cardinality(F)
  BY <1>2, <1>3, FS_Subset
<1> QED BY <1>2, <1>5, <1>6

\* The pages of a run of n pages, from p on, given to a set that lacks them.
LEMMA RunGiven ==
  ASSUME N \in Nat, NEW F \in SUBSET (1 .. N), NEW p \in Nat, NEW n \in Nat,
         p .. p + n - 1 \subseteq (1 .. N) \ F
  PROVE  Cardinality(F \cup (p .. p + n - 1)) = Cardinality(F) + n
<1> DEFINE G == F \cup (p .. p + n - 1)
<1>1. G \in SUBSET (1 .. N) /\ p .. p + n - 1 \subseteq G /\ G \ (p .. p + n - 1) = F
  OBVIOUS
<1> HIDE DEF G
<1>2. /\ Cardinality(G) \in Nat
      /\ Cardinality(G \ (p .. p + n - 1)) = Cardinality(G) - n
  BY <1>1, RunTaken
<1>3. Cardinality(G) = Cardinality(F) + n
  <2>1. Cardinality(F) = Cardinality(G) - n
    BY <1>1, <1>2
  <2> QED BY <1>2, <2>1
<1> QED BY <1>3 DEF G

\* The list has the free pages in blocks that do not touch; no page has two holders,
\* and the last one has none.
FitInv ==
  /\ BlocksOK(links, property, isHead, FreePages) /\ Apart(property, isHead)
  /\ holders \in [Pages -> {0, 1}] /\ holders[N] = 0
  /\ nrFree = Cardinality(FreePages)

\* One block has all of memory at the start (default_init_memmap).
LEMMA InitFit == ASSUME ConstantsOK, Init PROVE FitInv
<1>1. N \in Nat /\ N > 0 /\ Pages = 1 .. N
  BY DEF ConstantsOK, Pages
<1>2. FreePages = 1 .. N /\ holders \in [Pages -> {0, 1}] /\ holders[N] = 0 /\ nrFree = N
  BY <1>1 DEF Init, FreePages
<1>3. Cardinality(1 .. N) = N
  <2>1. 1 \in Int /\ N \in Int /\ (1 > N => N = 0) /\ N - 1 + 1 = N
    BY <1>1
  <2> QED BY <2>1, <1>1, FS_Interval
<1>4. isHead = {1} /\ property \in [Pages -> 0 .. N] /\ property[1] = N /\ isHead \in SUBSET Pages
  BY <1>1 DEF Init
<1>5. links \in LinkType
  BY <1>1 DEF Init, LinkType, FreeList
<1>6. links.next[0] = 1 /\ links.next[1] = 0 /\ links.prev[0] = 1 /\ links.prev[1] = 0
  BY <1>1 DEF Init, FreeList
<1>7. Threaded(links.next, links.prev, {1})
  BY <1>6 DEF Threaded
<1>8. Tiled(property, {1}, 1 .. N) /\ Apart(property, {1})
  BY <1>1, <1>4 DEF Tiled, Apart
<1> QED BY <1>1, <1>2, <1>3, <1>4, <1>5, <1>7, <1>8 DEF FitInv, BlocksOK

\* An allocation from a block with room keeps the invariant, by either allocator.
LEMMA AllocKeeps ==
  ASSUME ConstantsOK, AmpleMemory, FitInv, NEW n \in Pages, NEW page \in isHead,
         property[page] >= n, AllocFrom(page, n)
  PROVE  FitInv'
<1> PICK F, h : F = FreePages /\ h = holders
  OBVIOUS
<1>1. /\ BlocksOK(links, property, isHead, F) /\ Apart(property, isHead)
      /\ h \in [Pages -> {0, 1}] /\ h[N] = 0 /\ nrFree = Cardinality(F)
      /\ isHead \in SUBSET Pages /\ F \in SUBSET Pages /\ Tiled(property, isHead, F)
  BY DEF FitInv, BlocksOK
<1>2. N \in Nat /\ N > 0 /\ Pages = 1 .. N /\ n \in Nat /\ n > 0 /\ N \in Pages
  BY DEF ConstantsOK, Pages
<1>3. /\ page \in Nat /\ property[page] \in Nat
      /\ page .. page + property[page] - 1 \subseteq F
  BY <1>1, BlockBounds
<1> DEFINE run == page .. page + n - 1
<1>4. run \subseteq F
  BY <1>2, <1>3
<1>5. F = {p \in Pages : h[p] = 0}
  BY DEF FreePages
<1>14. (page + n) - 1 = page + (n - 1)
  BY <1>2, <1>3
<1>6. holders' = [p \in Pages |-> h[p] + (IF p \in run THEN 1 ELSE 0)]
  <2>1. holders' = [p \in Pages |->
                     holders[p] + (IF p \in page .. (page + n) - 1 THEN 1 ELSE 0)]
    BY Zenon DEF AllocFrom
  <2> QED BY <1>14, <2>1, Zenon
<1>7. N \notin run /\ nrFree' = nrFree - n
  <2>1. N \notin page .. (page + n) - 1 /\ nrFree' = nrFree - n
    BY Zenon DEF AllocFrom
  <2> QED BY <1>14, <2>1, Zenon
<1> HIDE DEF run
<1>8. \A p \in Pages : /\ h[p] \in {0, 1} /\ (p \in run => h[p] = 0)
                       /\ holders'[p] = h[p] + (IF p \in run THEN 1 ELSE 0)
  BY <1>1, <1>4, <1>5, <1>6
<1>9. holders' \in [Pages -> {0, 1}]
  <2>1. \A p \in Pages : h[p] + (IF p \in run THEN 1 ELSE 0) \in {0, 1}
    BY <1>8
  <2> QED BY <1>6, <2>1
<1>10. holders'[N] = 0
  BY <1>1, <1>2, <1>7, <1>8
<1>11. FreePages' = F \ run
  <2>1. FreePages' = {p \in Pages : holders'[p] = 0}
    BY DEF FreePages, Pages
  <2>2. \A p \in Pages : holders'[p] = 0 <=> h[p] = 0 /\ p \notin run
    BY <1>8
  <2> QED BY <1>5, <2>1, <2>2
<1>12. nrFree' = Cardinality(F \ run)
  <2>1. /\ N \in Nat /\ F \in SUBSET (1 .. N) /\ page \in Nat /\ n \in Nat
        /\ page .. page + n - 1 \subseteq F
    BY <1>1, <1>2, <1>3, <1>4 DEF run
  <2>2. Cardinality(F \ (page .. page + n - 1)) = Cardinality(F) - n
    BY <2>1, RunTaken
  <2> QED BY <1>1, <1>7, <2>2 DEF run
<1>13. BlocksOK(links', property', isHead', F \ run) /\ Apart(property', isHead')
  <2>1. CASE property[page] > n
    <3>1. /\ property' = [property EXCEPT ![page + n] = property[page] - n]
          /\ links' = ListAdd(ListDel(links, page), links.prev[page], page + n)
          /\ isHead' = (isHead \cup {page + n}) \ {page}
      BY <1>2, <1>3, <2>1 DEF AllocFrom, Remainder
    <3>2. n < property[page]
      BY <1>2, <1>3, <2>1
    <3> QED BY <1>1, <1>2, <3>1, <3>2, TakenPart DEF run
  <2>2. CASE property[page] = n
    <3>1. property' = property /\ links' = ListDel(links, page) /\ isHead' = isHead \ {page}
      BY <1>2, <1>3, <2>2 DEF AllocFrom
    <3>2. /\ BlocksOK(ListDel(links, page), property, isHead \ {page},
                      F \ (page .. page + property[page] - 1))
          /\ Apart(property, isHead \ {page})
      BY <1>1, TakenWhole
    <3> QED BY <2>2, <3>1, <3>2 DEF run
  <2> QED BY <1>2, <1>3, <2>1, <2>2
<1> QED BY <1>9, <1>10, <1>11, <1>12, <1>13 DEF FitInv, Pages

\* What default_free_pages() makes of the list.
Freed(base, n) ==
  LET linked == [links    |-> Linked(links, base),
                 property |-> [property EXCEPT ![base] = n],
                 isHead   |-> isHead \cup {base}]
      merged == MergedPrev(linked, base)
  IN  MergedNext(merged, IF base \in merged.isHead THEN base ELSE linked.links.prev[base])

\* A block that comes back is linked and joined with what it touches.
LEMMA GivenJoined ==
  ASSUME ConstantsOK, NEW F, BlocksOK(links, property, isHead, F), Apart(property, isHead),
         NEW base \in Pages, NEW n \in Nat, n > 0, NEW run, run = base .. base + n - 1,
         run \subseteq Pages \ F, N \in F
  PROVE  /\ BlocksOK(Freed(base, n).links, Freed(base, n).property, Freed(base, n).isHead,
                     F \cup run)
         /\ Apart(Freed(base, n).property, Freed(base, n).isHead)
<1> DEFINE s == [links    |-> Linked(links, base),
                 property |-> [property EXCEPT ![base] = n],
                 isHead   |-> isHead \cup {base}]
           m == MergedPrev(s, base)
           x == IF base \in m.isHead THEN base ELSE s.links.prev[base]
<1>1. base .. base + n - 1 \subseteq Pages \ F
  OBVIOUS
<1>2. /\ BlocksOK(Linked(links, base), [property EXCEPT ![base] = n], isHead \cup {base},
                  F \cup (base .. base + n - 1))
      /\ ApartBut([property EXCEPT ![base] = n], isHead \cup {base}, base)
  BY <1>1, GivenBack, Zenon
<1>3. /\ BlocksOK(s.links, s.property, s.isHead, F \cup run)
      /\ ApartBut(s.property, s.isHead, base) /\ base \in s.isHead
  BY <1>2
<1>4. Freed(base, n) = MergedNext(m, x)
  BY DEF Freed
<1> HIDE DEF s
<1>5. /\ BlocksOK(m.links, m.property, m.isHead, F \cup run)
      /\ x \in m.isHead /\ ApartBehind(m.property, m.isHead, x)
  BY <1>3, MergedPrevOK
<1> HIDE DEF m, x
<1> QED BY <1>4, <1>5, MergedNextOK

\* default_free_pages() keeps the invariant.
LEMMA FreeKeeps ==
  ASSUME ConstantsOK, FitInv, NEW n \in Pages, NEW base \in Pages, Free(base, n)
  PROVE  FitInv'
<1> PICK F, h : F = FreePages /\ h = holders
  OBVIOUS
<1>1. /\ BlocksOK(links, property, isHead, F) /\ Apart(property, isHead)
      /\ h \in [Pages -> {0, 1}] /\ h[N] = 0 /\ nrFree = Cardinality(F)
      /\ isHead \in SUBSET Pages /\ F \in SUBSET Pages /\ Tiled(property, isHead, F)
  BY DEF FitInv, BlocksOK
<1>2. /\ N \in Nat /\ N > 0 /\ Pages = 1 .. N /\ n \in Nat /\ n > 0 /\ N \in Pages
      /\ base \in Nat
  BY DEF ConstantsOK, Pages
<1> DEFINE run == base .. base + n - 1
<1>5. F = {p \in Pages : h[p] = 0}
  BY DEF FreePages
<1>6. /\ run \subseteq {p \in Pages : h[p] > 0} /\ nrFree' = nrFree + n
      /\ holders' = [p \in Pages |-> h[p] - (IF p \in run THEN 1 ELSE 0)]
  BY DEF Free
<1>4. run \subseteq Pages \ F /\ N \in F
  BY <1>1, <1>2, <1>5, <1>6
<1> HIDE DEF run
<1>8. \A p \in Pages : /\ h[p] \in {0, 1} /\ (p \in run => h[p] = 1)
                       /\ holders'[p] = h[p] - (IF p \in run THEN 1 ELSE 0)
  BY <1>1, <1>6
<1>9. holders' \in [Pages -> {0, 1}]
  <2>1. \A p \in Pages : h[p] - (IF p \in run THEN 1 ELSE 0) \in {0, 1}
    BY <1>8
  <2> QED BY <1>6, <2>1
<1>10. holders'[N] = 0
  BY <1>1, <1>2, <1>8
<1>11. FreePages' = F \cup run
  <2>1. FreePages' = {p \in Pages : holders'[p] = 0}
    BY DEF FreePages, Pages
  <2>2. \A p \in Pages : holders'[p] = 0 <=> h[p] = 0 \/ p \in run
    BY <1>8
  <2>3. run \subseteq Pages
    BY <1>4
  <2> QED BY <1>5, <2>1, <2>2, <2>3
<1>12. nrFree' = Cardinality(F \cup run)
  <2>1. /\ N \in Nat /\ F \in SUBSET (1 .. N) /\ base \in Nat /\ n \in Nat
        /\ base .. base + n - 1 \subseteq (1 .. N) \ F
    BY <1>1, <1>2, <1>4 DEF run
  <2>2. Cardinality(F \cup (base .. base + n - 1)) = Cardinality(F) + n
    BY <2>1, RunGiven
  <2> QED BY <1>1, <1>6, <2>2 DEF run
<1>13. BlocksOK(links', property', isHead', F \cup run) /\ Apart(property', isHead')
  <2>1. run = base .. base + n - 1 /\ run \subseteq Pages \ F /\ N \in F /\ n \in Nat /\ n > 0
    BY <1>2, <1>4 DEF run
  <2>2. BlocksOK(links, property, isHead, F) /\ Apart(property, isHead)
    BY <1>1
  <2> HIDE DEF run
  <2>3. /\ BlocksOK(Freed(base, n).links, Freed(base, n).property, Freed(base, n).isHead,
                    F \cup run)
        /\ Apart(Freed(base, n).property, Freed(base, n).isHead)
    BY <2>1, <2>2, GivenJoined
  <2>4. /\ links' = Freed(base, n).links /\ property' = Freed(base, n).property
        /\ isHead' = Freed(base, n).isHead
    BY Zenon DEF Free, Freed
  <2> QED BY <2>3, <2>4
<1> QED BY <1>9, <1>10, <1>11, <1>12, <1>13 DEF FitInv, Pages

-----------------------------------------------------------------------------
(* What the lists promise. *)

\* The blocks are the maximal runs of F.
Runs(len, S, F) ==
  /\ S = {p \in F : p - 1 \notin F}
  /\ \A p \in S : p .. p + len[p] - 1 \subseteq F /\ p + len[p] \notin F
  /\ \A x, n \in Nat : n > 0 /\ x .. x + n - 1 \subseteq F =>
       \E p \in S : p <= x /\ x + n <= p + len[p]

\* Blocks that are kept apart are the maximal runs of the pages they have.
LEMMA BlocksAreRuns ==
  ASSUME NEW S \in SUBSET Nat, NEW F \in SUBSET Nat, NEW len, Tiled(len, S, F), Apart(len, S)
  PROVE  Runs(len, S, F)
<1>1. \A p \in S : p \in Nat /\ len[p] \in Nat /\ len[p] > 0
  BY DEF Tiled
<1>2. \A p, q \in S : p < q => p + len[p] < q
  BY <1>1 DEF Tiled, Apart
<1>3. \A x \in Nat : x \in F <=> \E p \in S : p <= x /\ x < p + len[p]
  BY DEF Tiled
<1>4. ASSUME NEW p \in S PROVE p \in F /\ p - 1 \notin F
  <2>1. p \in F
    BY <1>1, <1>3
  <2> SUFFICES ASSUME p - 1 \in F PROVE FALSE
    BY <2>1
  <2>2. p - 1 \in Nat
    OBVIOUS
  <2>3. PICK q \in S : q <= p - 1 /\ p - 1 < q + len[q]
    BY <1>3, <2>2
  <2> QED BY <1>1, <1>2, <2>3
<1>5. ASSUME NEW x \in F, x - 1 \notin F PROVE x \in S
  <2>1. PICK q \in S : q <= x /\ x < q + len[q]
    BY <1>3
  <2>2. CASE q < x
    <3>1. x - 1 \in Nat /\ q <= x - 1 /\ x - 1 < q + len[q]
      BY <1>1, <2>1, <2>2
    <3> QED BY <1>3, <1>5, <3>1
  <2> QED BY <1>1, <2>1, <2>2
<1>6. ASSUME NEW p \in S PROVE p .. p + len[p] - 1 \subseteq F /\ p + len[p] \notin F
  <2>1. ASSUME NEW x \in p .. p + len[p] - 1 PROVE x \in F
    <3>1. x \in Nat /\ p <= x /\ x < p + len[p]
      BY <1>1
    <3> QED BY <1>3, <3>1
  <2>2. ASSUME p + len[p] \in F PROVE FALSE
    <3>1. PICK q \in S : q <= p + len[p] /\ p + len[p] < q + len[q]
      BY <1>1, <1>3, <2>2
    <3>2. q < p \/ q = p \/ p < q
      BY <1>1
    <3> QED BY <1>1, <1>2, <3>1, <3>2
  <2> QED BY <2>1, <2>2
<1>7. ASSUME NEW x \in Nat, NEW n \in Nat, n > 0, x .. x + n - 1 \subseteq F
      PROVE  \E p \in S : p <= x /\ x + n <= p + len[p]
  <2>1. x \in F
    <3>1. x \in x .. x + n - 1
      BY <1>7
    <3> QED BY <1>7, <3>1
  <2>2. PICK p \in S : p <= x /\ x < p + len[p]
    BY <1>3, <2>1
  <2>3. p + len[p] \notin x .. x + n - 1
    BY <1>6, <1>7
  <2>4. x + n <= p + len[p]
    BY <1>1, <1>7, <2>2, <2>3
  <2> QED BY <2>2, <2>4
<1>8. S = {p \in F : p - 1 \notin F}
  BY <1>4, <1>5
<1> QED BY <1>6, <1>7, <1>8 DEF Runs

\* What the invariant says of the runs, with the set of free pages named F.
LEMMA FitFacts ==
  ASSUME ConstantsOK, FitInv
  PROVE  /\ N \in Nat /\ N > 0 /\ Pages = 1 .. N
         /\ isHead \in SUBSET Pages /\ isHead \in SUBSET Nat /\ FreePages \in SUBSET Pages
         /\ \A p \in isHead : /\ p \in Nat /\ p > 0 /\ property[p] \in Nat /\ property[p] > 0
                              /\ p + property[p] <= N + 1
                              /\ p .. p + property[p] - 1 \subseteq FreePages
                              /\ p + property[p] \notin FreePages
                              /\ property[p] <= nrFree
         /\ nrFree = Cardinality(FreePages) /\ nrFree \in Nat /\ nrFree <= N
         /\ RunStarts = isHead
         /\ \A x, n \in Nat : n > 0 /\ x .. x + n - 1 \subseteq FreePages =>
              n <= nrFree /\ \E p \in isHead : p <= x /\ x + n <= p + property[p]
         /\ Lists(Chain(links), isHead)
<1> PICK F : F = FreePages
  OBVIOUS
<1>1. /\ BlocksOK(links, property, isHead, F) /\ Apart(property, isHead)
      /\ nrFree = Cardinality(F)
      /\ isHead \in SUBSET Pages /\ F \in SUBSET Pages /\ Tiled(property, isHead, F)
      /\ links \in LinkType /\ Threaded(links.next, links.prev, isHead)
  BY DEF FitInv, BlocksOK
<1>2. N \in Nat /\ N > 0 /\ Pages = 1 .. N /\ F \in SUBSET (1 .. N)
  BY <1>1 DEF ConstantsOK, Pages
<1>3. /\ isHead \in SUBSET Nat /\ F \in SUBSET Nat
      /\ \A p \in isHead : /\ p \in Nat /\ p > 0 /\ property[p] \in Nat /\ property[p] > 0
                           /\ p + property[p] <= N + 1
  BY <1>1, BlockBounds
<1>4. /\ isHead = {p \in F : p - 1 \notin F}
      /\ \A p \in isHead : p .. p + property[p] - 1 \subseteq F /\ p + property[p] \notin F
      /\ \A x, n \in Nat : n > 0 /\ x .. x + n - 1 \subseteq F =>
           \E p \in isHead : p <= x /\ x + n <= p + property[p]
  <2>1. Runs(property, isHead, F)
    BY <1>1, <1>3, BlocksAreRuns
  <2> QED BY <2>1 DEF Runs
<1>5. RunStarts = isHead
  BY <1>4 DEF RunStarts
<1>6. \A x, n \in Nat : x .. x + n - 1 \subseteq F => n <= Cardinality(F)
  BY <1>2, RunTaken
<1>7. Cardinality(F) \in Nat /\ Cardinality(F) <= N
  <2>1. 1 \in Nat /\ 0 \in Nat /\ 1 .. 1 + 0 - 1 \subseteq F
    OBVIOUS
  <2> QED BY <1>2, <2>1, RunTaken
<1>8. \A p \in isHead : property[p] <= nrFree
  BY <1>1, <1>3, <1>4, <1>6
<1>9. Lists(Chain(links), isHead)
  BY <1>1, ChainLists
<1> QED BY <1>1, <1>2, <1>3, <1>4, <1>5, <1>6, <1>7, <1>8, <1>9

\* The invariant says that the list is exact.
LEMMA FitListExact == ASSUME ConstantsOK, FitInv PROVE ListExact
<1> PICK c : c = Chain(links)
  OBVIOUS
<1>1. /\ Lists(c, isHead) /\ RunStarts = isHead /\ nrFree = Cardinality(FreePages)
      /\ \A p \in isHead : /\ p .. p + property[p] - 1 \subseteq FreePages
                           /\ p + property[p] \notin FreePages
  BY FitFacts
<1>2. {c[k] : k \in DOMAIN c} = isHead
  BY <1>1 DEF Lists
<1>3. \A j, k \in DOMAIN c : j < k => c[j] < c[k]
  BY <1>1 DEF Lists
<1>4. \A e \in isHead \cup {0} : links.prev[links.next[e]] = e
  BY DEF FitInv, BlocksOK, Threaded
<1> QED BY <1>1, <1>2, <1>3, <1>4 DEF ListExact, FreeList

\* With an exact list, the first block with room begins the lowest run that fits.
LEMMA FitAllocExact == ASSUME ConstantsOK, FitInv PROVE AllocExact
<1> SUFFICES ASSUME NEW n \in Pages PROVE FirstWithRoom(n) = LowestRun(n)
  BY DEF AllocExact
<1> PICK F, c : F = FreePages /\ c = Chain(links)
  OBVIOUS
<1>1. /\ N \in Nat /\ Pages = 1 .. N /\ isHead \in SUBSET Nat /\ isHead \in SUBSET Pages
      /\ \A p \in isHead : /\ p \in Nat /\ p > 0 /\ property[p] \in Nat
                           /\ p + property[p] <= N + 1
                           /\ p .. p + property[p] - 1 \subseteq F
      /\ \A x, m \in Nat : m > 0 /\ x .. x + m - 1 \subseteq F =>
              m <= nrFree /\ \E p \in isHead : p <= x /\ x + m <= p + property[p]
      /\ Lists(c, isHead) /\ nrFree \in Nat
  BY FitFacts
<1>2. n \in Nat /\ n > 0
  BY <1>1
<1> DEFINE T == {p \in isHead : property[p] >= n}
           found == Found(c, T)
           fit == {k \in DOMAIN c : property[c[k]] >= n}
           runs == {p \in Pages : p .. p + n - 1 \subseteq F}
<1>3. fit = found
  BY <1>1 DEF Lists, Found
<1>4. ASSUME NEW p \in T PROVE p \in runs
  <2>1. p \in Pages /\ p \in Nat /\ property[p] \in Nat /\ property[p] >= n
        /\ p .. p + property[p] - 1 \subseteq F
    BY <1>1
  <2>2. p .. p + n - 1 \subseteq p .. p + property[p] - 1
    BY <1>2, <2>1
  <2> QED BY <2>1, <2>2
<1>5. ASSUME NEW x \in runs PROVE n <= nrFree /\ \E p \in T : p <= x
  <2>1. x \in Nat
    BY <1>1
  <2>2. n <= nrFree /\ \E p \in isHead : p <= x /\ x + n <= p + property[p]
    BY <1>1, <1>2, <2>1
  <2>3. PICK p \in isHead : p <= x /\ x + n <= p + property[p]
    BY <2>2
  <2>4. property[p] >= n
    BY <1>1, <1>2, <2>1, <2>3
  <2> QED BY <2>2, <2>3, <2>4
<1>6. runs \in SUBSET Nat /\ T \in SUBSET isHead
  BY <1>1
<1>7. FirstWithRoom(n) = IF n > nrFree \/ fit = {} THEN FreeList ELSE c[Min(fit)]
  BY DEF FirstWithRoom
<1>8. LowestRun(n) = IF runs = {} THEN FreeList ELSE Min(runs)
  BY DEF LowestRun
<1> HIDE DEF T, runs, fit, found
<1>9. CASE T = {}
  <2>1. runs = {} /\ found = {}
    BY <1>5, <1>9 DEF found, Found
  <2> QED BY <1>3, <1>7, <1>8, <2>1
<1>10. CASE T # {}
  <2>1. found # {} /\ c[Min(found)] \in T /\ \A q \in T : c[Min(found)] <= q
    BY <1>1, <1>6, <1>10, FirstFound DEF found
  <2>2. PICK h : h = c[Min(fit)] /\ h \in T /\ \A q \in T : h <= q
    BY <1>3, <2>1
  <2>3. h \in runs /\ n <= nrFree
    BY <1>4, <1>5, <2>2
  <2>4. ASSUME NEW x \in runs PROVE h <= x
    <3>1. PICK p \in T : p <= x
      BY <1>5
    <3>2. h <= p /\ h \in Nat /\ p \in Nat /\ x \in Nat
      BY <1>6, <2>2, <2>3
    <3> QED BY <3>1, <3>2
  <2>5. Min(runs) = h
    BY <1>6, <2>3, <2>4, MinIs
  <2>6. FirstWithRoom(n) = h
    BY <1>2, <1>1, <1>3, <1>7, <2>1, <2>2, <2>3
  <2>7. LowestRun(n) = h
    BY <1>8, <2>3, <2>5
  <2> QED BY <2>6, <2>7
<1> QED BY <1>9, <1>10

\* After k blocks of c, j is the place of the smallest of those that have room, the first
\* of them if there are several, or 0.
Smallest(c, n, k, j) ==
  \/ j = 0 /\ \A i \in 1 .. k : property[c[i]] < n
  \/ /\ j \in 1 .. k /\ property[c[j]] >= n
     /\ \A i \in 1 .. k : property[c[i]] >= n =>
          \/ property[c[j]] < property[c[i]]
          \/ property[c[j]] = property[c[i]] /\ j <= i

\* The loop of best_fit_alloc_pages() finds the first of the smallest blocks with room.
LEMMA BestFound ==
  ASSUME ConstantsOK, FitInv, NEW n \in Pages
  PROVE  \E j : /\ Smallest(Chain(links), n, Len(Chain(links)), j)
                /\ BestWithRoom(n) = IF n > nrFree \/ j = 0 THEN FreeList ELSE Chain(links)[j]
<1> DEFINE c == Chain(links)
           L == Len(c)
           len == property
<1>1. /\ L \in Nat /\ nrFree \in Nat
      /\ \A k \in 1 .. L : len[c[k]] \in Nat /\ len[c[k]] <= nrFree
  <2>1. /\ Lists(c, isHead) /\ nrFree \in Nat
        /\ \A p \in isHead : property[p] \in Nat /\ property[p] <= nrFree
    BY FitFacts
  <2> QED BY <2>1 DEF Lists
<1>2. n \in Nat /\ n > 0
  BY DEF ConstantsOK, Pages
<1> DEFINE Size(j) == IF j = 0 THEN nrFree + 1 ELSE len[c[j]]
           Better(k, j) == IF len[c[k]] >= n /\ len[c[k]] < Size(j) THEN k ELSE j
           best == CHOOSE f : f = [k \in 0 .. L |->
                     IF k = 0 THEN 0
                     ELSE IF len[c[k]] >= n /\ len[c[k]] < (IF f[k - 1] = 0 THEN nrFree + 1
                                                            ELSE len[c[f[k - 1]]])
                          THEN k ELSE f[k - 1]]
           V == 0 .. L
<1>3. BestWithRoom(n) = IF n > nrFree \/ best[L] = 0 THEN FreeList ELSE c[best[L]]
  BY Zenon DEF BestWithRoom, c, L
<1> HIDE DEF c, L
<1>4. PICK step \in [Nat \X V -> V] :
        \A k \in 1 .. L, j \in V : step[<<k, j>>] = Better(k, j)
  <2>1. [a \in Nat \X V |-> IF a[1] \in 1 .. L THEN Better(a[1], a[2]) ELSE 0]
          \in [Nat \X V -> V]
    <3> SUFFICES ASSUME NEW k \in Nat, NEW j \in V
                 PROVE  (IF k \in 1 .. L THEN Better(k, j) ELSE 0) \in V
      OBVIOUS
    <3> QED BY <1>1
  <2>2. \A k \in 1 .. L, j \in V : k \in Nat
    BY <1>1
  <2> HIDE DEF Better, V
  <2> QED BY <2>1, <2>2
<1>5. 0 \in V
  BY <1>1
<1>6. PICK g : Walk(V, step, 0, L, g)
  <2> HIDE DEF V
  <2> QED BY <1>1, <1>5, Repeats
<1>7. /\ g \in [0 .. L -> V] /\ g[0] = 0 /\ \A k \in 1 .. L : g[k] = Better(k, g[k - 1])
  <2>1. /\ g \in [0 .. L -> V] /\ g[0] = 0 /\ \A k \in 1 .. L : g[k] = step[<<k, g[k - 1]>>]
    BY <1>6 DEF Walk
  <2>2. \A k \in 1 .. L : k - 1 \in 0 .. L
    BY <1>1
  <2> HIDE DEF Better, V
  <2> QED BY <1>4, <2>1, <2>2
<1> HIDE DEF best
<1>8. g = [k \in 0 .. L |->
             IF k = 0 THEN 0
             ELSE IF len[c[k]] >= n /\ len[c[k]] < (IF g[k - 1] = 0 THEN nrFree + 1
                                                    ELSE len[c[g[k - 1]]])
                  THEN k ELSE g[k - 1]]
  <2>1. \A k \in 0 .. L :
          g[k] = IF k = 0 THEN 0
                 ELSE IF len[c[k]] >= n /\ len[c[k]] < (IF g[k - 1] = 0 THEN nrFree + 1
                                                        ELSE len[c[g[k - 1]]])
                      THEN k ELSE g[k - 1]
    <3> SUFFICES ASSUME NEW k \in 0 .. L
                 PROVE  g[k] = IF k = 0 THEN 0
                               ELSE IF len[c[k]] >= n /\ len[c[k]] < Size(g[k - 1])
                                    THEN k ELSE g[k - 1]
      OBVIOUS
    <3>1. k # 0 => k \in 1 .. L
      BY <1>1
    <3> HIDE DEF Size
    <3> QED BY <1>7, <3>1
  <2>2. g = [k \in 0 .. L |-> g[k]]
    BY <1>7
  <2> QED BY <2>1, <2>2
<1>9. best = [k \in 0 .. L |->
                IF k = 0 THEN 0
                ELSE IF len[c[k]] >= n /\ len[c[k]] < (IF best[k - 1] = 0 THEN nrFree + 1
                                                       ELSE len[c[best[k - 1]]])
                     THEN k ELSE best[k - 1]]
  BY <1>8, Zenon DEF best
<1>10. best[0] = 0 /\ \A k \in 1 .. L : best[k] = Better(k, best[k - 1])
  <2>1. 0 \in 0 .. L /\ \A k \in 1 .. L : k \in 0 .. L /\ k # 0
    BY <1>1
  <2>2. best[0] = 0
    BY <1>9, <2>1
  <2>3. ASSUME NEW k \in 1 .. L PROVE best[k] = Better(k, best[k - 1])
    BY <1>9, <2>1
  <2> QED BY <2>2, <2>3
<1>11. \A k \in 0 .. L : Smallest(c, n, k, best[k])
  <2> DEFINE P == {k \in 0 .. L : Smallest(c, n, k, best[k])}
  <2>1. 0 \in P
    BY <1>1, <1>10 DEF Smallest
  <2>2. ASSUME NEW k \in 1 .. L, k - 1 \in P PROVE k \in P
    <3> PICK j, m : j = best[k - 1] /\ m = best[k]
      OBVIOUS
    <3>1. /\ m = Better(k, j) /\ Smallest(c, n, k - 1, j) /\ k \in 0 .. L
          /\ \A i \in 1 .. k : i \in 1 .. k - 1 \/ i = k
          /\ \A i \in 1 .. k - 1 : i \in 1 .. k
          /\ \A i \in 1 .. k : i \in 1 .. L
          /\ k \in Nat /\ k \in 1 .. k
      BY <1>1, <1>10, <2>2
    <3> SUFFICES Smallest(c, n, k, m)
      BY <3>1
    <3>2. CASE j = 0
      <4>1. \A i \in 1 .. k - 1 : property[c[i]] < n
        BY <3>1, <3>2 DEF Smallest
      <4>2. m = IF property[c[k]] >= n THEN k ELSE 0
        BY <1>1, <1>2, <3>1, <3>2
      <4>3. CASE property[c[k]] >= n
        <5>1. m \in 1 .. k /\ property[c[m]] >= n
          BY <3>1, <4>2, <4>3
        <5>2. ASSUME NEW i \in 1 .. k, property[c[i]] >= n
              PROVE  property[c[m]] = property[c[i]] /\ m <= i
          <6>1. i \notin 1 .. k - 1
            BY <1>1, <1>2, <3>1, <4>1, <5>2
          <6>2. i = k /\ m = k
            BY <3>1, <4>2, <4>3, <6>1
          <6> QED BY <3>1, <6>2
        <5> QED BY <5>1, <5>2 DEF Smallest
      <4>4. CASE ~(property[c[k]] >= n)
        <5>1. m = 0
          BY <4>2, <4>4
        <5>2. ASSUME NEW i \in 1 .. k PROVE property[c[i]] < n
          <6>1. i \in 1 .. k - 1 => property[c[i]] < n
            BY <4>1
          <6>2. i = k => property[c[i]] < n
            BY <1>1, <1>2, <3>1, <4>4
          <6> QED BY <3>1, <6>1, <6>2
        <5> QED BY <5>1, <5>2 DEF Smallest
      <4> QED BY <4>3, <4>4
    <3>3. CASE j # 0
      <4>1. /\ j \in 1 .. k - 1 /\ property[c[j]] >= n
            /\ \A i \in 1 .. k - 1 : property[c[i]] >= n =>
                 \/ property[c[j]] < property[c[i]]
                 \/ property[c[j]] = property[c[i]] /\ j <= i
        BY <3>1, <3>3 DEF Smallest
      <4>2. \A i \in 1 .. k : property[c[i]] \in Nat
        BY <1>1, <3>1
      <4>3. j \in 1 .. k /\ j < k /\ j \in Nat
        BY <3>1, <4>1
      <4>4. m = IF property[c[k]] >= n /\ property[c[k]] < property[c[j]] THEN k ELSE j
        BY <3>1, <3>3
      <4>5. CASE property[c[k]] >= n /\ property[c[k]] < property[c[j]]
        <5>1. \A i \in 1 .. k - 1 : property[c[i]] >= n => property[c[k]] < property[c[i]]
          <6> SUFFICES ASSUME NEW i \in 1 .. k - 1, property[c[i]] >= n
                       PROVE  property[c[k]] < property[c[i]]
            OBVIOUS
          <6>1. /\ property[c[i]] \in Nat /\ property[c[j]] \in Nat /\ property[c[k]] \in Nat
            BY <3>1, <4>2, <4>3
          <6>2. property[c[j]] <= property[c[i]]
            BY <4>1, <6>1
          <6> QED BY <4>5, <6>1, <6>2
        <5>2. m = k /\ m \in 1 .. k
          BY <3>1, <4>4, <4>5
        <5>3. ASSUME NEW i \in 1 .. k, property[c[i]] >= n
              PROVE  \/ property[c[m]] < property[c[i]]
                     \/ property[c[m]] = property[c[i]] /\ m <= i
          <6>1. i \in 1 .. k - 1 \/ i = k
            BY <3>1
          <6> QED BY <3>1, <5>1, <5>2, <5>3, <6>1
        <5> QED BY <4>5, <5>2, <5>3 DEF Smallest
      <4>6. CASE ~ (property[c[k]] >= n /\ property[c[k]] < property[c[j]])
        <5>1. property[c[k]] >= n =>
                \/ property[c[j]] < property[c[k]]
                \/ property[c[j]] = property[c[k]] /\ j <= k
          BY <1>2, <3>1, <4>2, <4>3, <4>6
        <5> QED BY <3>1, <4>1, <4>3, <4>4, <4>6, <5>1 DEF Smallest
      <4> QED BY <4>5, <4>6
    <3> QED BY <3>2, <3>3
  <2> HIDE DEF P
  <2>3. \A k \in 0 .. L : k \in P
    BY <1>1, <2>1, <2>2, EveryRound
  <2> QED BY <2>3 DEF P
<1>12. Smallest(c, n, L, best[L])
  BY <1>1, <1>11
<1> QED BY <1>3, <1>12 DEF c, L

\* A block is as long as the run that begins with it.
LEMMA LengthIs ==
  ASSUME ConstantsOK, FitInv, NEW p \in isHead
  PROVE  Length(p) = property[p]
<1> PICK F : F = FreePages
  OBVIOUS
<1> PICK m : m = property[p]
  OBVIOUS
<1>1. /\ N \in Nat /\ p \in Nat /\ p > 0 /\ m \in Nat /\ m > 0 /\ p + m <= N + 1
      /\ p .. p + m - 1 \subseteq F /\ p + m \notin F
  BY FitFacts
<1> DEFINE T == {k \in 1 .. N : p .. p + k - 1 \subseteq F}
<1>2. m \in T
  BY <1>1
<1>3. ASSUME NEW k \in T PROVE k <= m
  <2>1. k \in Nat /\ p + m \notin p .. p + k - 1
    BY <1>1
  <2> QED BY <1>1, <2>1
<1>4. \A k \in T : k \in Nat
  BY <1>1
<1>5. Length(p) = CHOOSE x \in T : \A y \in T : x >= y
  BY DEF Length, Max
<1> HIDE DEF T
<1>6. \A y \in T : m >= y
  BY <1>1, <1>3, <1>4
<1>7. Length(p) \in T /\ \A y \in T : Length(p) >= y
  BY <1>2, <1>5, <1>6, Zenon
<1>8. Length(p) \in Nat /\ Length(p) >= m /\ Length(p) <= m
  BY <1>2, <1>3, <1>4, <1>7
<1> QED BY <1>1, <1>8

\* With an exact list, best fit finds the lowest of the shortest runs that fit.
LEMMA FitBestExact == ASSUME ConstantsOK, FitInv PROVE BestExact
<1> SUFFICES ASSUME NEW n \in Pages PROVE BestWithRoom(n) = ShortestRun(n)
  BY DEF BestExact
<1> PICK c : c = Chain(links)
  OBVIOUS
<1>1. /\ isHead \in SUBSET Nat /\ RunStarts = isHead /\ Lists(c, isHead)
      /\ \A p \in isHead : property[p] \in Nat /\ property[p] <= nrFree
      /\ nrFree \in Nat
  BY FitFacts
<1>2. n \in Nat /\ n > 0
  BY DEF ConstantsOK, Pages
<1>3. PICK j : /\ Smallest(c, n, Len(c), j)
               /\ BestWithRoom(n) = IF n > nrFree \/ j = 0 THEN FreeList ELSE c[j]
  BY BestFound
<1> DEFINE runs == {p \in isHead : property[p] >= n}
           short == {p \in runs : \A q \in runs : property[p] <= property[q]}
<1>4. ShortestRun(n) = IF runs = {} THEN FreeList ELSE Min(short)
  <2>1. {p \in RunStarts : Length(p) >= n} = runs
    BY <1>1, LengthIs
  <2>2. {p \in runs : \A q \in runs : Length(p) <= Length(q)} = short
    BY LengthIs
  <2> HIDE DEF runs, short
  <2> QED BY <2>1, <2>2 DEF ShortestRun
<1>5. CASE j = 0
  <2>1. \A i \in 1 .. Len(c) : property[c[i]] < n
    BY <1>3, <1>5 DEF Smallest
  <2>2. ASSUME NEW q \in runs PROVE FALSE
    <3>1. PICK i \in 1 .. Len(c) : c[i] = q
      BY <1>1 DEF Lists
    <3>2. property[q] < n /\ property[q] >= n /\ property[q] \in Nat
      BY <1>1, <2>1, <3>1
    <3> QED BY <1>2, <3>2
  <2> QED BY <1>3, <1>4, <1>5, <2>2
<1>6. CASE j # 0
  <2>1. /\ j \in 1 .. Len(c) /\ property[c[j]] >= n
        /\ \A i \in 1 .. Len(c) : property[c[i]] >= n =>
             \/ property[c[j]] < property[c[i]]
             \/ property[c[j]] = property[c[i]] /\ j <= i
    BY <1>3, <1>6 DEF Smallest
  <2>0. c[j] \in isHead /\ Len(c) \in Nat
    BY <1>1, <2>1 DEF Lists
  <2>2. c[j] \in runs /\ property[c[j]] \in Nat /\ property[c[j]] <= nrFree /\ j \in Nat
    <3>1. property[c[j]] \in Nat /\ property[c[j]] <= nrFree
      BY <1>1, <2>0
    <3>2. j \in Nat
      BY <2>0, <2>1
    <3> QED BY <2>0, <2>1, <3>1, <3>2
  <2>3. \A q \in isHead : \E i \in 1 .. Len(c) : c[i] = q
    BY <1>1 DEF Lists
  <2>4. ASSUME NEW q \in runs PROVE property[c[j]] <= property[q]
    <3>1. PICK i \in 1 .. Len(c) : c[i] = q
      BY <2>3
    <3> QED BY <1>1, <2>1, <2>2, <3>1
  <2>5. c[j] \in short
    BY <2>2, <2>4
  <2>6. ASSUME NEW q \in short PROVE c[j] <= q
    <3>1. PICK i \in 1 .. Len(c) : c[i] = q
      BY <2>3
    <3>2. property[q] <= property[c[j]] /\ property[q] >= n /\ property[q] \in Nat
      BY <1>1, <2>2
    <3>3. j <= i
      BY <2>1, <2>2, <3>1, <3>2
    <3>4. j = i \/ j < i
      BY <2>2, <3>1, <3>3
    <3>5. j < i => c[j] < c[i]
      BY <1>1, <2>1, <3>1 DEF Lists
    <3>6. q \in Nat /\ c[j] \in Nat
      BY <1>1, <2>2
    <3> QED BY <3>1, <3>4, <3>5, <3>6
  <2>7. short \in SUBSET Nat /\ runs # {}
    BY <1>1, <2>2
  <2> HIDE DEF short, runs
  <2>8. Min(short) = c[j]
    BY <2>5, <2>6, <2>7, MinIs
  <2>9. ~(n > nrFree)
    BY <1>1, <1>2, <2>1, <2>2
  <2> QED BY <1>3, <1>4, <1>6, <2>7, <2>8, <2>9
<1> QED BY <1>5, <1>6

-----------------------------------------------------------------------------
(* The theorems. *)

\* What first fit finds is a block with room.
LEMMA FirstHasRoom ==
  ASSUME ConstantsOK, FitInv, NEW n \in Pages, FirstWithRoom(n) # FreeList
  PROVE  FirstWithRoom(n) \in isHead /\ property[FirstWithRoom(n)] >= n
<1> PICK c : c = Chain(links)
  OBVIOUS
<1> DEFINE fit == {k \in DOMAIN c : property[c[k]] >= n}
<1>1. Lists(c, isHead)
  BY FitFacts
<1>2. fit # {} /\ FirstWithRoom(n) = c[Min(fit)]
  BY DEF FirstWithRoom
<1>3. Min(fit) \in fit
  <2>1. fit \in SUBSET Nat
    BY <1>1 DEF Lists
  <2> HIDE DEF fit
  <2> QED BY <1>2, <2>1, LeastOf
<1> QED BY <1>1, <1>2, <1>3 DEF Lists

\* What best fit finds is a block with room.
LEMMA BestHasRoom ==
  ASSUME ConstantsOK, FitInv, NEW n \in Pages, BestWithRoom(n) # FreeList
  PROVE  BestWithRoom(n) \in isHead /\ property[BestWithRoom(n)] >= n
<1> PICK c : c = Chain(links)
  OBVIOUS
<1>1. Lists(c, isHead)
  BY FitFacts
<1>2. PICK j : /\ Smallest(c, n, Len(c), j)
               /\ BestWithRoom(n) = IF n > nrFree \/ j = 0 THEN FreeList ELSE c[j]
  BY BestFound
<1>3. j # 0 /\ BestWithRoom(n) = c[j]
  BY <1>2
<1>4. j \in 1 .. Len(c) /\ property[c[j]] >= n
  BY <1>2, <1>3 DEF Smallest
<1> QED BY <1>1, <1>3, <1>4 DEF Lists

\* A step that changes nothing keeps the invariant.
LEMMA RestKeeps == ASSUME FitInv, UNCHANGED vars PROVE FitInv'
  BY DEF FitInv, vars, FreePages, Pages, BlocksOK, LinkType

\* First fit keeps its list sorted, its blocks apart and its count right
\* (default_pmm.c).
LEMMA FirstFitKeeps ==
  ASSUME ConstantsOK, AmpleMemory, FitInv, [Next]_vars
  PROVE  FitInv'
<1>1. ASSUME NEW n \in Pages, Alloc(n) PROVE FitInv'
  <2> PICK page : page = FirstWithRoom(n)
    OBVIOUS
  <2>1. AllocFrom(page, n)
    BY <1>1 DEF Alloc
  <2>2. page # FreeList
    BY <2>1, Zenon DEF AllocFrom
  <2>3. page \in isHead /\ property[page] >= n
    BY <2>2, FirstHasRoom
  <2> QED BY <2>1, <2>3, AllocKeeps
<1>2. ASSUME NEW n \in Pages, NEW base \in Pages, Free(base, n) PROVE FitInv'
  BY <1>2, FreeKeeps
<1> QED BY <1>1, <1>2, RestKeeps DEF Next

\* So does best fit (best_fit_pmm.c).
LEMMA BestFitKeeps ==
  ASSUME ConstantsOK, AmpleMemory, FitInv, [BestNext]_vars
  PROVE  FitInv'
<1>1. ASSUME NEW n \in Pages, BestAlloc(n) PROVE FitInv'
  <2> PICK page : page = BestWithRoom(n)
    OBVIOUS
  <2>1. AllocFrom(page, n)
    BY <1>1 DEF BestAlloc
  <2>2. page # FreeList
    BY <2>1, Zenon DEF AllocFrom
  <2>3. page \in isHead /\ property[page] >= n
    BY <2>2, BestHasRoom
  <2> QED BY <2>1, <2>3, AllocKeeps
<1>2. ASSUME NEW n \in Pages, NEW base \in Pages, BestFree(base, n) PROVE FitInv'
  BY <1>2, FreeKeeps DEF BestFree
<1> QED BY <1>1, <1>2, RestKeeps DEF BestNext

\* The invariant holds from default_init_memmap() on (default_pmm.c).
THEOREM FirstFitHolds == ASSUME ConstantsOK, AmpleMemory PROVE Spec => []FitInv
BY InitFit, FirstFitKeeps, PTL DEF Spec

\* And from best_fit_init_memmap() on (best_fit_pmm.c).
THEOREM BestFitHolds ==
  ASSUME ConstantsOK, AmpleMemory PROVE Init /\ [][BestNext]_vars => []FitInv
BY InitFit, BestFitKeeps, PTL

\* A page of a free block has no holder, and any page has at most one.
LEMMA FitHeldOnce == ASSUME ConstantsOK, FitInv PROVE HeldOnce /\ TypeOK
<1>1. /\ isHead \in SUBSET Pages /\ RunStarts = isHead /\ nrFree \in Nat /\ nrFree <= N
      /\ N \in Nat
  BY FitFacts
<1>2. holders \in [Pages -> {0, 1}] /\ links \in LinkType /\ property \in [Pages -> 0 .. N]
  BY DEF FitInv, BlocksOK
<1>3. \A p \in isHead : holders[p] = 0
  BY <1>1 DEF RunStarts, FreePages
<1>4. HeldOnce
  <2> SUFFICES ASSUME NEW p \in Pages PROVE holders[p] <= 1 /\ (holders[p] = 1 => p \notin isHead)
    BY DEF HeldOnce
  <2>1. holders[p] = 0 \/ holders[p] = 1
    BY <1>2
  <2> QED BY <1>3, <2>1
<1>5. holders \in [Pages -> Nat]
  BY <1>2
<1>6. nrFree \in 0 .. N
  BY <1>1
<1> QED BY <1>1, <1>2, <1>4, <1>5, <1>6 DEF TypeOK, LinkType

\* The free list of first fit is the sorted list of the maximal free runs, and a request
\* gets the lowest run that fits (default_pmm.c, default_check).
THEOREM FirstFitExact ==
  ASSUME ConstantsOK, AmpleMemory PROVE Spec => [](ListExact /\ AllocExact)
BY FirstFitHolds, FitListExact, FitAllocExact, PTL

\* The free list of best fit is that list too, and a request gets a shortest run that
\* fits (best_fit_pmm.c, best_fit_check).
THEOREM BestFitExact ==
  ASSUME ConstantsOK, AmpleMemory
  PROVE  Init /\ [][BestNext]_vars => [](ListExact /\ BestExact)
BY BestFitHolds, FitListExact, FitBestExact, PTL

\* No page is handed out to two callers while the last page stays free (default_pmm.c,
\* basic_check).
THEOREM NoPageTwice ==
  ASSUME ConstantsOK, AmpleMemory PROVE Spec => [](HeldOnce /\ TypeOK)
BY FirstFitHolds, FitHeldOnce, PTL

-----------------------------------------------------------------------------
\* load_icode(): the pages of a segment, and the stack.

\* The beginning of a page, and the page of an address.
IsPage(p) == \E k \in Nat : p = k * ElfPage

Base(x) == (x \div ElfPage) * ElfPage

\* Pages follow each other.
LEMMA PageNext ==
  ASSUME ElfPage \in Nat \ {0}, NEW p \in Nat, IsPage(p)
  PROVE  IsPage(p + ElfPage)
<1>1. PICK k \in Nat : p = k * ElfPage
  BY DEF IsPage
<1>2. p + ElfPage = (k + 1) * ElfPage /\ k + 1 \in Nat
  BY <1>1
<1> QED BY <1>2 DEF IsPage

\* And do not overlap.
LEMMA PagesApart ==
  ASSUME ElfPage \in Nat \ {0}, NEW p \in Nat, NEW q \in Nat, IsPage(p), IsPage(q), p < q
  PROVE  p + ElfPage <= q
<1>1. PICK k \in Nat : p = k * ElfPage
  BY DEF IsPage
<1>2. PICK m \in Nat : q = m * ElfPage
  BY DEF IsPage
<1>3. k < m
  <2> SUFFICES ASSUME ~(k < m) PROVE FALSE
    OBVIOUS
  <2>1. PICK d \in Nat : k = m + d
    <3>1. k - m \in Nat /\ k = m + (k - m)
      OBVIOUS
    <3> QED BY <3>1
  <2>2. k * ElfPage = m * ElfPage + d * ElfPage /\ d * ElfPage \in Nat /\ m * ElfPage \in Nat
    BY <2>1
  <2> QED BY <1>1, <1>2, <2>2
<1>4. PICK d \in Nat : m = (k + 1) + d
  <2>1. m - (k + 1) \in Nat /\ m = (k + 1) + (m - (k + 1))
    BY <1>3
  <2> QED BY <2>1
<1>5. m * ElfPage = (k * ElfPage + ElfPage) + d * ElfPage /\ d * ElfPage \in Nat
  BY <1>4
<1> QED BY <1>1, <1>2, <1>5

\* An address lies in its page.
LEMMA BaseIs ==
  ASSUME ElfPage \in Nat \ {0}, NEW x \in Nat
  PROVE  /\ Base(x) \in Nat /\ IsPage(Base(x)) /\ Base(x) <= x /\ x < Base(x) + ElfPage
         /\ x % ElfPage \in 0 .. ElfPage - 1 /\ Base(x) + (x % ElfPage) = x
<1>1. PICK q \in Nat : q = x \div ElfPage
  OBVIOUS
<1>2. q * ElfPage \in Nat /\ q * ElfPage <= x /\ x < q * ElfPage + ElfPage
  BY <1>1
<1>3. x % ElfPage \in 0 .. ElfPage - 1 /\ q * ElfPage + (x % ElfPage) = x
  <2>1. PICK b \in Nat : b = q * ElfPage
    BY <1>2
  <2>2. PICK r \in 0 .. ElfPage - 1 : r = x - b
    BY <1>2, <2>1
  <2>3. x = q * ElfPage + r
    BY <2>1, <2>2
  <2>4. x % ElfPage = r
    BY <2>3, RemainderIs
  <2>5. b + r = x
    BY <2>1, <2>2
  <2>6. q * ElfPage + r = x
    BY <2>3
  <2>7. x % ElfPage \in 0 .. ElfPage - 1
    BY <2>4
  <2>8. q * ElfPage + (x % ElfPage) = x
    BY <2>4, <2>6, Zenon
  <2> QED BY <2>7, <2>8, Zenon
<1> QED BY <1>1, <1>2, <1>3 DEF Base, IsPage

\* And in no other.
LEMMA BaseUnique ==
  ASSUME ElfPage \in Nat \ {0}, NEW x \in Nat, NEW p \in Nat, IsPage(p), p <= x, x < p + ElfPage
  PROVE  Base(x) = p
<1>1. /\ Base(x) \in Nat /\ IsPage(Base(x)) /\ Base(x) <= x /\ x < Base(x) + ElfPage
  BY BaseIs
<1>2. ~(Base(x) < p)
  BY <1>1, PagesApart
<1>3. ~(p < Base(x))
  BY <1>1, PagesApart
<1> QED BY <1>1, <1>2, <1>3

\* What the byte at an address of the segment is to hold.
Content(s, x) == IF x - s.va < s.filesz THEN x - s.va ELSE Elf!Zero

\* The pages ps reach from the first of the segment s to the address l.
Laid(s, ps, l) ==
  /\ DOMAIN ps = {p \in Nat : IsPage(p) /\ Base(s.va) <= p /\ p < l}
  /\ \A p \in DOMAIN ps : DOMAIN ps[p] = 0 .. ElfPage - 1

\* They hold what they should up to the address x.
ReadTo(s, ps, x) ==
  \A p \in DOMAIN ps : \A i \in 0 .. ElfPage - 1 :
    s.va <= p + i /\ p + i < x => ps[p][i] = Content(s, p + i)

\* Where the next byte goes, seen from the last page.
Placed ==
  /\ seg.va <= start /\ start < la + ElfPage /\ la < start + ElfPage
  /\ start > la => start = seg.va
  /\ loading = "file" =>
       start <= Elf!FileEnd /\ (start < la => start = Elf!FileEnd) /\ offset = start - seg.va
  /\ loading = "tail" => start = Elf!FileEnd /\ start < la /\ start < Elf!MemEnd
  /\ loading = "bss" =>
       Elf!FileEnd <= start /\ start <= Elf!MemEnd /\ (start < la => start = Elf!MemEnd)
  /\ loading \in {"loaded", "done"} => start = Elf!MemEnd /\ start <= la

ElfTypes ==
  /\ seg \in [va : Nat, filesz : Nat, memsz : Nat]
  /\ seg.filesz <= seg.memsz /\ seg.memsz > 0
  /\ start \in Nat /\ la \in Nat /\ offset \in Int
  /\ loading \in {"file", "tail", "bss", "loaded", "done"}
  /\ IsPage(la) /\ Base(seg.va) <= la

SegInv == ElfTypes /\ Laid(seg, pages, la) /\ ReadTo(seg, pages, start) /\ Placed

\* What is put into a new page behind what is there.
LEMMA PageAdded ==
  ASSUME ElfPage \in Nat \ {0}, NEW s \in [va : Nat, filesz : Nat, memsz : Nat],
         NEW ps, NEW ps2, NEW l \in Nat, NEW x \in Nat, NEW n \in Nat, NEW f,
         IsPage(l), Base(s.va) <= l, Laid(s, ps, l), ReadTo(s, ps, x),
         s.va <= x, l <= x, x + n <= l + ElfPage, x > l => x = s.va,
         DOMAIN f = 0 .. n - 1, \A j \in 0 .. n - 1 : f[j] = Content(s, x + j),
         ps2 = [a \in DOMAIN ps \cup {l} |->
                  IF a # l THEN ps[a]
                  ELSE [i \in 0 .. ElfPage - 1 |->
                          IF i - (x - l) \in DOMAIN f THEN f[i - (x - l)] ELSE Elf!Junk]]
  PROVE  Laid(s, ps2, l + ElfPage) /\ ReadTo(s, ps2, x + n)
<1>1. DOMAIN ps = {p \in Nat : IsPage(p) /\ Base(s.va) <= p /\ p < l}
  BY DEF Laid
<1>2. \A p \in DOMAIN ps : p \in Nat /\ p # l /\ p + ElfPage <= l
  BY <1>1, PagesApart
<1>3. DOMAIN ps2 = DOMAIN ps \cup {l}
  OBVIOUS
<1>4. \A p \in DOMAIN ps : ps2[p] = ps[p]
  BY <1>2
<1>5. ps2[l] = [i \in 0 .. ElfPage - 1 |->
                  IF i - (x - l) \in DOMAIN f THEN f[i - (x - l)] ELSE Elf!Junk]
  OBVIOUS
<1>6. DOMAIN ps2 = {p \in Nat : IsPage(p) /\ Base(s.va) <= p /\ p < l + ElfPage}
  <2>1. ASSUME NEW p \in Nat, IsPage(p), Base(s.va) <= p, p < l + ElfPage PROVE p \in DOMAIN ps2
    <3>1. ~(l < p)
      <4> SUFFICES ASSUME l < p PROVE FALSE
        OBVIOUS
      <4>1. l + ElfPage <= p
        BY <2>1, PagesApart
      <4> QED BY <4>1, <2>1
    <3>2. p = l \/ p < l
      BY <3>1
    <3> QED BY <1>1, <1>3, <2>1, <3>2
  <2>2. ASSUME NEW p \in DOMAIN ps2
        PROVE  p \in Nat /\ IsPage(p) /\ Base(s.va) <= p /\ p < l + ElfPage
    <3>1. CASE p = l
      BY <3>1
    <3>2. CASE p \in DOMAIN ps
      BY <3>2, <1>1
    <3> QED BY <1>3, <3>1, <3>2
  <2> QED BY <2>1, <2>2
<1>7. ASSUME NEW p \in DOMAIN ps2 PROVE DOMAIN ps2[p] = 0 .. ElfPage - 1
  <2>1. CASE p = l
    BY <2>1, <1>5
  <2>2. CASE p \in DOMAIN ps
    BY <2>2, <1>4 DEF Laid
  <2> QED BY <1>3, <2>1, <2>2
<1>8. ASSUME NEW p \in DOMAIN ps2, NEW i \in 0 .. ElfPage - 1, s.va <= p + i, p + i < x + n
      PROVE  ps2[p][i] = Content(s, p + i)
  <2>1. CASE p = l
    <3>1. ~(l + i < x)
      BY <1>8, <2>1
    <3>2. PICK j \in 0 .. n - 1 : j = i - (x - l)
      BY <1>8, <2>1, <3>1
    <3>3. ps2[l][i] = f[j]
      BY <1>5, <3>2
    <3>4. f[j] = Content(s, x + j) /\ x + j = l + i
      BY <3>2
    <3> QED BY <2>1, <3>3, <3>4
  <2>2. CASE p \in DOMAIN ps
    <3>1. p \in Nat /\ p + i < x
      BY <2>2, <1>2
    <3> QED BY <2>2, <3>1, <1>4, <1>8 DEF ReadTo
  <2> QED BY <1>3, <2>1, <2>2
<1> QED BY <1>6, <1>7, <1>8 DEF Laid, ReadTo

\* What a round of a loop moves.
LEMMA SizeInIs ==
  ASSUME ElfPage \in Nat \ {0}, ElfTypes, NEW end \in Nat,
         la <= start, start < la + ElfPage, start < end
  PROVE  /\ Elf!SizeIn(end) \in Nat \ {0} /\ start + Elf!SizeIn(end) <= la + ElfPage
         /\ start + Elf!SizeIn(end) = IF end < la + ElfPage THEN end ELSE la + ElfPage
  BY DEF Elf!SizeIn, ElfTypes

-----------------------------------------------------------------------------
\* load_icode() begins with the invariant.
LEMMA SegStarts ==
  ASSUME Elf!ConstantsOK, Elf!Init
  PROVE  SegInv
<1>1. /\ seg \in [va : Nat, filesz : Nat, memsz : Nat]
      /\ seg.filesz <= seg.memsz /\ seg.memsz > 0
  BY DEF Elf!Init, Elf!ConstantsOK
<1>2. /\ pages = <<>> /\ offset = 0 /\ loading = "file"
      /\ start = seg.va /\ la = Base(seg.va)
  BY DEF Elf!Init, Base
<1>3. ElfPage \in Nat \ {0} /\ seg.va \in Nat
  BY <1>1 DEF Elf!ConstantsOK
<1>4. la \in Nat /\ IsPage(la) /\ la <= start /\ start < la + ElfPage
  BY <1>2, <1>3, BaseIs
<1>5. DOMAIN pages = {}
  BY <1>2
<1>6. Laid(seg, pages, la) /\ ReadTo(seg, pages, start)
  BY <1>2, <1>4, <1>5 DEF Laid, ReadTo
<1>7. ElfTypes
  BY <1>1, <1>2, <1>3, <1>4 DEF ElfTypes
<1>8. Placed
  BY <1>1, <1>2, <1>3, <1>4 DEF Placed, Elf!FileEnd
<1> QED BY <1>6, <1>7, <1>8 DEF SegInv

\* The facts that the steps below start from.
LEMMA SegFacts ==
  ASSUME Elf!ConstantsOK, SegInv
  PROVE  /\ ElfPage \in Nat \ {0} /\ ElfTypes
         /\ seg \in [va : Nat, filesz : Nat, memsz : Nat] /\ seg.va \in Nat
         /\ seg.filesz \in Nat /\ seg.memsz \in Nat
         /\ Elf!FileEnd \in Nat /\ Elf!MemEnd \in Nat
         /\ Elf!FileEnd <= Elf!MemEnd /\ seg.va < Elf!MemEnd
         /\ Laid(seg, pages, la) /\ ReadTo(seg, pages, start) /\ Placed
         /\ start \in Nat /\ la \in Nat /\ IsPage(la) /\ Base(seg.va) <= la
<1>1. ElfPage \in Nat \ {0}
  BY DEF Elf!ConstantsOK
<1>2. ElfTypes /\ Laid(seg, pages, la) /\ ReadTo(seg, pages, start) /\ Placed
  BY DEF SegInv
<1>3. /\ seg \in [va : Nat, filesz : Nat, memsz : Nat] /\ seg.va \in Nat
      /\ seg.filesz \in Nat /\ seg.memsz \in Nat
      /\ seg.filesz <= seg.memsz /\ seg.memsz > 0
  BY <1>2 DEF ElfTypes
<1>4. Elf!FileEnd \in Nat /\ Elf!MemEnd \in Nat /\ Elf!FileEnd <= Elf!MemEnd /\ seg.va < Elf!MemEnd
  BY <1>3 DEF Elf!FileEnd, Elf!MemEnd
<1>5. start \in Nat /\ la \in Nat /\ IsPage(la) /\ Base(seg.va) <= la
  BY <1>2 DEF ElfTypes
<1> QED BY <1>1, <1>2, <1>3, <1>4, <1>5

\* One round of the loop that reads from the file.
LEMMA ReadPageKeeps ==
  ASSUME Elf!ConstantsOK, SegInv, Elf!ReadPage
  PROVE  SegInv'
<1>1. /\ ElfPage \in Nat \ {0} /\ ElfTypes
      /\ seg \in [va : Nat, filesz : Nat, memsz : Nat] /\ seg.va \in Nat
      /\ Elf!FileEnd \in Nat /\ Laid(seg, pages, la) /\ ReadTo(seg, pages, start) /\ Placed
      /\ start \in Nat /\ la \in Nat /\ IsPage(la) /\ Base(seg.va) <= la
  BY SegFacts
<1>2. /\ loading = "file" /\ start < Elf!FileEnd
      /\ Elf!NewPage(la, start - la, [i \in 0 .. Elf!SizeIn(Elf!FileEnd) - 1 |-> offset + i])
      /\ start' = start + Elf!SizeIn(Elf!FileEnd) /\ offset' = offset + Elf!SizeIn(Elf!FileEnd)
      /\ la' = la + ElfPage /\ seg' = seg /\ loading' = loading
  BY DEF Elf!ReadPage
<1>3. /\ seg.va <= start /\ start < la + ElfPage /\ la < start + ElfPage
      /\ start > la => start = seg.va
      /\ la <= start /\ offset = start - seg.va
  BY <1>1, <1>2 DEF Placed
<1>4. /\ Elf!SizeIn(Elf!FileEnd) \in Nat \ {0} /\ start + Elf!SizeIn(Elf!FileEnd) <= la + ElfPage
      /\ start + Elf!SizeIn(Elf!FileEnd)
           = IF Elf!FileEnd < la + ElfPage THEN Elf!FileEnd ELSE la + ElfPage
  BY <1>1, <1>2, <1>3, SizeInIs
<1>a. PICK n \in Nat \ {0} : n = Elf!SizeIn(Elf!FileEnd)
  BY <1>4
<1>b. PICK f : f = [i \in 0 .. n - 1 |-> offset + i]
  OBVIOUS
<1>5. start + n <= Elf!FileEnd
  BY <1>1, <1>4, <1>a
<1>6. \A j \in 0 .. n - 1 : f[j] = Content(seg, start + j)
  <2> SUFFICES ASSUME NEW j \in 0 .. n - 1 PROVE f[j] = Content(seg, start + j)
    OBVIOUS
  <2>1. f[j] = (start - seg.va) + j
    BY <1>b, <1>3
  <2>2. (start + j) - seg.va < seg.filesz /\ (start + j) - seg.va = (start - seg.va) + j
    BY <1>1, <1>5 DEF Elf!FileEnd
  <2> QED BY <2>1, <2>2 DEF Content
<1>7. DOMAIN f = 0 .. n - 1
  BY <1>b
<1>8. pages' = [a \in DOMAIN pages \cup {la} |->
                  IF a # la THEN pages[a]
                  ELSE [i \in 0 .. ElfPage - 1 |->
                          IF i - (start - la) \in DOMAIN f THEN f[i - (start - la)] ELSE Elf!Junk]]
  BY <1>2, <1>a, <1>b DEF Elf!NewPage
<1>9. Laid(seg, pages', la + ElfPage) /\ ReadTo(seg, pages', start + n)
  BY <1>1, <1>3, <1>4, <1>a, <1>6, <1>7, <1>8, PageAdded
<1>10. Laid(seg, pages, la)' /\ ReadTo(seg, pages, start)'
  BY <1>2, <1>9, <1>a
<1>11. ElfTypes'
  <2>1. IsPage(la + ElfPage) /\ la + ElfPage \in Nat /\ Base(seg.va) <= la + ElfPage
    <3>1. Base(seg.va) \in Nat
      BY <1>1, BaseIs
    <3> QED BY <3>1, <1>1, PageNext
  <2>2. start + n \in Nat /\ offset + n \in Int
    BY <1>1, <1>3
  <2> QED BY <1>1, <1>2, <1>a, <2>1, <2>2 DEF ElfTypes
<1>12. Placed'
  <2>1. Elf!FileEnd' = Elf!FileEnd /\ Elf!MemEnd' = Elf!MemEnd
    BY <1>2 DEF Elf!FileEnd, Elf!MemEnd
  <2>2. start' = start + n /\ la' = la + ElfPage /\ offset' = offset + n
    BY <1>2, <1>a
  <2>3. start + n
           = IF Elf!FileEnd < la + ElfPage THEN Elf!FileEnd ELSE la + ElfPage
    BY <1>4, <1>a
  <2> QED BY <2>1, <2>2, <2>3, <1>1, <1>2, <1>3 DEF Placed
<1> QED BY <1>10, <1>11, <1>12 DEF SegInv

\* One round of the loop for pages without anything of the file.
LEMMA ZeroPageKeeps ==
  ASSUME Elf!ConstantsOK, SegInv, Elf!ZeroPage
  PROVE  SegInv'
<1>1. /\ ElfPage \in Nat \ {0} /\ ElfTypes
      /\ seg \in [va : Nat, filesz : Nat, memsz : Nat] /\ seg.va \in Nat
      /\ Elf!FileEnd \in Nat /\ Elf!MemEnd \in Nat
      /\ Laid(seg, pages, la) /\ ReadTo(seg, pages, start) /\ Placed
      /\ start \in Nat /\ la \in Nat /\ IsPage(la) /\ Base(seg.va) <= la
  BY SegFacts
<1>2. /\ loading = "bss" /\ start < Elf!MemEnd
      /\ Elf!NewPage(la, start - la, [i \in 0 .. Elf!SizeIn(Elf!MemEnd) - 1 |-> Elf!Zero])
      /\ start' = start + Elf!SizeIn(Elf!MemEnd)
      /\ la' = la + ElfPage /\ seg' = seg /\ loading' = loading /\ offset' = offset
  BY DEF Elf!ZeroPage
<1>3. /\ seg.va <= start /\ start < la + ElfPage /\ la < start + ElfPage
      /\ start > la => start = seg.va
      /\ la <= start /\ Elf!FileEnd <= start
  BY <1>1, <1>2 DEF Placed
<1>4. /\ Elf!SizeIn(Elf!MemEnd) \in Nat \ {0} /\ start + Elf!SizeIn(Elf!MemEnd) <= la + ElfPage
      /\ start + Elf!SizeIn(Elf!MemEnd)
           = IF Elf!MemEnd < la + ElfPage THEN Elf!MemEnd ELSE la + ElfPage
  BY <1>1, <1>2, <1>3, SizeInIs
<1>a. PICK n \in Nat \ {0} : n = Elf!SizeIn(Elf!MemEnd)
  BY <1>4
<1>b. PICK f : f = [i \in 0 .. n - 1 |-> Elf!Zero]
  OBVIOUS
<1>6. \A j \in 0 .. n - 1 : f[j] = Content(seg, start + j)
  <2> SUFFICES ASSUME NEW j \in 0 .. n - 1 PROVE f[j] = Content(seg, start + j)
    OBVIOUS
  <2>1. ~((start + j) - seg.va < seg.filesz)
    BY <1>1, <1>3 DEF Elf!FileEnd
  <2> QED BY <1>b, <2>1 DEF Content
<1>7. DOMAIN f = 0 .. n - 1
  BY <1>b
<1>8. pages' = [a \in DOMAIN pages \cup {la} |->
                  IF a # la THEN pages[a]
                  ELSE [i \in 0 .. ElfPage - 1 |->
                          IF i - (start - la) \in DOMAIN f THEN f[i - (start - la)] ELSE Elf!Junk]]
  BY <1>2, <1>a, <1>b DEF Elf!NewPage
<1>9. Laid(seg, pages', la + ElfPage) /\ ReadTo(seg, pages', start + n)
  BY <1>1, <1>3, <1>4, <1>a, <1>6, <1>7, <1>8, PageAdded
<1>10. Laid(seg, pages, la)' /\ ReadTo(seg, pages, start)'
  BY <1>2, <1>9, <1>a
<1>11. ElfTypes'
  <2>1. IsPage(la + ElfPage) /\ la + ElfPage \in Nat /\ Base(seg.va) <= la + ElfPage
    <3>1. Base(seg.va) \in Nat
      BY <1>1, BaseIs
    <3> QED BY <3>1, <1>1, PageNext
  <2>2. start + n \in Nat
    BY <1>1
  <2> QED BY <1>1, <1>2, <1>a, <2>1, <2>2 DEF ElfTypes
<1>12. Placed'
  <2>1. Elf!FileEnd' = Elf!FileEnd /\ Elf!MemEnd' = Elf!MemEnd
    BY <1>2 DEF Elf!FileEnd, Elf!MemEnd
  <2>2. start' = start + n /\ la' = la + ElfPage
    BY <1>2, <1>a
  <2>3. start + n
           = IF Elf!MemEnd < la + ElfPage THEN Elf!MemEnd ELSE la + ElfPage
    BY <1>4, <1>a
  <2> QED BY <2>1, <2>2, <2>3, <1>1, <1>2, <1>3 DEF Placed
<1> QED BY <1>10, <1>11, <1>12 DEF SegInv

\* The rest of the last page that was read is cleared.
LEMMA ZeroTailKeeps ==
  ASSUME Elf!ConstantsOK, SegInv, Elf!ZeroTail
  PROVE  SegInv'
<1>1. /\ ElfPage \in Nat \ {0} /\ ElfTypes
      /\ seg \in [va : Nat, filesz : Nat, memsz : Nat] /\ seg.va \in Nat
      /\ Elf!FileEnd \in Nat /\ Elf!MemEnd \in Nat
      /\ Laid(seg, pages, la) /\ ReadTo(seg, pages, start) /\ Placed
      /\ start \in Nat /\ la \in Nat /\ IsPage(la) /\ Base(seg.va) <= la
  BY SegFacts
<1>a. PICK off : off = start + ElfPage - la
  OBVIOUS
<1>b. PICK n : n = Elf!TailSize
  OBVIOUS
<1>2. /\ loading = "tail"
      /\ pages' = [pages EXCEPT ![la - ElfPage] =
                     [i \in DOMAIN @ |-> IF off <= i /\ i < off + n THEN Elf!Zero ELSE @[i]]]
      /\ start' = start + n /\ loading' = "bss"
      /\ seg' = seg /\ la' = la /\ offset' = offset
  BY <1>a, <1>b, Zenon DEF Elf!ZeroTail
<1>3. /\ seg.va <= start /\ start < la /\ la < start + ElfPage
      /\ start = Elf!FileEnd /\ start < Elf!MemEnd
  BY <1>1, <1>2 DEF Placed
<1>4. off \in 1 .. ElfPage - 1 /\ off = (start + ElfPage) - la /\ off = start - (la - ElfPage)
  BY <1>1, <1>3, <1>a
<1>5. n \in Nat \ {0} /\ start + n = IF Elf!MemEnd < la THEN Elf!MemEnd ELSE la
  <2>1. Elf!TailSize
          = IF Elf!MemEnd < la THEN (ElfPage - off) - (la - Elf!MemEnd) ELSE ElfPage - off
    BY <1>a, Zenon DEF Elf!TailSize
  <2> QED BY <2>1, <1>1, <1>3, <1>4, <1>b
<1>6. \A p \in DOMAIN pages : p \in Nat /\ IsPage(p) /\ p < la /\ p + ElfPage <= la
  <2>1. \A p \in DOMAIN pages : p \in Nat /\ IsPage(p) /\ p < la
    BY <1>1 DEF Laid
  <2> QED BY <1>1, <2>1, PagesApart
<1>7. DOMAIN pages' = DOMAIN pages
  BY <1>2
<1>8. \A p \in DOMAIN pages : p # la - ElfPage => pages'[p] = pages[p]
  BY <1>2
<1>9. la - ElfPage \in DOMAIN pages =>
        pages'[la - ElfPage] = [i \in DOMAIN pages[la - ElfPage] |->
                             IF off <= i /\ i < off + n THEN Elf!Zero ELSE pages[la - ElfPage][i]]
  BY <1>2
<1>10. \A p \in DOMAIN pages : DOMAIN pages[p] = 0 .. ElfPage - 1
  BY <1>1 DEF Laid
<1>11. Laid(seg, pages', la)
  <2>1. ASSUME NEW p \in DOMAIN pages PROVE DOMAIN pages'[p] = 0 .. ElfPage - 1
    <3>1. CASE p = la - ElfPage
      BY <3>1, <2>1, <1>9, <1>10
    <3>2. CASE p # la - ElfPage
      BY <3>2, <1>8, <1>10
    <3> QED BY <3>1, <3>2
  <2> QED BY <2>1, <1>1, <1>7 DEF Laid
<1>12. ReadTo(seg, pages', start + n)
  <2> SUFFICES ASSUME NEW p \in DOMAIN pages, NEW i \in 0 .. ElfPage - 1,
                      seg.va <= p + i, p + i < start + n
               PROVE  pages'[p][i] = Content(seg, p + i)
    BY <1>7 DEF ReadTo
  <2>1. p \in Nat /\ p + ElfPage <= la
    BY <1>6
  <2>2. p + i < start => pages[p][i] = Content(seg, p + i)
    BY <1>1 DEF ReadTo
  <2>3. CASE p # la - ElfPage
    <3>1. p + ElfPage <= la - ElfPage
      <4>1. ~(la < (p + ElfPage) + ElfPage)
        <5> SUFFICES ASSUME la < (p + ElfPage) + ElfPage PROVE FALSE
          OBVIOUS
        <5>1. p + ElfPage \in Nat /\ IsPage(p + ElfPage) /\ p + ElfPage < la
          BY <1>1, <1>6, <2>1, <2>3, PageNext
        <5>2. (p + ElfPage) + ElfPage <= la
          BY <1>1, <5>1, PagesApart
        <5> QED BY <5>2, <1>1, <2>1
      <4> QED BY <4>1, <1>1, <2>1
    <3>2. p + i < start
      BY <3>1, <2>1, <1>1, <1>3
    <3> QED BY <2>2, <2>3, <3>2, <1>8
  <2>4. CASE p = la - ElfPage
    <3>1. pages'[p][i] = IF off <= i /\ i < off + n THEN Elf!Zero ELSE pages[p][i]
      BY <2>4, <1>9, <1>10
    <3>2. p + i < start <=> i < off
      BY <2>1, <2>4, <1>1, <1>4
    <3>3. CASE i < off
      BY <3>1, <3>2, <3>3, <2>2, <1>4
    <3>4. CASE ~(i < off)
      <4>1. off <= i /\ i < off + n
        BY <3>4, <2>1, <2>4, <1>1, <1>4, <1>5
      <4>2. ~((p + i) - seg.va < seg.filesz)
        BY <3>2, <3>4, <2>1, <1>1, <1>3 DEF Elf!FileEnd
      <4> QED BY <3>1, <4>1, <4>2 DEF Content
    <3> QED BY <3>3, <3>4
  <2> QED BY <2>3, <2>4
<1>13. Laid(seg, pages, la)' /\ ReadTo(seg, pages, start)'
  BY <1>2, <1>11, <1>12
<1>14. ElfTypes'
  <2>1. start + n \in Nat
    BY <1>1, <1>5
  <2> QED BY <2>1, <1>1, <1>2 DEF ElfTypes
<1>15. Placed'
  <2>1. Elf!FileEnd' = Elf!FileEnd /\ Elf!MemEnd' = Elf!MemEnd
    BY <1>2 DEF Elf!FileEnd, Elf!MemEnd
  <2> QED BY <2>1, <1>1, <1>2, <1>3, <1>5 DEF Placed
<1> QED BY <1>13, <1>14, <1>15 DEF SegInv

\* Steps that change the phase only.
LEMMA PhaseKeeps ==
  ASSUME Elf!ConstantsOK, SegInv,
         \/ Elf!FileRead \/ Elf!BssDone
         \/ loading = "loaded" /\ loading' = "done" /\ UNCHANGED <<seg, pages, start, la, offset>>
         \/ UNCHANGED <<seg, pages, start, la, offset, loading>>
  PROVE  SegInv'
<1>1. /\ ElfPage \in Nat \ {0} /\ ElfTypes /\ seg.va \in Nat
      /\ Elf!FileEnd \in Nat /\ Elf!MemEnd \in Nat
      /\ Elf!FileEnd <= Elf!MemEnd /\ seg.va < Elf!MemEnd
      /\ Laid(seg, pages, la) /\ ReadTo(seg, pages, start) /\ Placed
      /\ start \in Nat /\ la \in Nat
  BY SegFacts
<1>2. seg' = seg /\ pages' = pages /\ start' = start /\ la' = la /\ offset' = offset
  BY DEF Elf!FileRead, Elf!BssDone
<1>3. loading' \in {"file", "tail", "bss", "loaded", "done"}
  BY <1>1 DEF Elf!FileRead, Elf!BssDone, ElfTypes
<1>4. ElfTypes'
  BY <1>1, <1>2, <1>3 DEF ElfTypes
<1>5. Placed'
  <2>1. Elf!FileEnd' = Elf!FileEnd /\ Elf!MemEnd' = Elf!MemEnd
    BY <1>2 DEF Elf!FileEnd, Elf!MemEnd
  <2>2. CASE Elf!FileRead
    BY <2>1, <2>2, <1>1, <1>2 DEF Placed, Elf!FileRead
  <2>3. CASE Elf!BssDone
    BY <2>1, <2>3, <1>1, <1>2 DEF Placed, Elf!BssDone
  <2>4. CASE loading = "loaded" /\ loading' = "done"
    BY <2>1, <2>4, <1>1, <1>2 DEF Placed
  <2>5. CASE loading' = loading
    BY <2>1, <2>5, <1>1, <1>2 DEF Placed
  <2> QED BY <2>2, <2>3, <2>4, <2>5
<1>6. Laid(seg, pages, la)' /\ ReadTo(seg, pages, start)'
  BY <1>1, <1>2
<1> QED BY <1>4, <1>5, <1>6 DEF SegInv

\* The invariant says what LoadExact does.
LEMMA SegExact ==
  ASSUME Elf!ConstantsOK, SegInv
  PROVE  Elf!LoadExact
<1>1. /\ ElfPage \in Nat \ {0} /\ seg.va \in Nat /\ seg.filesz \in Nat /\ seg.memsz \in Nat
      /\ Elf!FileEnd \in Nat /\ Elf!MemEnd \in Nat
      /\ Elf!FileEnd <= Elf!MemEnd /\ seg.va < Elf!MemEnd
      /\ Laid(seg, pages, la) /\ ReadTo(seg, pages, start) /\ Placed
      /\ start \in Nat /\ la \in Nat /\ IsPage(la) /\ Base(seg.va) <= la
  BY SegFacts
<1>2. DOMAIN pages = {p \in Nat : IsPage(p) /\ Base(seg.va) <= p /\ p < la}
  BY <1>1 DEF Laid
<1>3. /\ Base(seg.va) \in Nat /\ IsPage(Base(seg.va))
      /\ Base(seg.va) <= seg.va /\ seg.va < Base(seg.va) + ElfPage
  BY <1>1, BaseIs
<1>4. ASSUME NEW x \in Nat, seg.va <= x
      PROVE  Base(seg.va) <= Base(x)
  <2>1. Base(x) \in Nat /\ IsPage(Base(x)) /\ Base(x) <= x /\ x < Base(x) + ElfPage
    BY <1>1, BaseIs
  <2>2. ~(Base(x) < Base(seg.va))
    <3> SUFFICES ASSUME Base(x) < Base(seg.va) PROVE FALSE
      OBVIOUS
    <3>1. Base(x) + ElfPage <= Base(seg.va)
      BY <1>1, <1>3, <2>1, PagesApart
    <3> QED BY <3>1, <1>1, <1>3, <1>4, <2>1
  <2> QED BY <2>1, <2>2, <1>3
<1>5. ASSUME loading \in {"loaded", "done"}
      PROVE  /\ DOMAIN pages = {(a \div ElfPage) * ElfPage : a \in seg.va .. Elf!MemEnd - 1}
             /\ \A i \in 0 .. seg.memsz - 1 :
                  Elf!ByteAt(seg.va + i) = IF i < seg.filesz THEN i ELSE Elf!Zero
  <2>1. start = Elf!MemEnd /\ start <= la /\ la < start + ElfPage
    BY <1>1, <1>5 DEF Placed
  <2>2. ASSUME NEW x \in seg.va .. Elf!MemEnd - 1
        PROVE  Base(x) \in DOMAIN pages
    <3>1. x \in Nat
      BY <1>1
    <3>2. Base(x) \in Nat /\ IsPage(Base(x)) /\ Base(x) <= x
      BY <1>1, <3>1, BaseIs
    <3>3. Base(seg.va) <= Base(x)
      BY <3>1, <1>4
    <3> QED BY <3>1, <3>2, <3>3, <2>1, <1>1, <1>2
  <2>3. ASSUME NEW p \in DOMAIN pages
        PROVE  \E x \in seg.va .. Elf!MemEnd - 1 : p = Base(x)
    <3>1. p \in Nat /\ IsPage(p) /\ Base(seg.va) <= p /\ p < la
      BY <1>2
    <3>2. p + ElfPage <= la
      BY <3>1, <1>1, PagesApart
    <3>3. CASE seg.va <= p
      <4>1. p \in seg.va .. Elf!MemEnd - 1
        BY <3>1, <3>2, <3>3, <2>1, <1>1
      <4>2. Base(p) = p
        BY <3>1, <1>1, BaseUnique
      <4> QED BY <4>1, <4>2
    <3>4. CASE p < seg.va
      <4>1. Base(seg.va) = p
        <5>1. ~(Base(seg.va) < p)
          <6> SUFFICES ASSUME Base(seg.va) < p PROVE FALSE
            OBVIOUS
          <6>1. Base(seg.va) + ElfPage <= p
            BY <3>1, <1>1, <1>3, PagesApart
          <6> QED BY <6>1, <3>1, <3>4, <1>1, <1>3
        <5> QED BY <5>1, <3>1, <1>3
      <4>2. seg.va \in seg.va .. Elf!MemEnd - 1
        BY <1>1
      <4> QED BY <4>1, <4>2
    <3> QED BY <3>1, <3>3, <3>4, <1>1
  <2>4. DOMAIN pages = {Base(x) : x \in seg.va .. Elf!MemEnd - 1}
    BY <2>2, <2>3
  <2>5. ASSUME NEW i \in 0 .. seg.memsz - 1
        PROVE  Elf!ByteAt(seg.va + i) = IF i < seg.filesz THEN i ELSE Elf!Zero
    <3>1. PICK x \in Nat : x = seg.va + i
      BY <1>1
    <3>2. x \in seg.va .. Elf!MemEnd - 1
      BY <3>1, <1>1 DEF Elf!MemEnd
    <3>3. /\ Base(x) \in Nat /\ x % ElfPage \in 0 .. ElfPage - 1 /\ Base(x) + (x % ElfPage) = x
          /\ Base(x) \in DOMAIN pages
      BY <3>2, <2>2, <1>1, BaseIs
    <3>4. pages[Base(x)][x % ElfPage] = Content(seg, x)
      <4>1. PICK p \in DOMAIN pages : p = Base(x)
        BY <3>3
      <4>2. PICK k \in 0 .. ElfPage - 1 : k = x % ElfPage
        BY <3>3
      <4>3. p + k = x
        BY <4>1, <4>2, <3>3, Zenon
      <4>4. seg.va <= p + k /\ p + k < start
        BY <4>3, <3>2, <2>1, <1>1
      <4>5. pages[p][k] = Content(seg, p + k)
        BY <4>4, <1>1 DEF ReadTo
      <4> QED BY <4>1, <4>2, <4>3, <4>5
    <3>5. Elf!ByteAt(x) = Content(seg, x)
      BY <3>4 DEF Elf!ByteAt, Base
    <3>6. x - seg.va = i
      BY <3>1, <1>1
    <3> QED BY <3>1, <3>5, <3>6 DEF Content
  <2> QED BY <2>4, <2>5 DEF Base
<1>6. \A a \in DOMAIN pages : a < la
  BY <1>2
<1>7. (loading = "bss" /\ start <= la) =>
        (Elf!MemEnd < la /\ start = Elf!MemEnd) \/ (Elf!MemEnd >= la /\ start = la)
  BY <1>1 DEF Placed
<1> QED BY <1>5, <1>6, <1>7 DEF Elf!LoadExact

-----------------------------------------------------------------------------
\* The sum of what one or two arguments take.
LEMMA SumIs ==
  ASSUME NEW n \in 0 .. 2, NEW f \in [1 .. n -> Nat]
  PROVE  Elf!SumFunction(f) = IF n = 0 THEN 0 ELSE IF n = 1 THEN f[1] ELSE f[1] + f[2]
<1> DEFINE T(h, s) == IF s = {} THEN 0
                      ELSE f[CHOOSE x \in s : TRUE] + h[s \ {CHOOSE x \in s : TRUE}]
           iter == CHOOSE h : h = [s \in SUBSET (1 .. n) |-> T(h, s)]
<1>0. DOMAIN f = 1 .. n
  OBVIOUS
<1>1. Elf!SumFunction(f) = iter[1 .. n]
  BY <1>0, Zenon DEF Elf!SumFunction, Elf!SumFunctionOnSet, Elf!FoldFunctionOnSet,
     Elf!MapThenFoldSet
<1> DEFINE part(j, s) == IF j \in s THEN f[j] ELSE 0
           g == [s \in SUBSET (1 .. n) |-> part(1, s) + part(2, s)]
<1>2. \A s \in SUBSET (1 .. n) : T(g, s) = part(1, s) + part(2, s)
  <2> SUFFICES ASSUME NEW s \in SUBSET (1 .. n)
               PROVE  T(g, s) = part(1, s) + part(2, s)
    OBVIOUS
  <2>1. CASE s = {}
    BY <2>1
  <2>2. CASE s # {}
    <3>1. PICK x \in s : x = CHOOSE y \in s : TRUE
      BY <2>2
    <3>2. PICK t \in SUBSET (1 .. n) : t = s \ {x}
      OBVIOUS
    <3>3. T(g, s) = f[x] + g[t]
      BY <2>2, <3>1, <3>2, Zenon
    <3>4. g[t] = part(1, t) + part(2, t)
      BY <3>2
    <3>5. CASE x = 1
      BY <3>2, <3>3, <3>4, <3>5
    <3>6. CASE x = 2
      BY <3>2, <3>3, <3>4, <3>6
    <3> QED BY <3>1, <3>5, <3>6
  <2> QED BY <2>1, <2>2
<1>3. \E h : h = [s \in SUBSET (1 .. n) |-> T(h, s)]
  <2>1. g = [s \in SUBSET (1 .. n) |-> T(g, s)]
    BY <1>2
  <2> QED BY <2>1
<1> HIDE DEF T, g
<1>4. iter = [s \in SUBSET (1 .. n) |-> T(iter, s)]
  BY <1>3
<1> HIDE DEF iter
<1>5. \A s \in SUBSET (1 .. n) : iter[s] = T(iter, s)
  BY <1>4
<1>6. iter[{}] = 0
  BY <1>5 DEF T
<1>7. \A k \in 1 .. n : iter[{k}] = f[k]
  <2> SUFFICES ASSUME NEW k \in 1 .. n
               PROVE  iter[{k}] = f[k]
    OBVIOUS
  <2>1. (CHOOSE y \in {k} : TRUE) = k /\ {k} \ {k} = {} /\ {k} # {} /\ {k} \in SUBSET (1 .. n)
    OBVIOUS
  <2>2. iter[{k}] = f[k] + iter[{}]
    BY <1>5, <2>1, Zenon DEF T
  <2> QED BY <2>2, <1>6
<1>8. CASE n = 0
  <2>1. 1 .. n = {}
    BY <1>8
  <2> QED BY <2>1, <1>1, <1>6, <1>8
<1>9. CASE n = 1
  <2>1. 1 .. n = {1}
    BY <1>9
  <2> QED BY <2>1, <1>1, <1>7, <1>9
<1>10. CASE n = 2
  <2>1. 1 .. n = {1, 2}
    BY <1>10
  <2>2. PICK x \in {1, 2} : x = CHOOSE y \in {1, 2} : TRUE
    OBVIOUS
  <2>3. {1, 2} # {} /\ {1, 2} \in SUBSET (1 .. n)
    BY <2>1
  <2>4. iter[{1, 2}] = f[x] + iter[{1, 2} \ {x}]
    BY <1>5, <2>2, <2>3, Zenon DEF T
  <2>5. CASE x = 1
    <3>1. {1, 2} \ {x} = {2}
      BY <2>5
    <3>2. iter[{1, 2}] = f[1] + iter[{2}]
      BY <3>1, <2>4, <2>5
    <3>3. iter[{2}] = f[2]
      BY <1>7, <1>10
    <3>4. Elf!SumFunction(f) = iter[{1, 2}]
      BY <1>1, <2>1
    <3> QED BY <3>2, <3>3, <3>4, <1>10
  <2>6. CASE x = 2
    <3>1. {1, 2} \ {x} = {1}
      BY <2>6
    <3>2. iter[{1, 2}] = f[2] + iter[{1}]
      BY <3>1, <2>4, <2>6
    <3>3. iter[{1}] = f[1]
      BY <1>7, <1>10
    <3>4. Elf!SumFunction(f) = iter[{1, 2}]
      BY <1>1, <2>1
    <3> QED BY <3>2, <3>3, <3>4, <1>10
  <2> QED BY <2>2, <2>5, <2>6
<1> QED BY <1>8, <1>9, <1>10

-----------------------------------------------------------------------------
\* What SetupArgs puts on the stack.
StackOf(args) ==
  LET top   == - (Elf!ArgsSize(args, Len(args)) \div Long + 1) * Long
      uargv == top - Len(args) * Long
  IN  [args |-> args, uargv |-> uargv, sp |-> uargv - IntBytes,
       strings |-> [k \in DOMAIN args |-> top + Elf!ArgsSize(args, k - 1)]]

\* When the program is ready the stack is what SetupArgs made of some arguments.
ArgsInv ==
  loading = "done" =>
    \E argc \in 1 .. 2 : \E args \in [1 .. argc -> ArgLengths] : stack = StackOf(args)

\* How many bytes no argument, one and two take.
LEMMA ArgsSizes ==
  ASSUME Elf!ConstantsOK, NEW argc \in 1 .. 2, NEW args \in [1 .. argc -> ArgLengths]
  PROVE  /\ Elf!ArgsSize(args, 0) = 0 /\ Elf!ArgsSize(args, 1) = args[1] + 1
         /\ argc = 2 => Elf!ArgsSize(args, 2) = (args[1] + 1) + (args[2] + 1)
         /\ Elf!SumFunction(args) = IF argc = 1 THEN args[1] ELSE args[1] + args[2]
         /\ args[1] \in Nat /\ (argc = 2 => args[2] \in Nat)
<1>1. args \in [1 .. argc -> Nat]
  BY DEF Elf!ConstantsOK
<1>2. \A k \in 0 .. argc : /\ [j \in 1 .. k |-> Elf!ArgBytes(args[j])] \in [1 .. k -> Nat]
                           /\ \A j \in 1 .. k : Elf!ArgBytes(args[j]) = args[j] + 1
  BY <1>1 DEF Elf!ArgBytes
<1>3. \A k \in 0 .. argc :
        Elf!ArgsSize(args, k) = IF k = 0 THEN 0 ELSE IF k = 1 THEN args[1] + 1
                            ELSE (args[1] + 1) + (args[2] + 1)
  <2> SUFFICES ASSUME NEW k \in 0 .. argc
               PROVE  Elf!ArgsSize(args, k) = IF k = 0 THEN 0 ELSE IF k = 1 THEN args[1] + 1
                                          ELSE (args[1] + 1) + (args[2] + 1)
    OBVIOUS
  <2>1. PICK f : f = [j \in 1 .. k |-> Elf!ArgBytes(args[j])]
    OBVIOUS
  <2>2. k \in 0 .. 2
    OBVIOUS
  <2>3. f \in [1 .. k -> Nat] /\ \A j \in 1 .. k : f[j] = args[j] + 1
    BY <2>1, <1>2
  <2>4. Elf!SumFunction(f) = IF k = 0 THEN 0 ELSE IF k = 1 THEN f[1] ELSE f[1] + f[2]
    BY <2>2, <2>3, SumIs
  <2>5. Elf!ArgsSize(args, k) = Elf!SumFunction(f)
    BY <2>1, Zenon DEF Elf!ArgsSize
  <2> QED BY <2>2, <2>3, <2>4, <2>5
<1>4. Elf!SumFunction(args) = IF argc = 1 THEN args[1] ELSE args[1] + args[2]
  <2>1. argc \in 0 .. 2
    OBVIOUS
  <2>2. Elf!SumFunction(args) = IF argc = 0 THEN 0 ELSE IF argc = 1 THEN args[1]
                            ELSE args[1] + args[2]
    BY <2>1, <1>1, SumIs
  <2> QED BY <2>2
<1> QED BY <1>1, <1>3, <1>4

\* The taken of what SetupArgs makes are one behind the other.
LEMMA AreasJoin ==
  ASSUME NEW a \in Int, NEW b \in Int, NEW c \in Int, a <= b, b <= c
  PROVE  (a .. b - 1) \cup (b .. c - 1) = a .. c - 1
  OBVIOUS

\* The places of the arguments do not overlap.
LEMMA ArgsAreApart ==
  ASSUME Elf!ConstantsOK, ArgsInv
  PROVE  Elf!ArgsApart
<1> SUFFICES ASSUME loading = "done"
             PROVE  Elf!ArgsApart
  BY DEF Elf!ArgsApart
<1>1. PICK argc \in 1 .. 2 : \E args \in [1 .. argc -> ArgLengths] : stack = StackOf(args)
  BY DEF ArgsInv
<1>2. PICK args \in [1 .. argc -> ArgLengths] : stack = StackOf(args)
  BY <1>1
<1>3. Len(args) = argc /\ DOMAIN args = 1 .. argc
  OBVIOUS
<1>4. Long \in Nat \ {0} /\ IntBytes \in Nat \ {0}
  BY DEF Elf!ConstantsOK
<1>a. /\ Elf!ArgsSize(args, 0) = 0 /\ Elf!ArgsSize(args, 1) = args[1] + 1
      /\ argc = 2 => Elf!ArgsSize(args, 2) = (args[1] + 1) + (args[2] + 1)
      /\ Elf!SumFunction(args) = IF argc = 1 THEN args[1] ELSE args[1] + args[2]
      /\ args[1] \in Nat /\ (argc = 2 => args[2] \in Nat)
  BY ArgsSizes, Zenon
<1>5. PICK first \in Nat : first = Elf!ArgsSize(args, 1) /\ first = args[1] + 1
  BY <1>a
<1>6. PICK size \in Nat : size = Elf!ArgsSize(args, argc)
  BY <1>a
<1>7. /\ first <= size /\ first > 0
      /\ argc = 1 => size = first
      /\ argc = 2 => size = first + (args[2] + 1)
      /\ Elf!SumFunction(args) + argc = size
  BY <1>5, <1>6, <1>a
<1>8. PICK words \in Nat : words = size \div Long
  BY <1>4
<1>9. words * Long \in Nat /\ size < words * Long + Long
  BY <1>4, <1>8
<1>10. PICK top \in Int : top = - (words + 1) * Long
  BY <1>4
<1>11. top + size <= -1 + 0 \/ top + size <= 0
  BY <1>9, <1>10, <1>4
<1>12. PICK table \in Nat : table = argc * Long
  BY <1>4
<1>13. table > 0
  BY <1>12, <1>4
<1>14. PICK uargv \in Int : uargv = top - table
  OBVIOUS
<1>15. PICK sp \in Int : sp = uargv - IntBytes
  BY <1>4
<1>16. PICK strings : strings = [k \in DOMAIN args |-> top + Elf!ArgsSize(args, k - 1)]
  OBVIOUS
<1>17. stack = [args |-> args, uargv |-> uargv, sp |-> sp, strings |-> strings]
  BY <1>2, <1>3, <1>6, <1>8, <1>10, <1>12, <1>14, <1>15, <1>16, Zenon DEF StackOf
<1>18. stack.args = args /\ stack.uargv = uargv /\ stack.sp = sp /\ stack.strings = strings
  BY <1>17
<1>19. strings[1] = top /\ (argc = 2 => strings[2] = top + first)
  BY <1>3, <1>5, <1>16, <1>a
<1> DEFINE Bytes(at, n) == at .. at + n - 1
           Strings == {Bytes(strings[k], args[k] + 1) : k \in 1 .. argc}
           taken == Strings \cup {Bytes(uargv, argc * Long), Bytes(sp, IntBytes)}
<1>20. UNION Strings = top .. top + size - 1
  <2>1. CASE argc = 1
    <3>1. Strings = {Bytes(strings[1], args[1] + 1)}
      BY <2>1
    <3>2. Bytes(strings[1], args[1] + 1) = top .. top + size - 1
      BY <2>1, <1>5, <1>7, <1>19
    <3> QED BY <3>1, <3>2
  <2>2. CASE argc = 2
    <3>1. Strings = {Bytes(strings[1], args[1] + 1), Bytes(strings[2], args[2] + 1)}
      BY <2>2
    <3>2. PICK mid \in Int : mid = top + first
      OBVIOUS
    <3>3. PICK end \in Int : end = top + size
      OBVIOUS
    <3>4. Bytes(strings[1], args[1] + 1) = top .. mid - 1
      BY <2>2, <1>5, <1>19, <3>2
    <3>5. Bytes(strings[2], args[2] + 1) = mid .. end - 1
      <4>1. args[2] \in Nat
        BY <2>2, <1>a
      <4> QED BY <4>1, <2>2, <1>7, <1>19, <3>2, <3>3
    <3>6. (top .. mid - 1) \cup (mid .. end - 1) = top .. end - 1
      BY <1>7, <3>2, <3>3, AreasJoin
    <3>7. UNION Strings = (top .. mid - 1) \cup (mid .. end - 1)
      BY <3>1, <3>4, <3>5
    <3> QED BY <3>6, <3>7, <3>3
  <2> QED BY <2>1, <2>2
<1>21. Bytes(uargv, argc * Long) = uargv .. top - 1
  BY <1>12, <1>14
<1>22. Bytes(sp, IntBytes) = sp .. uargv - 1
  BY <1>15, <1>4
<1>23. UNION taken = (UNION Strings) \cup Bytes(uargv, argc * Long) \cup Bytes(sp, IntBytes)
  OBVIOUS
<1> HIDE DEF Strings, Bytes
<1>24. UNION taken = sp .. top + size - 1
  <2>1. PICK end \in Int : end = top + size
    OBVIOUS
  <2>2. (sp .. uargv - 1) \cup (uargv .. top - 1) = sp .. top - 1
    BY <1>4, <1>14, <1>15, AreasJoin
  <2>3. (sp .. top - 1) \cup (top .. end - 1) = sp .. end - 1
    BY <1>4, <1>14, <1>15, <2>1, AreasJoin
  <2>4. UNION taken = ((sp .. uargv - 1) \cup (uargv .. top - 1)) \cup (top .. end - 1)
    BY <1>20, <1>21, <1>22, <1>23, <2>1
  <2> QED BY <2>1, <2>2, <2>3, <2>4
<1>25. Elf!Cardinality(UNION taken) = size + table + IntBytes
  <2>1. PICK end \in Int : end = top + size - 1
    OBVIOUS
  <2>2. Elf!Cardinality(sp .. end) = IF sp > end THEN 0 ELSE end - sp + 1
    <3>1. Elf!Cardinality(sp .. end) = Cardinality(sp .. end)
      BY Zenon DEF Elf!Cardinality, Cardinality
    <3> QED BY <3>1, FS_Interval
  <2>3. end - sp + 1 = size + table + IntBytes /\ sp <= end
    BY <2>1, <1>4, <1>7, <1>14, <1>15
  <2>4. Elf!Cardinality(UNION taken) = Elf!Cardinality(sp .. end)
    BY <2>1, <1>24, Zenon
  <2> QED BY <2>2, <2>3, <2>4
<1>26. Elf!Cardinality(UNION taken) = Elf!SumFunction(args) + argc + argc * Long + IntBytes
  BY <1>25, <1>7, <1>12
<1>27. UNION taken \subseteq sp .. -1
  BY <1>24, <1>11
<1>28. uargv % Long = 0
  <2>1. uargv = - (words + 1) * Long - argc * Long
    BY <1>10, <1>12, <1>14
  <2>2. PICK k \in Int : k = -(words + 1) - argc
    OBVIOUS
  <2>3. uargv = k * Long
    BY <2>1, <2>2, <1>4
  <2>4. (k * Long) % Long = 0
    BY <1>4
  <2> QED BY <2>3, <2>4, Zenon
<1>29. /\ Len(stack.args) = argc
       /\ {stack.strings[k] .. stack.strings[k] + (stack.args[k] + 1) - 1 :
              k \in 1 .. Len(stack.args)} = Strings
  BY <1>3, <1>18 DEF Strings, Bytes
<1> QED BY <1>18, <1>26, <1>27, <1>28, <1>29 DEF Elf!ArgsApart, Bytes

\* It is so however a program is loaded.
LEMMA ArgsStep ==
  ASSUME Elf!ConstantsOK, ArgsInv, Elf!Next \/ UNCHANGED Elf!vars
  PROVE  ArgsInv'
<1>1. CASE \E argc \in 1 .. 2 : \E args \in [1 .. argc -> ArgLengths] : Elf!SetupArgs(args)
  <2>1. PICK argc \in 1 .. 2 : \E args \in [1 .. argc -> ArgLengths] : Elf!SetupArgs(args)
    BY <1>1
  <2>2. PICK args \in [1 .. argc -> ArgLengths] : Elf!SetupArgs(args)
    BY <2>1
  <2>3. stack' = StackOf(args)
    BY <2>2, Zenon DEF Elf!SetupArgs, StackOf
  <2> QED BY <2>3, Zenon DEF ArgsInv, StackOf, Elf!ArgsSize, Elf!ArgBytes
<1>2. CASE Elf!ReadPage \/ Elf!FileRead \/ Elf!ZeroTail \/ Elf!ZeroPage \/ Elf!BssDone
  <2>1. loading' # "done"
    BY <1>2 DEF Elf!ReadPage, Elf!FileRead, Elf!ZeroTail, Elf!ZeroPage, Elf!BssDone
  <2> QED BY <2>1 DEF ArgsInv
<1>3. CASE UNCHANGED Elf!vars
  <2>1. loading' = loading /\ stack' = stack
    BY <1>3 DEF Elf!vars
  <2> QED BY <2>1, Zenon DEF ArgsInv, StackOf, Elf!ArgsSize, Elf!ArgBytes
<1> QED BY <1>1, <1>2, <1>3 DEF Elf!Next

\* What holds of a segment and of the stack.
ElfInv == SegInv /\ ArgsInv

\* It holds when load_icode() has read a header.
LEMMA LoadStarts ==
  ASSUME Elf!ConstantsOK, Elf!Init
  PROVE  ElfInv
<1>1. loading = "file"
  BY DEF Elf!Init
<1> QED BY <1>1, SegStarts DEF ElfInv, ArgsInv

\* Every round of its loops keeps it.
LEMMA LoadStep ==
  ASSUME Elf!ConstantsOK, ElfInv, Elf!Next \/ UNCHANGED Elf!vars
  PROVE  ElfInv'
<1>1. SegInv /\ ArgsInv
  BY DEF ElfInv
<1>2. SegInv'
  <2>1. CASE Elf!ReadPage
    BY <1>1, <2>1, ReadPageKeeps
  <2>2. CASE Elf!ZeroTail
    BY <1>1, <2>2, ZeroTailKeeps
  <2>3. CASE Elf!ZeroPage
    BY <1>1, <2>3, ZeroPageKeeps
  <2>4. CASE Elf!FileRead \/ Elf!BssDone
    BY <1>1, <2>4, PhaseKeeps
  <2>5. CASE \E argc \in 1 .. 2 : \E args \in [1 .. argc -> ArgLengths] : Elf!SetupArgs(args)
    <3>1. loading = "loaded" /\ loading' = "done" /\ UNCHANGED <<seg, pages, start, la, offset>>
      BY <2>5 DEF Elf!SetupArgs
    <3> QED BY <1>1, <3>1, PhaseKeeps
  <2>6. CASE UNCHANGED Elf!vars
    <3>1. UNCHANGED <<seg, pages, start, la, offset, loading>>
      BY <2>6 DEF Elf!vars
    <3> QED BY <1>1, <3>1, PhaseKeeps
  <2> QED BY <2>1, <2>2, <2>3, <2>4, <2>5, <2>6 DEF Elf!Next
<1>3. ArgsInv'
  BY <1>1, ArgsStep
<1> QED BY <1>2, <1>3 DEF ElfInv
-----------------------------------------------------------------------------
\* Page replacement: the list of swappable pages, and what goes out and comes back.

\* A frame stands at one place of a list at most, and these are on it.
Single(list) ==
  /\ list \in Seq(Sw!Frames)
  /\ \A i, j \in DOMAIN list : list[i] = list[j] => i = j

On(list) == {list[i] : i \in DOMAIN list}

\* The frames that pages are in.
UsedBy(table) == {table[b].frame : b \in Sw!Pages} \ {Sw!None}

\* What swapping keeps of a state of memory: entries name frames or slots, each page in
\* its own, and the list has the frames in use.
NamesApart(s) ==
  /\ s.pte \in [Sw!Pages -> [frame : Sw!Frames \cup {Sw!None}, slot : 0 .. Virt + 1]]
  /\ DOMAIN s.held = Sw!Frames /\ DOMAIN s.disk = 1 .. Virt + 1
  /\ s.held = [f \in Sw!Frames |-> s.held[f]] /\ s.disk = [k \in 1 .. Virt + 1 |-> s.disk[k]]
  /\ s.vaddr \in [Sw!Frames -> Sw!Pages \cup {Sw!None}]
  /\ \A b \in Sw!Pages : s.pte[b].frame # Sw!None =>
       s.pte[b].slot = Sw!None /\ s.vaddr[s.pte[b].frame] = b
  /\ \A b \in Sw!Pages : s.pte[b].slot \in {Sw!None, b + 1}

Listed(s) ==
  /\ Single(s.pra) /\ On(s.pra) = UsedBy(s.pte)
  /\ s.hand \in On(s.pra) \cup {Sw!None} /\ s.visited \in SUBSET Sw!Frames
  /\ manager # "clock" => s.hand = Sw!None

\* What the pages hold in a state.
Held(s) ==
  [a \in {b \in Sw!Pages : s.pte[b].frame # Sw!None \/ s.pte[b].slot # Sw!None} |->
     IF s.pte[a].frame # Sw!None THEN s.held[s.pte[a].frame] ELSE s.disk[s.pte[a].slot]]

\* What a state is made of.
State(s) ==
  s = [pte |-> s.pte, held |-> s.held, vaddr |-> s.vaddr, pra |-> s.pra,
       hand |-> s.hand, visited |-> s.visited, disk |-> s.disk]

-----------------------------------------------------------------------------
\* A list that gets one more in front or behind.
LEMMA LongerList ==
  ASSUME NEW list, Single(list), NEW f \in Sw!Frames, f \notin On(list)
  PROVE  /\ Single(Append(list, f)) /\ On(Append(list, f)) = On(list) \cup {f}
         /\ Single(<<f>> \o list) /\ On(<<f>> \o list) = On(list) \cup {f}
<1>1. list \in Seq(Sw!Frames) /\ Len(list) \in Nat /\ DOMAIN list = 1 .. Len(list)
  BY DEF Single
<1>2. PICK n \in Nat : n = Len(list)
  BY <1>1
<1>3. PICK a : a = Append(list, f)
  OBVIOUS
<1>4. /\ a \in Seq(Sw!Frames) /\ DOMAIN a = 1 .. n + 1 /\ a[n + 1] = f
      /\ \A i \in 1 .. n : a[i] = list[i]
  BY <1>1, <1>2, <1>3
<1>5. PICK c : c = <<f>> \o list
  OBVIOUS
<1>6. /\ c \in Seq(Sw!Frames) /\ DOMAIN c = 1 .. n + 1 /\ c[1] = f
      /\ \A i \in 1 .. n : c[i + 1] = list[i]
  BY <1>1, <1>2, <1>5
<1>7. \A i \in 1 .. n : list[i] # f
  BY <1>1, <1>2 DEF On
<1>8. \A i, j \in 1 .. n : list[i] = list[j] => i = j
  BY <1>1, <1>2 DEF Single
<1>9. Single(a)
  BY <1>4, <1>7, <1>8 DEF Single
<1>10. Single(c)
  <2>1. ASSUME NEW i \in 1 .. n + 1, NEW j \in 1 .. n + 1, c[i] = c[j]
        PROVE  i = j
    <3>1. \A k \in 1 .. n + 1 : k # 1 => k - 1 \in 1 .. n /\ c[k] = list[k - 1]
      <4>1. \A k \in 1 .. n + 1 : k # 1 => k - 1 \in 1 .. n /\ (k - 1) + 1 = k
        OBVIOUS
      <4> QED BY <4>1, <1>6
    <3> QED BY <2>1, <3>1, <1>6, <1>7, <1>8
  <2> QED BY <1>6, <2>1 DEF Single
<1>11. On(a) = On(list) \cup {f}
  <2>1. \A x : x \in On(a) => x \in On(list) \cup {f}
    BY <1>1, <1>2, <1>4 DEF On
  <2>2. \A x \in On(list) : x \in On(a)
    BY <1>1, <1>2, <1>4 DEF On
  <2>3. f \in On(a)
    BY <1>4 DEF On
  <2> QED BY <2>1, <2>2, <2>3
<1>12. On(c) = On(list) \cup {f}
  <2>1. \A x \in On(c) : x \in On(list) \cup {f}
    <3> SUFFICES ASSUME NEW i \in 1 .. n + 1, i # 1 PROVE c[i] \in On(list)
      BY <1>6 DEF On
    <3>1. i - 1 \in 1 .. n /\ (i - 1) + 1 = i
      OBVIOUS
    <3>2. c[i] = list[i - 1]
      BY <3>1, <1>6
    <3> QED BY <3>1, <3>2, <1>1, <1>2 DEF On
  <2>2. \A i \in 1 .. n : list[i] \in On(c)
    <3> SUFFICES ASSUME NEW i \in 1 .. n PROVE list[i] \in On(c)
      OBVIOUS
    <3>1. i + 1 \in DOMAIN c /\ c[i + 1] = list[i]
      BY <1>6
    <3> QED BY <3>1 DEF On
  <2>3. f \in On(c)
    BY <1>6 DEF On
  <2> QED BY <2>1, <2>2, <2>3, <1>1, <1>2 DEF On
<1> QED BY <1>3, <1>5, <1>9, <1>10, <1>11, <1>12, Zenon

\* A list that loses one of its frames.
LEMMA ShorterList ==
  ASSUME NEW list, Single(list), NEW g \in On(list)
  PROVE  /\ Sw!PlaceOf(list, g) \in DOMAIN list /\ list[Sw!PlaceOf(list, g)] = g
         /\ Single(Sw!RemoveAt(list, Sw!PlaceOf(list, g)))
         /\ On(Sw!RemoveAt(list, Sw!PlaceOf(list, g))) = On(list) \ {g}
<1>1. list \in Seq(Sw!Frames) /\ Len(list) \in Nat /\ DOMAIN list = 1 .. Len(list)
  BY DEF Single
<1>2. PICK n \in Nat : n = Len(list)
  BY <1>1
<1>3. PICK i \in 1 .. n : i = Sw!PlaceOf(list, g) /\ list[i] = g
  BY <1>1, <1>2 DEF On, Sw!PlaceOf
<1>4. PICK r : r = Sw!RemoveAt(list, i)
  OBVIOUS
<1>5. /\ r \in Seq(Sw!Frames) /\ DOMAIN r = 1 .. n - 1
      /\ \A k \in 1 .. n - 1 : r[k] = IF k < i THEN list[k] ELSE list[k + 1]
  <2>1. PICK a : a = SubSeq(list, 1, i - 1)
    OBVIOUS
  <2>2. PICK c : c = SubSeq(list, i + 1, n)
    OBVIOUS
  <2>3. r = a \o c
    BY <1>2, <1>4, <2>1, <2>2, Zenon DEF Sw!RemoveAt
  <2>4. /\ a \in Seq(Sw!Frames) /\ Len(a) = i - 1
        /\ \A k \in 1 .. i - 1 : a[k] = list[k]
    BY <1>1, <1>2, <2>1
  <2>5. /\ c \in Seq(Sw!Frames) /\ Len(c) = n - i
        /\ \A k \in 1 .. n - i : c[k] = list[i + k]
    <3>a. PICK m \in 1 .. n + 1 : m = i + 1
      OBVIOUS
    <3>b. n \in m - 1 .. Len(list) /\ m \in 1 .. Len(list) + 1
      BY <1>2, <3>a
    <3>c. c = SubSeq(list, m, n)
      BY <2>2, <3>a
    <3>d. /\ c \in Seq(Sw!Frames) /\ Len(c) = n - m + 1
          /\ \A k \in 1 .. n - m + 1 : c[k] = list[m + k - 1]
      BY <1>1, <3>b, <3>c, SubSeqProperties
    <3>e. n - m + 1 = n - i
      BY <3>a
    <3>1. c \in Seq(Sw!Frames) /\ Len(c) = n - i
      BY <3>d, <3>e
    <3>2. \A k \in 1 .. n - i : c[k] = list[(i + 1) + k - 1]
      BY <3>a, <3>d, <3>e
    <3>3. \A k \in 1 .. n - i : (i + 1) + k - 1 = i + k
      OBVIOUS
    <3> QED BY <3>1, <3>2, <3>3
  <2>6. r \in Seq(Sw!Frames) /\ DOMAIN r = 1 .. n - 1
    BY <2>3, <2>4, <2>5
  <2>7. \A k \in 1 .. n - 1 : r[k] = IF k < i THEN list[k] ELSE list[k + 1]
    <3> SUFFICES ASSUME NEW k \in 1 .. n - 1
                 PROVE  r[k] = IF k < i THEN list[k] ELSE list[k + 1]
      OBVIOUS
    <3>1. CASE k < i
      BY <2>3, <2>4, <2>5, <3>1
    <3>2. CASE ~(k < i)
      <4>1. PICK d \in 1 .. n - i : d = k - (i - 1)
        BY <3>2
      <4>2. r[k] = c[d]
        BY <2>3, <2>4, <2>5, <3>2, <4>1
      <4>3. i + d = k + 1
        BY <4>1
      <4> QED BY <3>2, <4>2, <4>3, <2>5
    <3> QED BY <3>1, <3>2
  <2> QED BY <2>6, <2>7
<1>6. \A k, m \in 1 .. n : list[k] = list[m] => k = m
  BY <1>1, <1>2 DEF Single
<1>7. Single(r)
  <2>1. ASSUME NEW k \in 1 .. n - 1, NEW m \in 1 .. n - 1, r[k] = r[m]
        PROVE  k = m
    <3>1. k \in 1 .. n /\ k + 1 \in 1 .. n /\ m \in 1 .. n /\ m + 1 \in 1 .. n
      OBVIOUS
    <3>2. \E x \in {k, k + 1}, y \in {m, m + 1} :
            /\ list[x] = list[y] /\ x \in 1 .. n /\ y \in 1 .. n
            /\ x = IF k < i THEN k ELSE k + 1
            /\ y = IF m < i THEN m ELSE m + 1
      BY <2>1, <3>1, <1>5
    <3> QED BY <3>2, <1>6
  <2> QED BY <1>5, <2>1 DEF Single
<1>8. On(r) = On(list) \ {g}
  <2>1. \A x \in On(r) : x \in On(list) \ {g}
    <3> SUFFICES ASSUME NEW k \in 1 .. n - 1 PROVE r[k] \in On(list) \ {g}
      BY <1>5 DEF On
    <3>1. PICK x \in 1 .. n : x # i /\ r[k] = list[x]
      <4>1. k \in 1 .. n /\ k + 1 \in 1 .. n
        OBVIOUS
      <4> QED BY <4>1, <1>5
    <3> QED BY <3>1, <1>1, <1>2, <1>3, <1>6 DEF On
  <2>2. \A x \in 1 .. n : x # i => list[x] \in On(r)
    <3> SUFFICES ASSUME NEW x \in 1 .. n, x # i PROVE list[x] \in On(r)
      OBVIOUS
    <3>1. CASE x < i
      <4>1. x \in DOMAIN r /\ r[x] = list[x]
        BY <3>1, <1>5
      <4> QED BY <4>1 DEF On
    <3>2. CASE ~(x < i)
      <4>1. PICK y \in 1 .. n - 1 : y = x - 1 /\ y + 1 = x
        BY <3>2
      <4>2. y \in DOMAIN r /\ r[y] = list[x]
        BY <3>2, <4>1, <1>5
      <4> QED BY <4>2 DEF On
    <3> QED BY <3>1, <3>2
  <2> QED BY <2>1, <2>2, <1>1, <1>2, <1>3 DEF On
<1> QED BY <1>1, <1>2, <1>3, <1>4, <1>7, <1>8, Zenon

\* The hand goes from the head to a frame on the list, and from a frame to another or to
\* the head.
LEMMA AfterIs ==
  ASSUME NEW s, Single(s.pra), On(s.pra) # {}, NEW f \in On(s.pra) \cup {Sw!None},
         Phys \in Nat
  PROVE  /\ Sw!After(s, f) \in (On(s.pra) \ {f}) \cup {Sw!None}
         /\ f = Sw!None => Sw!After(s, f) \in On(s.pra)
<1>1. PICK list : list = s.pra
  OBVIOUS
<1>2. list \in Seq(Sw!Frames) /\ Len(list) \in Nat /\ DOMAIN list = 1 .. Len(list)
  BY <1>1 DEF Single
<1>3. PICK n \in Nat : n = Len(list)
  BY <1>2
<1>4. n > 0
  BY <1>1, <1>2, <1>3 DEF On
<1>5. On(list) \in SUBSET Sw!Frames /\ Sw!None \notin On(list)
  <2>1. \A x \in On(list) : x \in Sw!Frames
    BY <1>2 DEF On
  <2> QED BY <2>1 DEF Sw!Frames, Sw!None
<1>6. PICK i \in 0 .. n : /\ i = IF f = Sw!None THEN 0 ELSE Sw!PlaceOf(list, f)
                          /\ i > 0 => list[i] = f
  <2>1. CASE f = Sw!None
    BY <2>1
  <2>2. CASE f # Sw!None
    <3>1. Sw!PlaceOf(list, f) \in DOMAIN list /\ list[Sw!PlaceOf(list, f)] = f
      BY <2>2, <1>1, ShorterList
    <3> QED BY <3>1, <2>2, <1>2, <1>3
  <2> QED BY <2>1, <2>2
<1>7. Sw!After(s, f) = IF i = n THEN Sw!None ELSE list[i + 1]
  BY <1>1, <1>3, <1>6, Zenon DEF Sw!After
<1>8. i # n => list[i + 1] \in On(list) /\ (i > 0 => list[i + 1] # f)
  <2> SUFFICES ASSUME i # n
               PROVE  list[i + 1] \in On(list) /\ (i > 0 => list[i + 1] # f)
    OBVIOUS
  <2>a. DOMAIN list = 1 .. n
    BY <1>2, <1>3
  <2>b. i + 1 \in 1 .. n /\ i + 1 # i /\ (i > 0 => i \in 1 .. n)
    OBVIOUS
  <2>1. i + 1 \in DOMAIN list /\ i + 1 # i
    BY <2>a, <2>b
  <2>2. i > 0 => i \in DOMAIN list
    BY <2>a, <2>b
  <2> QED BY <2>1, <2>2, <1>1, <1>6 DEF On, Single
<1>9. f = Sw!None => i = 0
  BY <1>6
<1>10. f # Sw!None => i > 0
  <2> SUFFICES ASSUME f # Sw!None PROVE i > 0
    OBVIOUS
  <2>1. Sw!PlaceOf(list, f) \in DOMAIN list
    BY <1>1, ShorterList
  <2> QED BY <2>1, <1>2, <1>6
<1>11. CASE f = Sw!None
  BY <1>11, <1>1, <1>4, <1>5, <1>7, <1>8, <1>9
<1>12. CASE f # Sw!None
  BY <1>12, <1>1, <1>5, <1>7, <1>8, <1>10
<1> QED BY <1>11, <1>12

\* The hand of the clock stops at a frame of the list before it has been everywhere
\* twice, and then stands at another one or at the head.
LEMMA ClockIs ==
  ASSUME Phys \in Nat \ {0}, NEW s, Single(s.pra), On(s.pra) # {},
         s.hand \in On(s.pra) \cup {Sw!None}, s.visited \in SUBSET Sw!Frames
  PROVE  /\ Sw!ClockVictim(s).frame \in On(s.pra)
         /\ Sw!ClockVictim(s).hand \in (On(s.pra) \ {Sw!ClockVictim(s).frame}) \cup {Sw!None}
         /\ Sw!ClockVictim(s).visited \in SUBSET Sw!Frames
<1> DEFINE most == 2 * Phys
           Goes(from) == IF from = Sw!None THEN Sw!After(s, Sw!None) ELSE from
           Body(h, k) ==
             [frame   |-> Goes(IF k = 0 THEN s.hand ELSE Sw!After(s, h[k - 1].frame)),
              visited |-> IF k = 0 THEN s.visited ELSE h[k - 1].visited \ {h[k - 1].frame}]
           at == CHOOSE h : h = [k \in 0 .. most |-> Body(h, k)]
           V == [frame : On(s.pra), visited : SUBSET Sw!Frames]
           step == [a \in Nat \X V |->
                      [frame |-> Goes(Sw!After(s, a[2].frame)),
                       visited |-> a[2].visited \ {a[2].frame}]]
           first == [frame |-> Goes(s.hand), visited |-> s.visited]
<1>1. \A f \in On(s.pra) \cup {Sw!None} : Goes(f) \in On(s.pra)
  BY AfterIs
<1>2. \A f \in On(s.pra) : Goes(Sw!After(s, f)) \in On(s.pra)
  BY AfterIs
<1> HIDE DEF Goes
<1>3. step \in [Nat \X V -> V] /\ first \in V
  BY <1>1, <1>2
<1>4. most \in Nat
  OBVIOUS
<1>5. PICK g : Walk(V, step, first, most, g)
  BY <1>3, <1>4, Repeats
<1>6. g \in [0 .. most -> V] /\ g[0] = first /\ \A k \in 1 .. most : g[k] = step[<<k, g[k - 1]>>]
  BY <1>5 DEF Walk
<1>7. g = [k \in 0 .. most |-> Body(g, k)]
  <2>1. ASSUME NEW k \in 0 .. most PROVE g[k] = Body(g, k)
    <3>1. CASE k = 0
      BY <3>1, <1>6
    <3>2. CASE k # 0
      <4>1. k \in 1 .. most /\ k - 1 \in 0 .. most
        BY <3>2
      <4>2. g[k - 1] \in V
        BY <4>1, <1>6
      <4>3. <<k, g[k - 1]>> \in Nat \X V
        BY <4>1, <4>2
      <4>4. g[k] = [frame |-> Goes(Sw!After(s, g[k - 1].frame)),
                    visited |-> g[k - 1].visited \ {g[k - 1].frame}]
        BY <4>1, <4>3, <1>6
      <4> QED BY <3>2, <4>4
    <3> QED BY <3>1, <3>2
  <2> QED BY <1>6, <2>1
<1> HIDE DEF Body, step
<1>8. at = [k \in 0 .. most |-> Body(at, k)]
  BY <1>7
<1> HIDE DEF at
<1>9. /\ at[0] = first
      /\ \A k \in 1 .. most : at[k - 1] \in V =>
           /\ at[k].frame = Goes(Sw!After(s, at[k - 1].frame))
           /\ at[k].visited = at[k - 1].visited \ {at[k - 1].frame} /\ at[k] \in V
  <2>1. \A k \in 0 .. most : at[k] = Body(at, k)
    BY <1>8
  <2>2. 0 \in 0 .. most
    OBVIOUS
  <2>3. at[0] = first
    BY <2>1, <2>2 DEF Body
  <2>4. ASSUME NEW k \in 1 .. most, at[k - 1] \in V
        PROVE  /\ at[k].frame = Goes(Sw!After(s, at[k - 1].frame))
               /\ at[k].visited = at[k - 1].visited \ {at[k - 1].frame} /\ at[k] \in V
    <3>1. k \in 0 .. most /\ k # 0
      OBVIOUS
    <3>2. at[k] = [frame |-> Goes(Sw!After(s, at[k - 1].frame)),
                   visited |-> at[k - 1].visited \ {at[k - 1].frame}]
      BY <2>1, <3>1 DEF Body
    <3> QED BY <3>2, <2>4, <1>2
  <2> QED BY <2>3, <2>4
<1>10. \A k \in 0 .. most : at[k] \in V
  <2> DEFINE P == {k \in 0 .. most : at[k] \in V}
  <2>1. 0 \in P
    BY <1>3, <1>9
  <2>2. \A k \in 1 .. most : k - 1 \in P => k \in P
    BY <1>9
  <2> HIDE DEF P
  <2>3. \A k \in 0 .. most : k \in P
    BY <1>4, <2>1, <2>2, EveryRound
  <2> QED BY <2>3 DEF P
<1>11. \A k \in 0 .. most : at[k].frame \in Sw!Frames
  <2>1. On(s.pra) \in SUBSET Sw!Frames
    BY DEF On, Single
  <2> QED BY <2>1, <1>10
<1>12. PICK y \in 0 .. most : at[y].frame \notin at[y].visited
  <2> SUFFICES ASSUME \A k \in 0 .. most : at[k].frame \in at[k].visited
               PROVE  FALSE
    OBVIOUS
  <2> DEFINE P(j) == {k \in 0 .. most : k > j => at[j].frame \notin at[k].visited}
  <2>1. ASSUME NEW j \in 0 .. most PROVE \A k \in 0 .. most : k \in P(j)
    <3>1. 0 \in P(j)
      OBVIOUS
    <3>2. \A k \in 1 .. most : k - 1 \in P(j) => k \in P(j)
      <4> SUFFICES ASSUME NEW k \in 1 .. most, k - 1 \in P(j), k > j
                   PROVE  at[j].frame \notin at[k].visited
        OBVIOUS
      <4>1. k - 1 \in 0 .. most
        OBVIOUS
      <4>2. at[k].visited = at[k - 1].visited \ {at[k - 1].frame}
        BY <4>1, <1>9, <1>10
      <4>3. k - 1 = j \/ at[j].frame \notin at[k - 1].visited
        OBVIOUS
      <4> QED BY <4>2, <4>3
    <3> HIDE DEF P
    <3> QED BY <3>1, <3>2, <1>4, EveryRound
  <2>2. \A j, k \in 0 .. most : j < k => at[j].frame # at[k].frame
    BY <2>1
  <2> DEFINE where == [k \in 0 .. most |-> at[k].frame]
  <2>3. where \in Injection(0 .. most, Sw!Frames)
    <3>1. where \in [0 .. most -> Sw!Frames]
      BY <1>11
    <3>2. \A j, k \in 0 .. most : where[j] = where[k] => j = k
      BY <2>2
    <3> HIDE DEF where
    <3> QED BY <3>1, <3>2 DEF Injection, IsInjective
  <2>4. IsFiniteSet(Sw!Frames) /\ Cardinality(Sw!Frames) = Phys
    BY FS_Interval DEF Sw!Frames
  <2>5. Cardinality(0 .. most) = most + 1
    BY FS_Interval, <1>4
  <2>6. Cardinality(0 .. most) <= Cardinality(Sw!Frames)
    BY <2>3, <2>4, FS_Injection
  <2> QED BY <2>4, <2>5, <2>6
<1> DEFINE Stops(k) == /\ at[k].frame \notin at[k].visited
                       /\ \A j \in 0 .. k - 1 : at[j].frame \in at[j].visited
<1>13. \E k \in 0 .. most : Stops(k)
  <2> DEFINE T == {k \in 0 .. most : at[k].frame \notin at[k].visited}
  <2>1. T \in SUBSET Nat /\ T # {}
    BY <1>12
  <2>2. PICK k \in T : \A i \in T : k <= i
    BY <2>1, LeastOf
  <2>3. \A j \in 0 .. k - 1 : j \in 0 .. most /\ ~(k <= j)
    OBVIOUS
  <2> QED BY <2>2, <2>3
<1> DEFINE last == CHOOSE k \in 0 .. most : Stops(k)
<1>14. last \in 0 .. most
  BY <1>13
<1> HIDE DEF last
<1>15. at[last] \in V
  BY <1>10, <1>14
<1>16. Sw!ClockVictim(s) = [frame |-> at[last].frame, hand |-> Sw!After(s, at[last].frame),
                         visited |-> at[last].visited]
  BY Zenon DEF Sw!ClockVictim, at, Body, Goes, last
<1>17. Sw!After(s, at[last].frame) \in (On(s.pra) \ {at[last].frame}) \cup {Sw!None}
  BY <1>15, AfterIs
<1> QED BY <1>15, <1>16, <1>17

\* Who goes out of memory is on the list.
LEMMA VictimIs ==
  ASSUME Sw!ConstantsOK, manager \in Sw!Managers, NEW s, Listed(s), On(s.pra) # {}
  PROVE  /\ Sw!Victim(s).frame \in On(s.pra)
         /\ Sw!Victim(s).hand \in (On(s.pra) \ {Sw!Victim(s).frame}) \cup {Sw!None}
         /\ Sw!Victim(s).visited \in SUBSET Sw!Frames
         /\ manager # "clock" => Sw!Victim(s).hand = Sw!None
<1>1. /\ Single(s.pra) /\ s.hand \in On(s.pra) \cup {Sw!None} /\ s.visited \in SUBSET Sw!Frames
      /\ manager # "clock" => s.hand = Sw!None
  BY DEF Listed
<1>2. Phys \in Nat \ {0}
  BY DEF Sw!ConstantsOK
<1>3. CASE manager = "clock"
  <2>1. Sw!Victim(s) = Sw!ClockVictim(s)
    BY <1>3 DEF Sw!Victim
  <2> QED BY <2>1, <1>1, <1>2, <1>3, ClockIs
<1>4. CASE manager # "clock"
  <2>1. Head(s.pra) \in On(s.pra) /\ Sw!Last(s.pra) \in On(s.pra)
    <3>1. PICK list : list = s.pra
      OBVIOUS
    <3>2. list \in Seq(Sw!Frames) /\ Len(list) \in Nat /\ DOMAIN list = 1 .. Len(list)
      BY <1>1, <3>1 DEF Single
    <3>3. Len(list) # 0
      BY <3>1, <3>2 DEF On
    <3>4. 1 \in DOMAIN list /\ Len(list) \in DOMAIN list
      BY <3>2, <3>3
    <3>5. Head(list) = list[1] /\ Sw!Last(list) = list[Len(list)]
      BY <3>2, <3>3 DEF Sw!Last
    <3> QED BY <3>1, <3>4, <3>5 DEF On
  <2>2. Sw!Victim(s) \in {[frame |-> Head(s.pra), hand |-> s.hand, visited |-> s.visited],
                       [frame |-> Sw!Last(s.pra), hand |-> s.hand, visited |-> s.visited]}
    BY <1>4 DEF Sw!Victim, Sw!Managers
  <2>3. s.hand = Sw!None
    BY <1>1, <1>4
  <2> QED BY <2>1, <2>2, <2>3, <1>1
<1> QED BY <1>3, <1>4

-----------------------------------------------------------------------------
\* One page goes to the slot of its address; what pages hold is what it was.
LEMMA SwapOutKeeps ==
  ASSUME Sw!ConstantsOK, manager \in Sw!Managers, NEW s, State(s), NamesApart(s), Listed(s),
         Sw!FreeFrames(s) = {}
  PROVE  LET t == Sw!SwappedOut(s)
         IN  /\ State(t) /\ NamesApart(t) /\ Listed(t) /\ Held(t) = Held(s)
             /\ Sw!FreeFrames(t) # {}
             /\ \A a \in Sw!Pages : s.pte[a].frame = Sw!None => t.pte[a] = s.pte[a]
<1>1. Phys \in Nat \ {0} /\ Virt \in Nat
  BY DEF Sw!ConstantsOK
<1>2. UsedBy(s.pte) = Sw!Frames /\ On(s.pra) = Sw!Frames
  BY DEF Sw!FreeFrames, UsedBy, NamesApart, Listed, Sw!Frames, Sw!None
<1>3. 1 \in Sw!Frames
  BY <1>1 DEF Sw!Frames
<1>4. PICK v : v = Sw!Victim(s)
  OBVIOUS
<1>5. /\ v.frame \in Sw!Frames /\ v.hand \in (Sw!Frames \ {v.frame}) \cup {Sw!None}
      /\ v.visited \in SUBSET Sw!Frames
      /\ manager # "clock" => v.hand = Sw!None
  BY <1>2, <1>3, <1>4, VictimIs, Zenon
<1>6. PICK f \in Sw!Frames : f = v.frame
  BY <1>5
<1>7. f # Sw!None
  BY DEF Sw!Frames, Sw!None
<1>8. PICK b \in Sw!Pages : s.pte[b].frame = f
  BY <1>2 DEF UsedBy
<1>9. s.vaddr[f] = b /\ s.pte[b].slot = Sw!None
  BY <1>7, <1>8 DEF NamesApart
<1>10. PICK slot \in 1 .. Virt + 1 : slot = b + 1
  BY <1>1 DEF Sw!Pages
<1>11. PICK list : list = Sw!RemoveAt(s.pra, Sw!PlaceOf(s.pra, f))
  OBVIOUS
<1>12. Single(list) /\ On(list) = Sw!Frames \ {f}
  BY <1>2, <1>11, ShorterList DEF Listed
<1>13. PICK gone : gone = [frame |-> Sw!None, slot |-> slot]
  OBVIOUS
<1>14. PICK t : t = Sw!SwappedOut(s)
  OBVIOUS
<1>15. t = [s EXCEPT !.pte[b] = gone, !.disk[slot] = s.held[f], !.pra = list,
                     !.hand = v.hand, !.visited = v.visited]
  BY <1>4, <1>6, <1>9, <1>10, <1>11, <1>13, <1>14, Zenon DEF Sw!SwappedOut, Sw!SwapSlot
<1>16. /\ t.pte = [s.pte EXCEPT ![b] = gone] /\ t.disk = [s.disk EXCEPT ![slot] = s.held[f]]
       /\ t.pra = list /\ t.hand = v.hand /\ t.visited = v.visited
       /\ t.held = s.held /\ t.vaddr = s.vaddr /\ State(t)
  BY <1>15 DEF State
<1>17. /\ \A a \in Sw!Pages : t.pte[a] = IF a = b THEN gone ELSE s.pte[a]
       /\ t.pte \in [Sw!Pages -> [frame : Sw!Frames \cup {Sw!None}, slot : 0 .. Virt + 1]]
  <2>1. s.pte \in [Sw!Pages -> [frame : Sw!Frames \cup {Sw!None}, slot : 0 .. Virt + 1]]
    BY DEF NamesApart
  <2>2. gone \in [frame : Sw!Frames \cup {Sw!None}, slot : 0 .. Virt + 1]
    BY <1>1, <1>13
  <2> QED BY <1>16, <2>1, <2>2
<1>18. \A k \in 1 .. Virt + 1 : t.disk[k] = IF k = slot THEN s.held[f] ELSE s.disk[k]
  BY <1>16 DEF NamesApart
<1>19. gone.frame = Sw!None /\ gone.slot = slot /\ slot # Sw!None
  BY <1>13 DEF Sw!None
<1>20. \A a \in Sw!Pages : s.pte[a].frame = f => a = b
  BY <1>7, <1>9 DEF NamesApart
<1>21. NamesApart(t)
  <2>1. /\ DOMAIN t.held = Sw!Frames /\ t.held = [g \in Sw!Frames |-> t.held[g]]
        /\ t.vaddr \in [Sw!Frames -> Sw!Pages \cup {Sw!None}]
    BY <1>16 DEF NamesApart
  <2>2. DOMAIN t.disk = 1 .. Virt + 1 /\ t.disk = [k \in 1 .. Virt + 1 |-> t.disk[k]]
    BY <1>16 DEF NamesApart
  <2>3. \A a \in Sw!Pages : t.pte[a].frame # Sw!None =>
          t.pte[a].slot = Sw!None /\ t.vaddr[t.pte[a].frame] = a
    BY <1>16, <1>17, <1>19 DEF NamesApart
  <2>4. \A a \in Sw!Pages : t.pte[a].slot \in {Sw!None, a + 1}
    BY <1>10, <1>17, <1>19 DEF NamesApart
  <2> QED BY <1>17, <2>1, <2>2, <2>3, <2>4 DEF NamesApart
<1>22. UsedBy(t.pte) = Sw!Frames \ {f}
  <2>1. \A a \in Sw!Pages : t.pte[a].frame # Sw!None => t.pte[a].frame \in Sw!Frames \ {f}
    BY <1>17, <1>19, <1>20 DEF NamesApart
  <2>2. \A g \in Sw!Frames \ {f} : \E a \in Sw!Pages : t.pte[a].frame = g /\ g # Sw!None
    <3> SUFFICES ASSUME NEW g \in Sw!Frames, g # f
                 PROVE  \E a \in Sw!Pages : t.pte[a].frame = g /\ g # Sw!None
      OBVIOUS
    <3>1. PICK a \in Sw!Pages : s.pte[a].frame = g
      BY <1>2 DEF UsedBy
    <3>2. a # b /\ g # Sw!None
      BY <1>8, <3>1 DEF Sw!Frames, Sw!None
    <3> QED BY <1>17, <3>1, <3>2
  <2> QED BY <2>1, <2>2 DEF UsedBy
<1>23. Listed(t)
  BY <1>5, <1>6, <1>12, <1>16, <1>22 DEF Listed
<1>24. Sw!FreeFrames(t) # {}
  <2>1. f \notin {t.pte[a].frame : a \in Sw!Pages}
    BY <1>7, <1>22 DEF UsedBy
  <2> QED BY <2>1 DEF Sw!FreeFrames
<1>25. Held(t) = Held(s)
  <2>1. \A a \in Sw!Pages : (t.pte[a].frame # Sw!None \/ t.pte[a].slot # Sw!None)
                           <=> (s.pte[a].frame # Sw!None \/ s.pte[a].slot # Sw!None)
    BY <1>7, <1>8, <1>17, <1>19
  <2>2. ASSUME NEW a \in Sw!Pages, s.pte[a].frame # Sw!None \/ s.pte[a].slot # Sw!None
        PROVE  (IF t.pte[a].frame # Sw!None THEN t.held[t.pte[a].frame] ELSE t.disk[t.pte[a].slot])
               = (IF s.pte[a].frame # Sw!None THEN s.held[s.pte[a].frame]
                  ELSE s.disk[s.pte[a].slot])
    <3>1. CASE a = b
      BY <3>1, <1>7, <1>8, <1>17, <1>18, <1>19
    <3>2. CASE a # b /\ s.pte[a].frame # Sw!None
      BY <3>2, <1>16, <1>17
    <3>3. CASE a # b /\ s.pte[a].frame = Sw!None
      <4>1. s.pte[a].slot = a + 1
        BY <2>2, <3>3 DEF NamesApart
      <4>2. a + 1 \in 1 .. Virt + 1 /\ a + 1 # slot
        BY <3>3, <1>1, <1>10 DEF Sw!Pages
      <4> QED BY <3>3, <4>1, <4>2, <1>17, <1>18
    <3> QED BY <3>1, <3>2, <3>3
  <2> QED BY <2>1, <2>2 DEF Held
<1>26. \A a \in Sw!Pages : s.pte[a].frame = Sw!None => t.pte[a] = s.pte[a]
  BY <1>7, <1>8, <1>17
<1> QED BY <1>14, <1>16, <1>21, <1>23, <1>24, <1>25, <1>26, Zenon

\* A page comes into a frame that is free.
LEMMA InsertKeeps ==
  ASSUME Sw!ConstantsOK, manager \in Sw!Managers, NEW s, State(s), NamesApart(s), Listed(s),
         NEW f \in Sw!FreeFrames(s), NEW a \in Sw!Pages, s.pte[a].frame = Sw!None, NEW v
  PROVE  LET t == Sw!Inserted(s, a, f, v)
         IN  /\ State(t) /\ NamesApart(t) /\ Listed(t)
             /\ Held(t) = [b \in DOMAIN Held(s) \cup {a} |-> IF b = a THEN v ELSE Held(s)[b]]
<1>1. Phys \in Nat \ {0} /\ Virt \in Nat
  BY DEF Sw!ConstantsOK
<1>2. /\ f \in Sw!Frames /\ f # Sw!None /\ f \notin UsedBy(s.pte) /\ f \notin On(s.pra)
      /\ \A b \in Sw!Pages : s.pte[b].frame # f
  BY DEF Sw!FreeFrames, UsedBy, Listed, Sw!Frames, Sw!None
<1>3. PICK m : m = Sw!MadeSwappable(s, f)
  OBVIOUS
<1>4. /\ m.pte = s.pte /\ m.held = s.held /\ m.vaddr = s.vaddr /\ m.disk = s.disk
      /\ m.hand = s.hand /\ State(m)
      /\ m.pra \in {Append(s.pra, f), <<f>> \o s.pra}
      /\ m.visited \in {s.visited, s.visited \cup {f}}
  <2>1. PICK longer : longer = Append(s.pra, f)
    OBVIOUS
  <2>2. PICK front : front = <<f>> \o s.pra
    OBVIOUS
  <2>3. m \in {[s EXCEPT !.pra = longer], [s EXCEPT !.pra = front],
               [s EXCEPT !.pra = longer, !.visited = s.visited \cup {f}]}
    BY <1>3, <2>1, <2>2 DEF Sw!MadeSwappable, Sw!Managers
  <2>4. /\ m.pte = s.pte /\ m.held = s.held /\ m.vaddr = s.vaddr /\ m.disk = s.disk
        /\ m.hand = s.hand /\ m.pra \in {longer, front}
        /\ m.visited \in {s.visited, s.visited \cup {f}}
        /\ m = [pte |-> m.pte, held |-> m.held, vaddr |-> m.vaddr, pra |-> m.pra,
                hand |-> m.hand, visited |-> m.visited, disk |-> m.disk]
    BY <2>3 DEF State
  <2> QED BY <2>1, <2>2, <2>4 DEF State
<1>5. Single(m.pra) /\ On(m.pra) = On(s.pra) \cup {f} /\ m.visited \in SUBSET Sw!Frames
  <2>1. /\ Single(s.pra) /\ s.visited \in SUBSET Sw!Frames
        /\ Single(Append(s.pra, f)) /\ On(Append(s.pra, f)) = On(s.pra) \cup {f}
        /\ Single(<<f>> \o s.pra) /\ On(<<f>> \o s.pra) = On(s.pra) \cup {f}
    BY <1>2, LongerList, Zenon DEF Listed
  <2>2. Single(m.pra) /\ On(m.pra) = On(s.pra) \cup {f}
    BY <1>4, <2>1, Zenon
  <2> QED BY <1>2, <1>4, <2>1, <2>2
<1>6. PICK new : new = [frame |-> f, slot |-> Sw!None]
  OBVIOUS
<1>7. PICK t : t = Sw!Inserted(s, a, f, v)
  OBVIOUS
<1>8. t = [m EXCEPT !.pte[a] = new, !.vaddr[f] = a, !.held[f] = v]
  BY <1>3, <1>6, <1>7, Zenon DEF Sw!Inserted
<1>9. /\ t.pte = [s.pte EXCEPT ![a] = new] /\ t.vaddr = [s.vaddr EXCEPT ![f] = a]
      /\ t.held = [s.held EXCEPT ![f] = v] /\ t.disk = s.disk
      /\ t.pra = m.pra /\ t.hand = s.hand /\ t.visited = m.visited /\ State(t)
  BY <1>4, <1>8 DEF State
<1>10. /\ \A b \in Sw!Pages : t.pte[b] = IF b = a THEN new ELSE s.pte[b]
       /\ t.pte \in [Sw!Pages -> [frame : Sw!Frames \cup {Sw!None}, slot : 0 .. Virt + 1]]
  <2>1. s.pte \in [Sw!Pages -> [frame : Sw!Frames \cup {Sw!None}, slot : 0 .. Virt + 1]]
    BY DEF NamesApart
  <2>2. new \in [frame : Sw!Frames \cup {Sw!None}, slot : 0 .. Virt + 1]
    BY <1>1, <1>2, <1>6 DEF Sw!None
  <2> QED BY <1>9, <2>1, <2>2
<1>11. new.frame = f /\ new.slot = Sw!None
  BY <1>6
<1>12. /\ t.vaddr \in [Sw!Frames -> Sw!Pages \cup {Sw!None}]
       /\ \A g \in Sw!Frames : t.vaddr[g] = IF g = f THEN a ELSE s.vaddr[g]
  BY <1>2, <1>9 DEF NamesApart
<1>13. \A g \in Sw!Frames : t.held[g] = IF g = f THEN v ELSE s.held[g]
  BY <1>2, <1>9 DEF NamesApart
<1>14. \A b \in Sw!Pages : s.pte[b].frame # Sw!None => s.pte[b].frame \in Sw!Frames
  BY DEF NamesApart
<1>15. NamesApart(t)
  <2>1. DOMAIN t.held = Sw!Frames /\ t.held = [g \in Sw!Frames |-> t.held[g]]
    BY <1>9 DEF NamesApart
  <2>2. DOMAIN t.disk = 1 .. Virt + 1 /\ t.disk = [k \in 1 .. Virt + 1 |-> t.disk[k]]
    BY <1>9 DEF NamesApart
  <2>3. \A b \in Sw!Pages : t.pte[b].frame # Sw!None =>
          t.pte[b].slot = Sw!None /\ t.vaddr[t.pte[b].frame] = b
    <3> SUFFICES ASSUME NEW b \in Sw!Pages, t.pte[b].frame # Sw!None
                 PROVE  t.pte[b].slot = Sw!None /\ t.vaddr[t.pte[b].frame] = b
      OBVIOUS
    <3>1. CASE b = a
      BY <3>1, <1>2, <1>10, <1>11, <1>12
    <3>2. CASE b # a
      <4>1. t.pte[b] = s.pte[b] /\ s.pte[b].frame \in Sw!Frames \ {f}
        BY <3>2, <1>2, <1>10, <1>14
      <4> QED BY <4>1, <1>12 DEF NamesApart
    <3> QED BY <3>1, <3>2
  <2>4. \A b \in Sw!Pages : t.pte[b].slot \in {Sw!None, b + 1}
    BY <1>10, <1>11 DEF NamesApart
  <2> QED BY <1>10, <1>12, <2>1, <2>2, <2>3, <2>4 DEF NamesApart
<1>16. UsedBy(t.pte) = UsedBy(s.pte) \cup {f}
  BY <1>2, <1>10, <1>11 DEF UsedBy
<1>17. Listed(t)
  <2>1. /\ s.hand \in On(s.pra) \cup {Sw!None} /\ On(s.pra) = UsedBy(s.pte)
        /\ manager # "clock" => s.hand = Sw!None
    BY DEF Listed
  <2> QED BY <1>5, <1>9, <1>16, <2>1 DEF Listed
<1>18. Held(t) = [b \in DOMAIN Held(s) \cup {a} |-> IF b = a THEN v ELSE Held(s)[b]]
  <2>1. DOMAIN Held(s) = {b \in Sw!Pages : s.pte[b].frame # Sw!None \/ s.pte[b].slot # Sw!None}
    BY DEF Held
  <2>2. DOMAIN Held(t) = {b \in Sw!Pages : t.pte[b].frame # Sw!None \/ t.pte[b].slot # Sw!None}
    BY DEF Held
  <2>3. DOMAIN Held(t) = DOMAIN Held(s) \cup {a}
    BY <2>1, <2>2, <1>2, <1>10, <1>11
  <2>4. ASSUME NEW b \in DOMAIN Held(t)
        PROVE  Held(t)[b] = IF b = a THEN v ELSE Held(s)[b]
    <3>1. b \in Sw!Pages
      BY <2>2, <2>4
    <3>2. Held(t)[b] = IF t.pte[b].frame # Sw!None THEN t.held[t.pte[b].frame]
                       ELSE t.disk[t.pte[b].slot]
      BY <2>2, <2>4 DEF Held
    <3>3. CASE b = a
      BY <3>1, <3>2, <3>3, <1>2, <1>10, <1>11, <1>13
    <3>4. CASE b # a
      <4>1. b \in DOMAIN Held(s)
        BY <2>3, <2>4, <3>4
      <4>2. Held(s)[b] = IF s.pte[b].frame # Sw!None THEN s.held[s.pte[b].frame]
                         ELSE s.disk[s.pte[b].slot]
        BY <4>1, <2>1 DEF Held
      <4>3. t.pte[b] = s.pte[b] /\ (s.pte[b].frame # Sw!None => s.pte[b].frame \in Sw!Frames \ {f})
        BY <3>1, <3>4, <1>2, <1>10, <1>14
      <4>4. s.pte[b].frame # Sw!None => t.held[s.pte[b].frame] = s.held[s.pte[b].frame]
        BY <4>3, <1>13
      <4> QED BY <3>2, <3>4, <4>2, <4>3, <4>4, <1>9
    <3> QED BY <3>3, <3>4
  <2>5. Held(t) = [b \in DOMAIN Held(t) |-> Held(t)[b]]
    BY <2>2 DEF Held
  <2> QED BY <2>3, <2>4, <2>5
<1> QED BY <1>7, <1>9, <1>15, <1>17, <1>18, Zenon

-----------------------------------------------------------------------------
\* What holds of page replacement at any time.
SwapInv == manager \in Sw!Managers /\ NamesApart(Sw!Now) /\ Listed(Sw!Now)

\* What the state is made of.
LEMMA NowIs ==
  /\ State(Sw!Now) /\ Sw!Now.pte = pte /\ Sw!Now.held = held /\ Sw!Now.vaddr = vaddr
  /\ Sw!Now.pra = pra /\ Sw!Now.hand = hand /\ Sw!Now.visited = visited
  /\ Sw!Now.disk = disk /\ Held(Sw!Now) = Sw!Contents
<1>1. /\ State(Sw!Now) /\ Sw!Now.pte = pte /\ Sw!Now.held = held /\ Sw!Now.vaddr = vaddr
      /\ Sw!Now.pra = pra /\ Sw!Now.hand = hand /\ Sw!Now.visited = visited /\ Sw!Now.disk = disk
  BY DEF Sw!Now, State
<1>2. Held(Sw!Now) = Sw!Contents
  BY <1>1, Zenon DEF Held, Sw!Contents
<1> QED BY <1>1, <1>2

\* It holds at first, when no page is anywhere.
LEMMA SwapStarts ==
  ASSUME Sw!ConstantsOK, Sw!Init
  PROVE  SwapInv /\ Sw!Contents = <<>>
<1>1. Phys \in Nat \ {0} /\ Virt \in Nat
  BY DEF Sw!ConstantsOK
<1>2. \A b \in Sw!Pages : pte[b] = [frame |-> Sw!None, slot |-> Sw!None]
  BY DEF Sw!Init
<1>3. NamesApart(Sw!Now)
  <2>1. pte \in [Sw!Pages -> [frame : Sw!Frames \cup {Sw!None}, slot : 0 .. Virt + 1]]
    BY <1>1 DEF Sw!Init, Sw!None
  <2>2. /\ DOMAIN held = Sw!Frames /\ DOMAIN disk = 1 .. Virt + 1
        /\ held = [f \in Sw!Frames |-> held[f]] /\ disk = [k \in 1 .. Virt + 1 |-> disk[k]]
        /\ vaddr \in [Sw!Frames -> Sw!Pages \cup {Sw!None}]
    BY DEF Sw!Init
  <2>3. \A b \in Sw!Pages : pte[b].frame = Sw!None /\ pte[b].slot = Sw!None
    BY <1>2
  <2> QED BY <2>1, <2>2, <2>3, NowIs DEF NamesApart
<1>4. Listed(Sw!Now)
  <2>1. pra = <<>> /\ hand = Sw!None /\ visited = {}
    BY DEF Sw!Init
  <2>2. Single(pra) /\ On(pra) = {}
    BY <2>1 DEF Single, On
  <2>3. UsedBy(pte) = {}
    BY <1>2 DEF UsedBy
  <2> QED BY <2>1, <2>2, <2>3, NowIs DEF Listed
<1>5. Sw!Contents = <<>>
  <2>1. {b \in Sw!Pages : pte[b].frame # Sw!None \/ pte[b].slot # Sw!None} = {}
    BY <1>2
  <2> DEFINE value(a) == IF pte[a].frame # Sw!None THEN held[pte[a].frame] ELSE disk[pte[a].slot]
  <2>2. Sw!Contents = [a \in {} |-> value(a)]
    BY <2>1, Zenon DEF Sw!Contents
  <2>3. [a \in {} |-> value(a)] = <<>>
    <3> HIDE DEF value
    <3> QED OBVIOUS
  <2> QED BY <2>2, <2>3
<1>6. manager \in Sw!Managers
  BY DEF Sw!Init
<1> QED BY <1>3, <1>4, <1>5, <1>6 DEF SwapInv

\* A page fault: a page that was somewhere is what it was, or a new one has any content.
LEMMA FaultKeeps ==
  ASSUME Sw!ConstantsOK, SwapInv, NEW a \in Sw!Pages, NEW v, Sw!Fault(a, v)
  PROVE  /\ SwapInv'
         /\ Sw!Contents' = [b \in DOMAIN Sw!Contents \cup {a} |->
                           IF b \in DOMAIN Sw!Contents THEN Sw!Contents[b] ELSE v]
<1>1. manager \in Sw!Managers /\ NamesApart(Sw!Now) /\ Listed(Sw!Now) /\ State(Sw!Now)
  BY NowIs DEF SwapInv
<1>2. pte[a].frame = Sw!None /\ manager' = manager
  BY DEF Sw!Fault
<1>3. PICK s : s = Sw!WithFrame(Sw!Now)
  OBVIOUS
<1>4. /\ State(s) /\ NamesApart(s) /\ Listed(s) /\ Held(s) = Sw!Contents
      /\ Sw!FreeFrames(s) # {} /\ s.pte[a] = pte[a]
  <2>1. CASE Sw!FreeFrames(Sw!Now) = {}
    <3>1. s = Sw!SwappedOut(Sw!Now)
      BY <1>3, <2>1 DEF Sw!WithFrame
    <3>2. /\ State(s) /\ NamesApart(s) /\ Listed(s) /\ Held(s) = Held(Sw!Now)
          /\ Sw!FreeFrames(s) # {}
          /\ \A b \in Sw!Pages : Sw!Now.pte[b].frame = Sw!None => s.pte[b] = Sw!Now.pte[b]
      BY <1>1, <2>1, <3>1, SwapOutKeeps, Zenon
    <3> QED BY <1>2, <3>2, NowIs
  <2>2. CASE Sw!FreeFrames(Sw!Now) # {}
    <3>1. s = Sw!Now
      BY <1>3, <2>2 DEF Sw!WithFrame
    <3> QED BY <1>1, <2>2, <3>1, NowIs
  <2> QED BY <2>1, <2>2
<1>5. PICK f : f = CHOOSE g \in Sw!FreeFrames(s) : \A h \in Sw!FreeFrames(s) : g <= h
  OBVIOUS
<1>6. f \in Sw!FreeFrames(s)
  <2>1. Sw!FreeFrames(s) \in SUBSET Nat
    BY DEF Sw!FreeFrames, Sw!Frames
  <2>2. \E g \in Sw!FreeFrames(s) : \A h \in Sw!FreeFrames(s) : g <= h
    BY <1>4, <2>1, LeastOf
  <2> QED BY <1>5, <2>2
<1>7. PICK value : value = IF pte[a].slot = Sw!None THEN v ELSE s.disk[pte[a].slot]
  OBVIOUS
<1>8. PICK t : t = Sw!Inserted(s, a, f, value)
  OBVIOUS
<1>9. /\ pte' = t.pte /\ held' = t.held /\ vaddr' = t.vaddr
      /\ pra' = t.pra /\ hand' = t.hand /\ visited' = t.visited /\ disk' = t.disk
  BY <1>3, <1>5, <1>7, <1>8, Zenon DEF Sw!Fault
<1>10. /\ State(t) /\ NamesApart(t) /\ Listed(t)
       /\ Held(t) = [b \in DOMAIN Held(s) \cup {a} |-> IF b = a THEN value ELSE Held(s)[b]]
  <2>1. s.pte[a].frame = Sw!None
    BY <1>2, <1>4
  <2>2. /\ Sw!ConstantsOK /\ manager \in Sw!Managers /\ State(s) /\ NamesApart(s) /\ Listed(s)
        /\ f \in Sw!FreeFrames(s) /\ a \in Sw!Pages /\ s.pte[a].frame = Sw!None
    BY <1>1, <1>4, <1>6, <2>1
  <2> QED BY <1>8, <2>2, InsertKeeps
<1>11. Sw!Now' = t
  BY <1>9, <1>10 DEF Sw!Now, State
<1>12. SwapInv'
  BY <1>1, <1>2, <1>10, <1>11 DEF SwapInv, NamesApart, Listed
<1>13. Sw!Contents' = Held(t)
  BY <1>9, Zenon DEF Held, Sw!Contents
<1>14. a \in DOMAIN Sw!Contents <=> pte[a].slot # Sw!None
  BY <1>2 DEF Sw!Contents
<1>15. a \in DOMAIN Sw!Contents => value = Sw!Contents[a]
  <2> SUFFICES ASSUME a \in DOMAIN Sw!Contents PROVE value = Sw!Contents[a]
    OBVIOUS
  <2>1. pte[a].slot # Sw!None /\ s.pte[a].frame = Sw!None /\ s.pte[a].slot = pte[a].slot
    BY <1>2, <1>4, <1>14
  <2>2. Held(s)[a] = s.disk[s.pte[a].slot]
    BY <2>1 DEF Held
  <2> QED BY <1>4, <1>7, <2>1, <2>2
<1>16. a \notin DOMAIN Sw!Contents => value = v
  BY <1>7, <1>14
<1>17. Sw!Contents' = [b \in DOMAIN Sw!Contents \cup {a} |->
                      IF b \in DOMAIN Sw!Contents THEN Sw!Contents[b] ELSE v]
  BY <1>4, <1>10, <1>13, <1>15, <1>16
<1> QED BY <1>12, <1>17

\* The program writes to a page.
LEMMA StoreKeeps ==
  ASSUME Sw!ConstantsOK, SwapInv, NEW a \in Sw!Pages, NEW v, Sw!Store(a, v)
  PROVE  /\ SwapInv'
         /\ a \in DOMAIN Sw!Contents /\ Sw!Contents' = [Sw!Contents EXCEPT ![a] = v]
<1>1. manager \in Sw!Managers /\ NamesApart(Sw!Now) /\ Listed(Sw!Now)
  BY DEF SwapInv
<1>2. PICK f \in Sw!Frames : f = pte[a].frame
  BY <1>1, NowIs DEF Sw!Store, NamesApart
<1>3. /\ f # Sw!None /\ held' = [held EXCEPT ![f] = v]
      /\ manager' = manager /\ pte' = pte /\ vaddr' = vaddr /\ pra' = pra
      /\ hand' = hand /\ visited' = visited /\ disk' = disk
  BY <1>2 DEF Sw!Store
<1>4. Sw!Now' = [Sw!Now EXCEPT !.held = held']
  BY <1>3 DEF Sw!Now
<1>5. DOMAIN held = Sw!Frames /\ held = [g \in Sw!Frames |-> held[g]]
  BY <1>1, NowIs DEF NamesApart
<1>6. DOMAIN held' = Sw!Frames /\ held' = [g \in Sw!Frames |-> held'[g]]
  BY <1>3, <1>5
<1>7. /\ Sw!Now'.pte = pte /\ Sw!Now'.held = held' /\ Sw!Now'.vaddr = vaddr /\ Sw!Now'.pra = pra
      /\ Sw!Now'.hand = hand /\ Sw!Now'.visited = visited /\ Sw!Now'.disk = disk
  BY <1>3 DEF Sw!Now
<1>a. PICK n : n = Sw!Now'
  OBVIOUS
<1>8. NamesApart(Sw!Now')
  <2>1. NamesApart(n)
    <3>1. /\ n.pte = pte /\ n.held = held' /\ n.vaddr = vaddr /\ n.disk = disk
      BY <1>7, <1>a
    <3>2. /\ pte \in [Sw!Pages -> [frame : Sw!Frames \cup {Sw!None}, slot : 0 .. Virt + 1]]
          /\ DOMAIN disk = 1 .. Virt + 1 /\ disk = [k \in 1 .. Virt + 1 |-> disk[k]]
          /\ vaddr \in [Sw!Frames -> Sw!Pages \cup {Sw!None}]
          /\ \A b \in Sw!Pages : pte[b].frame # Sw!None =>
               pte[b].slot = Sw!None /\ vaddr[pte[b].frame] = b
          /\ \A b \in Sw!Pages : pte[b].slot \in {Sw!None, b + 1}
      BY <1>1, NowIs, Zenon DEF NamesApart
    <3>3. n.held = [f1 \in Sw!Frames |-> n.held[f1]] /\ DOMAIN n.held = Sw!Frames
      BY <1>6, <3>1, Zenon
    <3>4. n.disk = [k \in 1 .. Virt + 1 |-> n.disk[k]]
      BY <3>1, <3>2, Zenon
    <3> QED BY <3>1, <3>2, <3>3, <3>4, Zenon DEF NamesApart
  <2> QED BY <2>1, <1>a
<1>9. Listed(Sw!Now')
  <2>1. Listed(n)
    BY <1>1, <1>7, <1>a, NowIs DEF Listed
  <2> QED BY <2>1, <1>a
<1>10. SwapInv'
  BY <1>1, <1>3, <1>8, <1>9 DEF SwapInv, NamesApart, Listed
<1>11. a \in DOMAIN Sw!Contents
  BY <1>2, <1>3 DEF Sw!Contents
<1>12. Sw!Contents' = [Sw!Contents EXCEPT ![a] = v]
  <2>1. DOMAIN Sw!Contents = {b \in Sw!Pages : pte[b].frame # Sw!None \/ pte[b].slot # Sw!None}
    BY DEF Sw!Contents
  <2>2. ASSUME NEW b \in DOMAIN Sw!Contents
        PROVE  (IF pte[b].frame # Sw!None THEN held'[pte[b].frame] ELSE disk[pte[b].slot])
               = IF b = a THEN v ELSE Sw!Contents[b]
    <3>1. Sw!Contents[b] = IF pte[b].frame # Sw!None THEN held[pte[b].frame] ELSE disk[pte[b].slot]
      BY <2>2 DEF Sw!Contents
    <3>2. CASE b = a
      BY <3>2, <1>2, <1>3, <1>5
    <3>3. CASE b # a /\ pte[b].frame # Sw!None
      <4>1. b \in Sw!Pages
        BY <2>1, <2>2
      <4>2. pte[b].frame \in Sw!Frames /\ pte[b].frame # f
        BY <3>3, <4>1, <1>1, <1>2, <1>3, NowIs DEF NamesApart
      <4> QED BY <3>1, <3>3, <4>2, <1>3, <1>5
    <3>4. CASE b # a /\ pte[b].frame = Sw!None
      BY <3>1, <3>4
    <3> QED BY <3>2, <3>3, <3>4
  <2>3. Sw!Contents' = [b \in DOMAIN Sw!Contents |->
                       IF pte[b].frame # Sw!None THEN held'[pte[b].frame] ELSE disk[pte[b].slot]]
    <3>1. Sw!Contents'
            = [b \in {c \in Sw!Pages : pte'[c].frame # Sw!None \/ pte'[c].slot # Sw!None} |->
                         IF pte'[b].frame # Sw!None THEN held'[pte'[b].frame]
                         ELSE disk'[pte'[b].slot]]
      BY Zenon DEF Sw!Contents
    <3>2. {c \in Sw!Pages : pte'[c].frame # Sw!None \/ pte'[c].slot # Sw!None} = DOMAIN Sw!Contents
      BY <1>3, <2>1
    <3> QED BY <1>3, <3>1, <3>2
  <2>4. [Sw!Contents EXCEPT ![a] = v]
          = [b \in DOMAIN Sw!Contents |-> IF b = a THEN v ELSE Sw!Contents[b]]
    BY DEF Sw!Contents
  <2> QED BY <2>2, <2>3, <2>4
<1> QED BY <1>10, <1>11, <1>12

\* What the invariant says of the list.
LEMMA SwapExact ==
  ASSUME SwapInv
  PROVE  Sw!ListExact
<1>1. /\ Single(pra) /\ On(pra) = UsedBy(pte) /\ hand \in On(pra) \cup {Sw!None}
      /\ \A b \in Sw!Pages : pte[b].frame \in Sw!Frames \cup {Sw!None}
      /\ \A b \in Sw!Pages : pte[b].frame # Sw!None => vaddr[pte[b].frame] = b
  BY NowIs DEF SwapInv, NamesApart, Listed
<1>2. On(pra) = Sw!Frames \ Sw!FreeFrames(Sw!Now)
  <2>1. Sw!FreeFrames(Sw!Now) = Sw!Frames \ {pte[b].frame : b \in Sw!Pages}
    BY NowIs, Zenon DEF Sw!FreeFrames
  <2>2. Sw!None \notin Sw!Frames
    BY DEF Sw!None, Sw!Frames
  <2> QED BY <1>1, <2>1, <2>2 DEF UsedBy
<1>3. \A i \in DOMAIN pra : pte[vaddr[pra[i]]].frame = pra[i]
  <2> SUFFICES ASSUME NEW i \in DOMAIN pra PROVE pte[vaddr[pra[i]]].frame = pra[i]
    OBVIOUS
  <2>1. PICK f : f = pra[i]
    OBVIOUS
  <2>2. f \in UsedBy(pte)
    BY <1>1, <2>1 DEF On
  <2>3. PICK b \in Sw!Pages : pte[b].frame = f /\ f # Sw!None
    BY <2>2 DEF UsedBy
  <2> QED BY <1>1, <2>1, <2>3
<1>4. \A i, j \in DOMAIN pra : i # j => pra[i] # pra[j]
  BY <1>1 DEF Single
<1> QED BY <1>1, <1>2, <1>3, <1>4 DEF Sw!ListExact, On

\* The pages of the one address space.
Of(contents) == [p \in {"check"} |-> contents]

\* Every step of page replacement is one of a memory that keeps what is in it, and only
\* the program itself writes.
LEMMA SwapStep ==
  ASSUME Sw!ConstantsOK, SwapInv, Sw!Next \/ UNCHANGED Sw!vars
  PROVE  /\ SwapInv'
         /\ Sw!Memory!Next \/ Sw!Contents' = Sw!Contents
         /\ Sw!OnlyStores \/ UNCHANGED Sw!vars
<1> DEFINE old == Of(Sw!Contents)
           new == Of(Sw!Contents')
<1>1. CASE UNCHANGED Sw!vars
  <2>1. Sw!Now' = Sw!Now /\ manager' = manager /\ Sw!Contents' = Sw!Contents
    BY <1>1, Zenon DEF Sw!vars, Sw!Now, Sw!Contents
  <2>2. NamesApart(Sw!Now') /\ Listed(Sw!Now') /\ manager' \in Sw!Managers
    BY <2>1 DEF SwapInv, Listed
  <2>3. SwapInv'
    BY <2>1, <2>2 DEF SwapInv, NamesApart, Listed
  <2> QED BY <1>1, <2>1, <2>3
<1>2. ASSUME NEW a \in Sw!Pages, NEW v \in Values, Sw!Fault(a, v)
      PROVE  SwapInv' /\ (Sw!Memory!Next \/ Sw!Contents' = Sw!Contents) /\ Sw!OnlyStores
  <2>1. /\ SwapInv'
        /\ Sw!Contents' = [b \in DOMAIN Sw!Contents \cup {a} |->
                          IF b \in DOMAIN Sw!Contents THEN Sw!Contents[b] ELSE v]
    BY <1>2, FaultKeeps
  <2>2. CASE a \in DOMAIN Sw!Contents
    <3>1. Sw!Contents' = Sw!Contents
      <4>1. DOMAIN Sw!Contents \cup {a} = DOMAIN Sw!Contents
        BY <2>2
      <4>2. Sw!Contents = [b \in DOMAIN Sw!Contents |-> Sw!Contents[b]]
        BY DEF Sw!Contents
      <4> QED BY <2>1, <4>1, <4>2
    <3>2. Sw!Memory!KernelKeeps
      BY <3>1, Zenon DEF Sw!Memory!KernelKeeps
    <3> QED BY <2>1, <3>1, <3>2 DEF Sw!OnlyStores
  <2>3. CASE a \notin DOMAIN Sw!Contents
    <3>1. /\ DOMAIN Sw!Contents' = DOMAIN Sw!Contents \cup {a}
          /\ \A b \in DOMAIN Sw!Contents : Sw!Contents'[b] = Sw!Contents[b]
      BY <2>1
    <3>2. old["check"] = Sw!Contents /\ new["check"] = Sw!Contents'
      BY DEF Of
    <3>3. Sw!Memory!Appear("check", old, new)
      BY <2>3, <3>1, <3>2 DEF Sw!Memory!Appear, Sw!Memory!OthersKeep
    <3>4. Sw!Memory!Kernel(old, new)
      BY <3>3 DEF Sw!Memory!Kernel
    <3>5. Sw!Memory!KernelKeeps /\ Sw!Memory!Next
      BY <3>4, Zenon DEF Sw!Memory!KernelKeeps, Sw!Memory!Next, Of
    <3> QED BY <2>1, <3>5 DEF Sw!OnlyStores
  <2> QED BY <2>2, <2>3
<1>3. ASSUME NEW a \in Sw!Pages, NEW v \in Values, Sw!Store(a, v)
      PROVE  SwapInv' /\ Sw!Memory!Next /\ Sw!OnlyStores
  <2>1. /\ SwapInv'
        /\ a \in DOMAIN Sw!Contents /\ Sw!Contents' = [Sw!Contents EXCEPT ![a] = v]
    BY <1>3, StoreKeeps
  <2>2. new = [old EXCEPT !["check"][a] = v] /\ a \in DOMAIN old["check"]
    BY <2>1 DEF Of
  <2>3. Sw!Memory!Write("check", old, new)
    BY <2>2 DEF Sw!Memory!Write
  <2>4. Sw!Memory!Next
    BY <2>3, Zenon DEF Sw!Memory!Next, Of
  <2> QED BY <1>3, <2>1, <2>4 DEF Sw!OnlyStores
<1> QED BY <1>1, <1>2, <1>3 DEF Sw!Next

\* The list of swappable pages has the frames in use, once each and with their
\* addresses, under each of the managers, for any number of pages and frames
\* (swap.c, swap_out; swap_fifo.c, swap_clock.c, swap_lru.c).
THEOREM SwapListExact == Sw!Spec /\ Sw!ConstantsOK => []Sw!ListExact
<1> SUFFICES ASSUME Sw!ConstantsOK PROVE Sw!Spec => []Sw!ListExact
  OBVIOUS
<1>1. Sw!Init => SwapInv
  BY SwapStarts
<1>2. SwapInv /\ [Sw!Next]_(Sw!vars) => SwapInv'
  BY SwapStep
<1>3. SwapInv => Sw!ListExact
  BY SwapExact
<1> QED BY <1>1, <1>2, <1>3, PTL DEF Sw!Spec

\* A page that went out and came back is what it was, for any number of pages, frames and
\* values (swap.c, swap_in and swap_out; vmm.c, do_pgfault).
THEOREM SwapKeepsMemory == Sw!Spec /\ Sw!ConstantsOK => Sw!ImplementsMemory
<1> SUFFICES ASSUME Sw!ConstantsOK PROVE Sw!Spec => Sw!ImplementsMemory
  OBVIOUS
<1>1. Sw!Init => SwapInv /\ Sw!Memory!Init
  <2> SUFFICES ASSUME Sw!Init PROVE SwapInv /\ Sw!Memory!Init
    OBVIOUS
  <2>1. SwapInv /\ Sw!Contents = <<>>
    BY SwapStarts
  <2> QED BY <2>1, Zenon DEF Sw!Memory!Init
<1>2. SwapInv /\ [Sw!Next]_(Sw!vars) =>
        /\ SwapInv' /\ [Sw!Memory!Next]_([p \in {"check"} |-> Sw!Contents])
        /\ [Sw!OnlyStores]_(Sw!vars)
  <2> SUFFICES ASSUME SwapInv, [Sw!Next]_(Sw!vars)
               PROVE  /\ SwapInv' /\ [Sw!Memory!Next]_([p \in {"check"} |-> Sw!Contents])
                      /\ [Sw!OnlyStores]_(Sw!vars)
    OBVIOUS
  <2>1. /\ SwapInv' /\ (Sw!Memory!Next \/ Sw!Contents' = Sw!Contents)
        /\ (Sw!OnlyStores \/ UNCHANGED Sw!vars)
    BY SwapStep
  <2>2. Sw!Contents' = Sw!Contents => UNCHANGED [p \in {"check"} |-> Sw!Contents]
    OBVIOUS
  <2> QED BY <2>1, <2>2
<1>3. Sw!Spec => Sw!Memory!Spec
  BY <1>1, <1>2, PTL DEF Sw!Spec, Sw!Memory!Spec
<1>4. Sw!Spec => [][Sw!OnlyStores]_(Sw!vars)
  BY <1>1, <1>2, PTL DEF Sw!Spec
<1> QED BY <1>3, <1>4 DEF Sw!ImplementsMemory
=============================================================================
