----------------------------- MODULE KinProofs -----------------------------
(***************************************************************************)
(* Proofs about what links processes with each other, for any number of    *)
(* them.                                                                   *)
(*                                                                         *)
(* The sibling links of ProcLinks are exact.  The children of a process    *)
(* have a rank, the order in which they came to it, which no field         *)
(* records: the links of a family lead down in rank and back (Family).     *)
(* Putting a child first, taking the first away and passing one by are     *)
(* lemmas about one family; the steps of the processes put them together,  *)
(* and a chain along the links goes down in rank, so that it meets each    *)
(* child once and ends.                                                    *)
(*                                                                         *)
(* The list of TimerList keeps what Timers promises.  The deadline of a    *)
(* timer is the sum of the deltas up to it (DeadlineIs); where two lists   *)
(* have the same deltas, their deadlines run in parallel (Parallel), so    *)
(* that an insertion, a deletion or a tick changes only the deadlines it   *)
(* is about.                                                               *)
(***************************************************************************)
EXTENDS ProcLinks, Sequences, SequencesExt, Loops, SequenceTheorems, FiniteSetTheorems, TLAPS

CONSTANTS
  Sleepers, MaxSleep   \* the processes of TimerList, and their longest sleep

VARIABLES
  timerList, phase     \* the list of TimerList, and where its processes are

Clock == INSTANCE TimerList

\* c, op and yp link the children K of a process from the youngest on, by rank.  The yp
\* of the youngest is left open: do_exit() sets it late.
Family(c, op, yp, K, rank) ==
  /\ \/ c = NULL /\ K = {}
     \/ c \in K /\ \A r \in K : rank[r] <= rank[c]
  /\ \A q \in K :
       \/ op[q] = NULL /\ \A r \in K : rank[q] <= rank[r]
       \/ /\ op[q] \in K /\ rank[op[q]] < rank[q] /\ yp[op[q]] = q
          /\ \A r \in K : rank[r] < rank[q] => rank[r] <= rank[op[q]]
  /\ \A q \in K : q = c \/ (yp[q] \in K /\ op[yp[q]] = q)
  /\ \A q \in K : rank[q] \in Nat
  /\ \A q, r \in K : rank[q] = rank[r] => q = r

\* Two families with the same members and links.
SameOn(K, op, yp, rank, op2, yp2, rank2) ==
  \A q \in K : op2[q] = op[q] /\ yp2[q] = yp[q] /\ rank2[q] = rank[q]

\* Whose members and links stay as they were is the same family.
LEMMA FamilySame ==
  ASSUME NEW c, NEW K, NEW op, NEW yp, NEW rank, NEW op2, NEW yp2, NEW rank2,
         NULL \notin K, Family(c, op, yp, K, rank), SameOn(K, op, yp, rank, op2, yp2, rank2)
  PROVE  Family(c, op2, yp2, K, rank2)
<1>1. \A q \in K : op2[q] = op[q] /\ yp2[q] = yp[q] /\ rank2[q] = rank[q]
  BY DEF SameOn
<1> QED BY <1>1 DEF Family

\* The elder ones of a family are a family.
LEMMA FamilyPop ==
  ASSUME NEW c, NEW K, NEW op, NEW yp, NEW rank, NULL \notin K, Family(c, op, yp, K, rank),
         c # NULL
  PROVE  c \in K /\ Family(op[c], op, yp, K \ {c}, rank)
<1>1. c \in K /\ \A r \in K : rank[r] <= rank[c]
  BY DEF Family
<1>2. /\ \A q, r \in K : rank[q] = rank[r] => q = r
      /\ \A q \in K : rank[q] \in Nat
  BY DEF Family
<1>3. \/ op[c] = NULL /\ K \ {c} = {}
      \/ op[c] \in K \ {c} /\ \A r \in K \ {c} : rank[r] <= rank[op[c]]
  <2>1. CASE op[c] = NULL /\ \A r \in K : rank[c] <= rank[r]
    <3>1. \A r \in K : rank[r] = rank[c]
      BY <1>1, <1>2, <2>1
    <3> QED BY <1>1, <1>2, <2>1, <3>1
  <2>2. CASE /\ op[c] \in K /\ rank[op[c]] < rank[c]
             /\ \A r \in K : rank[r] < rank[c] => rank[r] <= rank[op[c]]
    <3>1. \A r \in K \ {c} : rank[r] < rank[c]
      BY <1>1, <1>2
    <3> QED BY <1>1, <1>2, <2>2, <3>1
  <2> QED BY <1>1, <2>1, <2>2 DEF Family
<1>4. ASSUME NEW q \in K \ {c}
      PROVE  \/ op[q] = NULL /\ \A r \in K \ {c} : rank[q] <= rank[r]
             \/ /\ op[q] \in K \ {c} /\ rank[op[q]] < rank[q] /\ yp[op[q]] = q
                /\ \A r \in K \ {c} : rank[r] < rank[q] => rank[r] <= rank[op[q]]
  <2>1. CASE op[q] = NULL /\ \A r \in K : rank[q] <= rank[r]
    BY <2>1
  <2>2. CASE /\ op[q] \in K /\ rank[op[q]] < rank[q] /\ yp[op[q]] = q
             /\ \A r \in K : rank[r] < rank[q] => rank[r] <= rank[op[q]]
    <3>1. op[q] # c
      BY <1>1, <1>2, <2>2
    <3> QED BY <2>2, <3>1
  <2> QED BY <2>1, <2>2 DEF Family
<1>5. ASSUME NEW q \in K \ {c}
      PROVE  q = op[c] \/ (yp[q] \in K \ {c} /\ op[yp[q]] = q)
  BY DEF Family
<1>6. Family(op[c], op, yp, K \ {c}, rank)
  BY <1>2, <1>3, <1>4, <1>5 DEF Family
<1> QED BY <1>1, <1>6

\* op2 and yp2 put e in front of c.
PutFirst(K, e, c, op, yp, rank, op2, yp2, rank2) ==
  /\ \A q \in K : /\ op2[q] = op[q] /\ rank2[q] = rank[q]
                  /\ q # c => yp2[q] = yp[q]
  /\ c # NULL => yp2[c] = e
  /\ op2[e] = c /\ rank2[e] \in Nat /\ \A q \in K : rank[q] < rank2[e]

\* Who is put first, and ranks above the others, joins a family.
LEMMA FamilyPush ==
  ASSUME NEW c, NEW K, NEW op, NEW yp, NEW rank, NULL \notin K, Family(c, op, yp, K, rank),
         NEW e, e # NULL, e \notin K, NEW op2, NEW yp2, NEW rank2,
         PutFirst(K, e, c, op, yp, rank, op2, yp2, rank2)
  PROVE  Family(e, op2, yp2, K \cup {e}, rank2)
<1>1. /\ \A q \in K : /\ op2[q] = op[q] /\ rank2[q] = rank[q]
                      /\ q # c => yp2[q] = yp[q]
      /\ c # NULL => yp2[c] = e
      /\ op2[e] = c /\ rank2[e] \in Nat /\ \A q \in K : rank[q] < rank2[e]
  BY DEF PutFirst
<1>2. /\ \A q, r \in K : rank[q] = rank[r] => q = r
      /\ \A q \in K : rank[q] \in Nat
  BY DEF Family
<1>3. \A q \in K \cup {e} : rank2[q] \in Nat /\ (q \in K => rank2[q] < rank2[e])
  BY <1>1, <1>2
<1>4. \A r \in K \cup {e} : rank2[r] <= rank2[e]
  BY <1>3
<1>5. ASSUME NEW q \in K \cup {e}
      PROVE  \/ op2[q] = NULL /\ \A r \in K \cup {e} : rank2[q] <= rank2[r]
             \/ /\ op2[q] \in K \cup {e} /\ rank2[op2[q]] < rank2[q] /\ yp2[op2[q]] = q
                /\ \A r \in K \cup {e} : rank2[r] < rank2[q] => rank2[r] <= rank2[op2[q]]
  <2>1. CASE q = e
    <3>1. CASE c = NULL /\ K = {}
      BY <1>1, <1>3, <2>1, <3>1
    <3>2. CASE c \in K /\ \A r \in K : rank[r] <= rank[c]
      <4>1. c # NULL /\ op2[e] = c /\ yp2[c] = e /\ rank2[c] < rank2[e]
        BY <1>1, <1>3, <3>2
      <4>2. \A r \in K : rank2[r] <= rank2[c]
        BY <1>1, <3>2
      <4> QED BY <1>3, <2>1, <3>2, <4>1, <4>2
    <3> QED BY <3>1, <3>2 DEF Family
  <2>2. CASE q \in K /\ op[q] = NULL /\ \A r \in K : rank[q] <= rank[r]
    BY <1>1, <1>3, <2>2
  <2>3. CASE /\ q \in K /\ op[q] \in K /\ rank[op[q]] < rank[q] /\ yp[op[q]] = q
             /\ \A r \in K : rank[r] < rank[q] => rank[r] <= rank[op[q]]
    <3>1. op[q] # c
      <4>1. c # NULL => \A r \in K : rank[r] <= rank[c]
        BY DEF Family
      <4> QED BY <1>2, <2>3, <4>1
    <3>2. op2[q] = op[q] /\ yp2[op2[q]] = q /\ rank2[op2[q]] < rank2[q] /\ rank2[q] = rank[q]
      BY <1>1, <2>3, <3>1
    <3>3. \A r \in K \cup {e} : rank2[r] < rank2[q] => rank2[r] <= rank2[op2[q]]
      BY <1>1, <1>3, <2>3, <3>2
    <3> QED BY <2>3, <3>2, <3>3
  <2> QED BY <2>1, <2>2, <2>3 DEF Family
<1>6. ASSUME NEW q \in K \cup {e}
      PROVE  q = e \/ (yp2[q] \in K \cup {e} /\ op2[yp2[q]] = q)
  <2>1. CASE q = c /\ q # e
    BY <1>1, <2>1
  <2>2. CASE q # c /\ q # e
    <3>1. yp[q] \in K /\ op[yp[q]] = q /\ q \in K
      BY <2>2 DEF Family
    <3> QED BY <1>1, <2>2, <3>1
  <2> QED BY <2>1, <2>2
<1>7. \A q, r \in K \cup {e} : rank2[q] = rank2[r] => q = r
  BY <1>1, <1>2, <1>3
<1> QED BY <1>3, <1>4, <1>5, <1>6, <1>7 DEF Family

\* op2 and yp2 go past e, where op and yp go through it.
PassBy(K, e, op, yp, op2, yp2) ==
  \A q \in K \ {e} : /\ op2[q] = IF q = yp[e] THEN op[e] ELSE op[q]
                     /\ yp2[q] = IF q = op[e] THEN yp[e] ELSE yp[q]

\* Who is passed by leaves a family, and the others stay one (remove_links).
LEMMA FamilyDrop ==
  ASSUME NEW c, NEW K, NEW op, NEW yp, NEW rank, NULL \notin K, Family(c, op, yp, K, rank),
         c # NULL => yp[c] = NULL, NEW e \in K, NEW op2, NEW yp2,
         PassBy(K, e, op, yp, op2, yp2)
  PROVE  LET c2 == IF yp[e] = NULL THEN op[e] ELSE c
         IN  Family(c2, op2, yp2, K \ {e}, rank) /\ (c2 # NULL => yp2[c2] = NULL)
<1>1. \A q \in K \ {e} : /\ op2[q] = IF q = yp[e] THEN op[e] ELSE op[q]
                         /\ yp2[q] = IF q = op[e] THEN yp[e] ELSE yp[q]
  BY DEF PassBy
<1>2. /\ \A q, r \in K : rank[q] = rank[r] => q = r
      /\ \A q \in K : rank[q] \in Nat
  BY DEF Family
<1>3. c \in K /\ yp[c] = NULL /\ \A r \in K : rank[r] <= rank[c]
  BY DEF Family
<1>4. \A q \in K : q # c => yp[q] \in K /\ op[yp[q]] = q
  BY DEF Family
<1>5. \A q \in K :
       \/ op[q] = NULL /\ \A r \in K : rank[q] <= rank[r]
       \/ /\ op[q] \in K /\ rank[op[q]] < rank[q] /\ yp[op[q]] = q
          /\ \A r \in K : rank[r] < rank[q] => rank[r] <= rank[op[q]]
  BY DEF Family
<1>6. yp[e] = NULL <=> e = c
  BY <1>3, <1>4
<1> PICK c2 : c2 = IF yp[e] = NULL THEN op[e] ELSE c
  OBVIOUS
<1>7. /\ op[e] # e /\ yp[e] # e
      /\ op[e] # NULL => op[e] \in K \ {e} /\ rank[op[e]] < rank[e] /\ yp[op[e]] = e
      /\ yp[e] # NULL => yp[e] \in K \ {e} /\ rank[e] < rank[yp[e]] /\ op[yp[e]] = e
  <2>1. op[e] # NULL => op[e] \in K /\ rank[op[e]] < rank[e] /\ yp[op[e]] = e
    BY <1>5
  <2>2. op[e] # e
    BY <1>2, <2>1
  <2>3. yp[e] # NULL => yp[e] \in K /\ op[yp[e]] = e
    BY <1>4, <1>6
  <2>4. yp[e] # NULL => rank[e] < rank[yp[e]]
    BY <1>5, <2>3
  <2>5. yp[e] # e
    BY <1>2, <2>4
  <2> QED BY <2>1, <2>2, <2>3, <2>4, <2>5
<1>8. \/ c2 = NULL /\ K \ {e} = {}
      \/ /\ c2 \in K \ {e} /\ \A r \in K \ {e} : rank[r] <= rank[c2]
         /\ yp2[c2] = NULL
  <2>1. CASE e = c
    <3>1. c2 = op[e] /\ yp[e] = NULL
      BY <1>6, <2>1
    <3>2. CASE op[e] = NULL
      <4>1. \A r \in K : rank[r] = rank[e]
        BY <1>2, <1>3, <1>5, <2>1, <3>2
      <4> QED BY <1>2, <3>1, <3>2, <4>1
    <3>3. CASE op[e] # NULL
      <4>1. \A r \in K \ {e} : rank[r] < rank[e]
        BY <1>2, <1>3, <2>1
      <4>2. \A r \in K \ {e} : rank[r] <= rank[op[e]]
        BY <1>5, <3>3, <4>1
      <4>3. yp2[c2] = NULL
        BY <1>1, <1>7, <3>1, <3>3
      <4> QED BY <1>7, <3>1, <3>3, <4>2, <4>3
    <3> QED BY <3>2, <3>3
  <2>2. CASE e # c
    <3>1. c2 = c /\ c \in K \ {e}
      BY <1>3, <1>6, <2>2
    <3>2. op[e] # c
      BY <1>3, <1>7
    <3> QED BY <1>1, <1>3, <3>1, <3>2
  <2> QED BY <2>1, <2>2
<1>9. ASSUME NEW q \in K \ {e}
      PROVE  \/ op2[q] = NULL /\ \A r \in K \ {e} : rank[q] <= rank[r]
             \/ /\ op2[q] \in K \ {e} /\ rank[op2[q]] < rank[q] /\ yp2[op2[q]] = q
                /\ \A r \in K \ {e} : rank[r] < rank[q] => rank[r] <= rank[op2[q]]
  <2>1. CASE q = yp[e]
    <3>1. op2[q] = op[e] /\ op[q] = e /\ rank[e] < rank[q] /\ q # NULL
      BY <1>1, <1>7, <2>1
    <3>2. \A r \in K \ {e} : rank[r] < rank[q] => rank[r] < rank[e]
      BY <1>2, <1>5, <1>7, <3>1
    <3>3. CASE op[e] = NULL
      <4>1. \A r \in K : rank[e] <= rank[r]
        BY <1>5, <3>3
      <4>2. \A r \in K \ {e} : rank[q] <= rank[r]
        BY <1>2, <3>2, <4>1
      <4> QED BY <3>1, <3>3, <4>2
    <3>4. CASE op[e] # NULL
      <4>1. op[e] \in K \ {e} /\ rank[op[e]] < rank[e] /\ yp2[op[e]] = yp[e]
        BY <1>1, <1>7, <3>4
      <4>2. \A r \in K : rank[r] < rank[e] => rank[r] <= rank[op[e]]
        BY <1>5, <3>4
      <4>3. rank[op[e]] < rank[q]
        BY <1>2, <3>1, <4>1
      <4>4. \A r \in K \ {e} : rank[r] < rank[q] => rank[r] <= rank[op[e]]
        BY <3>2, <4>2
      <4> QED BY <2>1, <3>1, <4>1, <4>3, <4>4
    <3> QED BY <3>3, <3>4
  <2>2. CASE q # yp[e]
    <3>1. op2[q] = op[q]
      BY <1>1, <2>2
    <3>2. op[q] # e
      BY <1>5, <2>2
    <3>3. op[q] # NULL => op[q] # op[e]
      BY <1>5, <1>7
    <3> QED BY <1>1, <1>5, <3>1, <3>2, <3>3
  <2> QED BY <2>1, <2>2
<1>10. ASSUME NEW q \in K \ {e}
       PROVE  q = c2 \/ (yp2[q] \in K \ {e} /\ op2[yp2[q]] = q)
  <2>1. CASE q = op[e]
    <3>1. yp2[q] = yp[e]
      BY <1>1, <2>1
    <3>2. CASE yp[e] = NULL
      BY <2>1, <3>2
    <3>3. CASE yp[e] # NULL
      BY <1>1, <1>7, <2>1, <3>1, <3>3
    <3> QED BY <3>2, <3>3
  <2>2. CASE q # op[e]
    <3>1. yp2[q] = yp[q]
      BY <1>1, <2>2
    <3>2. CASE q = c
      <4>1. c2 = c
        BY <1>6, <3>2
      <4> QED BY <3>2, <4>1
    <3>3. CASE q # c
      <4>1. yp[q] \in K /\ op[yp[q]] = q
        BY <1>4, <3>3
      <4>2. yp[q] # e /\ yp[q] # yp[e]
        BY <1>7, <2>2, <4>1
      <4> QED BY <1>1, <3>1, <4>1, <4>2
    <3> QED BY <3>2, <3>3
  <2> QED BY <2>1, <2>2
<1>11. Family(c2, op2, yp2, K \ {e}, rank)
  BY <1>2, <1>8, <1>9, <1>10 DEF Family
<1>12. c2 # NULL => yp2[c2] = NULL
  BY <1>8
<1> QED BY <1>11, <1>12

-----------------------------------------------------------------------------
LinkSet == [parent : [Procs -> 0 .. MaxProcs], cptr : [Procs -> 0 .. MaxProcs],
            optr : [Procs -> 0 .. MaxProcs], yptr : [Procs -> 0 .. MaxProcs]]

Kids(l, p) == {q \in Procs : l.parent[q] = p}

\* The links of l have the children of each process, but for e.
RankedBut(l, rank, e) ==
  \A x \in Procs : Family(l.cptr[x], l.optr, l.yptr, Kids(l, x) \ {e}, rank)

Ranked(l, rank) == \A x \in Procs : Family(l.cptr[x], l.optr, l.yptr, Kids(l, x), rank)

Closed(l, x) == l.cptr[x] # NULL => l.yptr[l.cptr[x]] = NULL

\* Ranks have a bound.
LEMMA RankBound ==
  ASSUME ConstantsOK, NEW rank \in [Procs -> Nat]
  PROVE  \E b \in Nat : \A q \in Procs : rank[q] < b
<1> DEFINE P == {k \in 0 .. MaxProcs : \E b \in Nat : \A q \in 1 .. k : rank[q] < b}
<1>1. MaxProcs \in Nat
  BY DEF ConstantsOK
<1>2. 0 \in P
  <2>1. 1 \in Nat /\ \A q \in 1 .. 0 : rank[q] < 1
    OBVIOUS
  <2> QED BY <1>1, <2>1
<1>3. ASSUME NEW k \in 1 .. MaxProcs, k - 1 \in P PROVE k \in P
  <2>1. PICK b \in Nat : \A q \in 1 .. k - 1 : rank[q] < b
    BY <1>3
  <2>2. rank[k] \in Nat
    BY DEF Procs
  <2>3. PICK c \in Nat : b <= c /\ rank[k] < c
    <3>1. CASE rank[k] < b
      BY <3>1
    <3>2. CASE ~(rank[k] < b)
      <4>1. rank[k] + 1 \in Nat /\ b <= rank[k] + 1 /\ rank[k] < rank[k] + 1
        BY <2>2, <3>2
      <4> QED BY <4>1
    <3> QED BY <3>1, <3>2
  <2>4. ASSUME NEW q \in 1 .. k PROVE rank[q] < c
    <3>1. rank[q] \in Nat
      BY <1>1 DEF Procs
    <3>2. q = k \/ q \in 1 .. k - 1
      OBVIOUS
    <3> QED BY <2>1, <2>3, <3>1, <3>2
  <2> QED BY <1>1, <2>4
<1>4. \A k \in 0 .. MaxProcs : k \in P
  <2> HIDE DEF P
  <2> QED BY <1>1, <1>2, <1>3, EveryRound
<1>5. MaxProcs \in P
  <2> HIDE DEF P
  <2>1. MaxProcs \in 0 .. MaxProcs
    BY <1>1
  <2> QED BY <1>4, <2>1, Zenon
<1> QED BY <1>5 DEF Procs

\* A record of links has these four fields.
LEMMA LinkFields ==
  ASSUME NEW l \in LinkSet
  PROVE  /\ l.parent \in [Procs -> 0 .. MaxProcs] /\ l.cptr \in [Procs -> 0 .. MaxProcs]
         /\ l.optr \in [Procs -> 0 .. MaxProcs] /\ l.yptr \in [Procs -> 0 .. MaxProcs]
         /\ l = [parent |-> l.parent, cptr |-> l.cptr, optr |-> l.optr, yptr |-> l.yptr]
BY DEF LinkSet

\* What set_links() assigns.
LEMMA AdoptedFields ==
  ASSUME ConstantsOK, NEW l \in LinkSet, NEW p \in Procs, NEW e \in Procs,
         NEW m, m = Adopted(l, p, e), NEW c, c = l.cptr[p]
  PROVE  /\ m \in LinkSet
         /\ \A q \in Procs : m.parent[q] = IF q = e THEN p ELSE l.parent[q]
         /\ \A q \in Procs : m.cptr[q] = IF q = p THEN e ELSE l.cptr[q]
         /\ \A q \in Procs : m.optr[q] = IF q = e THEN c ELSE l.optr[q]
         /\ \A q \in Procs : m.yptr[q] = IF c # NULL /\ q = c THEN e
                                         ELSE IF q = e THEN NULL ELSE l.yptr[q]
<1>1. /\ l.parent \in [Procs -> 0 .. MaxProcs] /\ l.cptr \in [Procs -> 0 .. MaxProcs]
      /\ l.optr \in [Procs -> 0 .. MaxProcs] /\ l.yptr \in [Procs -> 0 .. MaxProcs]
      /\ l = [parent |-> l.parent, cptr |-> l.cptr, optr |-> l.optr, yptr |-> l.yptr]
  BY LinkFields
<1>2. /\ m.parent = [l.parent EXCEPT ![e] = p]
      /\ m.cptr = [l.cptr EXCEPT ![p] = e]
      /\ m.optr = [l.optr EXCEPT ![e] = c]
      /\ m.yptr = IF c = NULL THEN [l.yptr EXCEPT ![e] = NULL]
                  ELSE [l.yptr EXCEPT ![e] = NULL, ![c] = e]
      /\ m = [parent |-> m.parent, cptr |-> m.cptr, optr |-> m.optr, yptr |-> m.yptr]
  BY <1>1 DEF Adopted
<1>3. p \in 0 .. MaxProcs /\ e \in 0 .. MaxProcs /\ c \in 0 .. MaxProcs /\ NULL \in 0 .. MaxProcs
  BY <1>1 DEF Procs, NULL, ConstantsOK
<1>4. c = NULL \/ c \in Procs
  BY <1>3 DEF Procs, NULL, ConstantsOK
<1>5. /\ m.parent \in [Procs -> 0 .. MaxProcs] /\ m.cptr \in [Procs -> 0 .. MaxProcs]
      /\ m.optr \in [Procs -> 0 .. MaxProcs]
  BY <1>1, <1>2, <1>3
<1>6. m.yptr \in [Procs -> 0 .. MaxProcs]
  BY <1>1, <1>2, <1>3, <1>4
<1>7. m \in LinkSet
  BY <1>2, <1>5, <1>6 DEF LinkSet
<1>8. /\ \A q \in Procs : m.parent[q] = IF q = e THEN p ELSE l.parent[q]
      /\ \A q \in Procs : m.cptr[q] = IF q = p THEN e ELSE l.cptr[q]
      /\ \A q \in Procs : m.optr[q] = IF q = e THEN c ELSE l.optr[q]
      /\ \A q \in Procs : m.yptr[q] = IF c # NULL /\ q = c THEN e
                                      ELSE IF q = e THEN NULL ELSE l.yptr[q]
  BY <1>1, <1>2, <1>4
<1> QED BY <1>7, <1>8

\* What a process is put in front of keeps its order, and the others theirs
\* (set_links, do_exit).
LEMMA AdoptedRanked ==
  ASSUME ConstantsOK, NEW l \in LinkSet, NEW p \in Procs, NEW e \in Procs,
         NEW rank \in [Procs -> Nat], RankedBut(l, rank, e), NEW m, m = Adopted(l, p, e)
  PROVE  /\ m \in LinkSet
         /\ \A q \in Procs : m.parent[q] = IF q = e THEN p ELSE l.parent[q]
         /\ \E rank2 \in [Procs -> Nat] : Ranked(m, rank2)
         /\ \A x \in Procs : x = p \/ Closed(l, x) => Closed(m, x)
<1>7. /\ m \in LinkSet
      /\ \A q \in Procs : m.parent[q] = IF q = e THEN p ELSE l.parent[q]
      /\ \A q \in Procs : m.cptr[q] = IF q = p THEN e ELSE l.cptr[q]
      /\ \A q \in Procs : m.optr[q] = IF q = e THEN l.cptr[p] ELSE l.optr[q]
      /\ \A q \in Procs : m.yptr[q] = IF l.cptr[p] # NULL /\ q = l.cptr[p] THEN e
                                      ELSE IF q = e THEN NULL ELSE l.yptr[q]
  BY AdoptedFields
<1>1. PICK b \in Nat : \A q \in Procs : rank[q] < b
  BY RankBound
<1> PICK c : c = l.cptr[p]
  OBVIOUS
<1> PICK rank2 : rank2 = [rank EXCEPT ![e] = b]
  OBVIOUS
<1>2. /\ \A x \in Procs : x # NULL /\ x \in 0 .. MaxProcs
      /\ NULL \in 0 .. MaxProcs
  BY DEF Procs, NULL, ConstantsOK
<1>3. /\ l.parent \in [Procs -> 0 .. MaxProcs] /\ l.cptr \in [Procs -> 0 .. MaxProcs]
      /\ l.optr \in [Procs -> 0 .. MaxProcs] /\ l.yptr \in [Procs -> 0 .. MaxProcs]
      /\ l = [parent |-> l.parent, cptr |-> l.cptr, optr |-> l.optr, yptr |-> l.yptr]
  BY DEF LinkSet
<1>4. Family(c, l.optr, l.yptr, Kids(l, p) \ {e}, rank)
  BY DEF RankedBut
<1>5. c = NULL \/ (c \in Procs /\ c \in Kids(l, p) \ {e})
  BY <1>4 DEF Family, Kids
<1>8. /\ \A q \in Procs : m.parent[q] = IF q = e THEN p ELSE l.parent[q]
      /\ \A q \in Procs : m.cptr[q] = IF q = p THEN e ELSE l.cptr[q]
      /\ \A q \in Procs : m.optr[q] = IF q = e THEN c ELSE l.optr[q]
      /\ \A q \in Procs : m.yptr[q] = IF q = c THEN e ELSE IF q = e THEN NULL ELSE l.yptr[q]
      /\ \A q \in Procs : rank2[q] = IF q = e THEN b ELSE rank[q]
  BY <1>2, <1>7
<1>9. rank2 \in [Procs -> Nat]
  OBVIOUS
<1>10. ASSUME NEW x \in Procs
       PROVE  Family(m.cptr[x], m.optr, m.yptr, Kids(m, x), rank2)
  <2>1. Family(l.cptr[x], l.optr, l.yptr, Kids(l, x) \ {e}, rank)
    BY DEF RankedBut
  <2>2. NULL \notin Kids(l, x) \ {e} /\ Kids(l, x) \ {e} \subseteq Procs
    BY <1>2 DEF Kids
  <2>3. CASE x = p
    <3>1. Kids(m, x) = (Kids(l, x) \ {e}) \cup {e}
      BY <1>8, <2>3 DEF Kids
    <3>2. PutFirst(Kids(l, x) \ {e}, e, c, l.optr, l.yptr, rank, m.optr, m.yptr, rank2)
      BY <1>1, <1>2, <1>5, <1>8, <2>2 DEF PutFirst
    <3>3. m.cptr[x] = e /\ c = l.cptr[x] /\ e # NULL /\ e \notin Kids(l, x) \ {e}
      BY <1>2, <1>8, <2>3
    <3>4. Family(e, m.optr, m.yptr, (Kids(l, x) \ {e}) \cup {e}, rank2)
      BY <2>1, <2>2, <3>2, <3>3, FamilyPush
    <3> QED BY <3>1, <3>3, <3>4
  <2>4. CASE x # p
    <3>1. Kids(m, x) = Kids(l, x) \ {e}
      BY <1>8, <2>4 DEF Kids
    <3>2. c \notin Kids(l, x)
      BY <1>2, <1>5, <2>4 DEF Kids
    <3>3. SameOn(Kids(l, x) \ {e}, l.optr, l.yptr, rank, m.optr, m.yptr, rank2)
      BY <1>8, <2>2, <3>2 DEF SameOn
    <3>4. m.cptr[x] = l.cptr[x]
      BY <1>8, <2>4
    <3> QED BY <2>1, <2>2, <3>1, <3>3, <3>4, FamilySame
  <2> QED BY <2>3, <2>4
<1>11. ASSUME NEW x \in Procs, x = p \/ Closed(l, x)
       PROVE  Closed(m, x)
  <2>1. CASE x = p
    BY <1>2, <1>5, <1>8, <2>1 DEF Closed
  <2>2. CASE x # p
    <3>1. Family(l.cptr[x], l.optr, l.yptr, Kids(l, x) \ {e}, rank)
      BY DEF RankedBut
    <3>2. m.cptr[x] = l.cptr[x]
      BY <1>8, <2>2
    <3>3. l.cptr[x] = NULL \/ l.cptr[x] \in Kids(l, x) \ {e}
      BY <3>1 DEF Family
    <3>4. CASE l.cptr[x] \in Kids(l, x) \ {e}
      <4>1. /\ l.cptr[x] \in Procs /\ l.cptr[x] # e /\ l.cptr[x] # c
            /\ l.yptr[l.cptr[x]] = NULL
        BY <1>2, <1>5, <1>11, <2>2, <3>4 DEF Kids, Closed
      <4> QED BY <1>8, <3>2, <4>1 DEF Closed
    <3> QED BY <3>2, <3>3, <3>4 DEF Closed
  <2> QED BY <2>1, <2>2
<1>12. Ranked(m, rank2)
  BY <1>10 DEF Ranked
<1> QED BY <1>7, <1>8, <1>9, <1>11, <1>12

-----------------------------------------------------------------------------
\* There are that many processes.
LEMMA ProcsFinite ==
  ASSUME ConstantsOK
  PROVE  IsFiniteSet(Procs) /\ Cardinality(Procs) = MaxProcs
BY FS_Interval DEF Procs, ConstantsOK

\* One round of the loop in do_exit().
OneOver(l, p) ==
  IF l.cptr[p] = NULL THEN l
  ELSE Adopted([l EXCEPT !.cptr[p] = l.optr[l.cptr[p]]], InitProc, l.cptr[p])

\* What the round starts from: current->cptr has gone on.
LEMMA GoneOn ==
  ASSUME ConstantsOK, NEW l \in LinkSet, NEW p \in Procs, l.cptr[p] # NULL
  PROVE  LET c == l.cptr[p]
             m == [l EXCEPT !.cptr[p] = l.optr[c]]
         IN  /\ c \in Procs /\ m \in LinkSet
             /\ m.parent = l.parent /\ m.optr = l.optr /\ m.yptr = l.yptr
             /\ \A x \in Procs : m.cptr[x] = IF x = p THEN l.optr[c] ELSE l.cptr[x]
<1> PICK c : c = l.cptr[p]
  OBVIOUS
<1> PICK m : m = [l EXCEPT !.cptr[p] = l.optr[c]]
  OBVIOUS
<1>1. c \in Procs
  BY LinkFields DEF Procs, NULL, ConstantsOK
<1>2. /\ m.parent = l.parent /\ m.optr = l.optr /\ m.yptr = l.yptr
      /\ m.cptr = [l.cptr EXCEPT ![p] = l.optr[c]]
      /\ m = [parent |-> m.parent, cptr |-> m.cptr, optr |-> m.optr, yptr |-> m.yptr]
  BY LinkFields
<1>3. m.cptr \in [Procs -> 0 .. MaxProcs]
  BY <1>1, <1>2, LinkFields
<1>4. m \in LinkSet
  BY <1>2, <1>3, LinkFields DEF LinkSet
<1>5. \A x \in Procs : m.cptr[x] = IF x = p THEN l.optr[c] ELSE l.cptr[x]
  BY <1>2, LinkFields
<1> QED BY <1>1, <1>2, <1>4, <1>5

\* Links stay links.
\* A round of the loop leads to links again.
LEMMA OneOverLinks ==
  ASSUME ConstantsOK, NEW l \in LinkSet, NEW p \in Procs
  PROVE  OneOver(l, p) \in LinkSet
<1>1. InitProc \in Procs
  BY DEF InitProc, Procs, ConstantsOK
<1>2. CASE l.cptr[p] = NULL
  BY <1>2 DEF OneOver
<1>3. CASE l.cptr[p] # NULL
  <2>1. l.cptr[p] \in Procs /\ [l EXCEPT !.cptr[p] = l.optr[l.cptr[p]]] \in LinkSet
    BY <1>3, GoneOn
  <2>2. Adopted([l EXCEPT !.cptr[p] = l.optr[l.cptr[p]]], InitProc, l.cptr[p]) \in LinkSet
    BY <1>1, <2>1, AdoptedFields
  <2> QED BY <1>3, <2>2 DEF OneOver
<1> QED BY <1>2, <1>3

\* The loop of do_exit() makes such rounds.
LEMMA HandedOverRounds ==
  ASSUME ConstantsOK, NEW l \in LinkSet, NEW p \in Procs
  PROVE  \E f : /\ f[0] = l
                /\ \A k \in 1 .. MaxProcs : f[k] = OneOver(f[k - 1], p)
                /\ HandedOver(l, p) = f[MaxProcs]
<1> DEFINE after == CHOOSE f : f = [k \in 0 .. MaxProcs |->
                      IF k = 0 THEN l
                      ELSE LET m == f[k - 1] proc == m.cptr[p]
                           IN  IF proc = NULL THEN m
                               ELSE Adopted([m EXCEPT !.cptr[p] = m.optr[proc]], InitProc, proc)]
<1>1. HandedOver(l, p) = after[MaxProcs]
  BY Zenon DEF HandedOver
<1>2. MaxProcs \in Nat
  BY DEF ConstantsOK
<1> HIDE DEF after
<1>3. PICK step \in [Nat \X LinkSet -> LinkSet] :
        \A k \in Nat, m \in LinkSet : step[<<k, m>>] = OneOver(m, p)
  <2>1. \A m \in LinkSet : OneOver(m, p) \in LinkSet
    BY OneOverLinks
  <2>2. [a \in Nat \X LinkSet |-> OneOver(a[2], p)] \in [Nat \X LinkSet -> LinkSet]
    BY <2>1
  <2> QED BY <2>2
<1>4. PICK g : Walk(LinkSet, step, l, MaxProcs, g)
  BY <1>2, Repeats
<1>5. /\ g \in [0 .. MaxProcs -> LinkSet] /\ g[0] = l
      /\ \A k \in 1 .. MaxProcs : g[k] = OneOver(g[k - 1], p)
  <2>1. /\ g \in [0 .. MaxProcs -> LinkSet] /\ g[0] = l
        /\ \A k \in 1 .. MaxProcs : g[k] = step[<<k, g[k - 1]>>]
    BY <1>4 DEF Walk
  <2>2. \A k \in 1 .. MaxProcs : k \in Nat /\ k - 1 \in 0 .. MaxProcs
    BY <1>2
  <2> QED BY <1>3, <2>1, <2>2
<1>6. g = [k \in 0 .. MaxProcs |->
             IF k = 0 THEN l
             ELSE LET m == g[k - 1] proc == m.cptr[p]
                  IN  IF proc = NULL THEN m
                      ELSE Adopted([m EXCEPT !.cptr[p] = m.optr[proc]], InitProc, proc)]
  <2>1. \A k \in 0 .. MaxProcs : g[k] = IF k = 0 THEN l ELSE OneOver(g[k - 1], p)
    <3>1. \A k \in 0 .. MaxProcs : k # 0 => k \in 1 .. MaxProcs
      BY <1>2
    <3> QED BY <1>5, <3>1
  <2>2. g = [k \in 0 .. MaxProcs |-> g[k]]
    BY <1>5
  <2>3. g = [k \in 0 .. MaxProcs |-> IF k = 0 THEN l ELSE OneOver(g[k - 1], p)]
    BY <2>1, <2>2
  <2> QED BY <2>3, Zenon DEF OneOver
<1>7. after = [k \in 0 .. MaxProcs |->
                 IF k = 0 THEN l
                 ELSE LET m == after[k - 1] proc == m.cptr[p]
                      IN  IF proc = NULL THEN m
                          ELSE Adopted([m EXCEPT !.cptr[p] = m.optr[proc]], InitProc, proc)]
  BY <1>6, Zenon DEF after
<1>8. after = [k \in 0 .. MaxProcs |-> IF k = 0 THEN l ELSE OneOver(after[k - 1], p)]
  BY <1>7, Zenon DEF OneOver
<1>9. after[0] = l /\ \A k \in 1 .. MaxProcs : after[k] = OneOver(after[k - 1], p)
  <2>1. 0 \in 0 .. MaxProcs /\ \A k \in 1 .. MaxProcs : k \in 0 .. MaxProcs /\ k # 0
    BY <1>2
  <2> QED BY <1>8, <2>1
<1> QED BY <1>1, <1>9

\* After k rounds of that loop for the children that p had in l.
Handing(l, p, k, m) ==
  /\ m \in LinkSet
  /\ \E rank \in [Procs -> Nat] : Ranked(m, rank)
  /\ \A x \in Procs \ {p} : Closed(m, x)
  /\ \A q \in Procs : \/ m.parent[q] = l.parent[q]
                      \/ l.parent[q] = p /\ m.parent[q] = InitProc
  /\ Kids(m, p) = {} \/ Cardinality(Kids(m, p)) <= MaxProcs - k

\* Each round hands over one child, if there is one.
LEMMA HandingOn ==
  ASSUME ConstantsOK, NEW l \in LinkSet, NEW p \in Procs \ {InitProc},
         NEW k \in 1 .. MaxProcs, NEW m, Handing(l, p, k - 1, m)
  PROVE  Handing(l, p, k, OneOver(m, p))
<1>1. /\ m \in LinkSet
      /\ \A x \in Procs \ {p} : Closed(m, x)
      /\ \A q \in Procs : \/ m.parent[q] = l.parent[q]
                          \/ l.parent[q] = p /\ m.parent[q] = InitProc
      /\ Kids(m, p) = {} \/ Cardinality(Kids(m, p)) <= MaxProcs - (k - 1)
  BY DEF Handing
<1>2. PICK rank \in [Procs -> Nat] : Ranked(m, rank)
  BY DEF Handing
<1>3. /\ \A x \in Procs : x # NULL
      /\ MaxProcs \in Nat /\ InitProc \in Procs
  BY DEF Procs, NULL, InitProc, ConstantsOK
<1>4. CASE m.cptr[p] = NULL
  <2>1. Family(m.cptr[p], m.optr, m.yptr, Kids(m, p), rank)
    BY <1>2 DEF Ranked
  <2>2. Kids(m, p) = {}
    BY <1>3, <1>4, <2>1 DEF Family, Kids
  <2>3. OneOver(m, p) = m
    BY <1>4 DEF OneOver
  <2> QED BY <1>1, <1>2, <2>2, <2>3 DEF Handing
<1>5. CASE m.cptr[p] # NULL
  <2>c. PICK c : c = m.cptr[p]
    OBVIOUS
  <2>o. PICK o : o = [m EXCEPT !.cptr[p] = m.optr[c]]
    OBVIOUS
  <2>n. PICK n : n = Adopted(o, InitProc, c)
    OBVIOUS
  <2>1. OneOver(m, p) = n
    BY <1>5, <2>c, <2>o, <2>n DEF OneOver
  <2>2. /\ c \in Procs /\ o \in LinkSet
        /\ o.parent = m.parent /\ o.optr = m.optr /\ o.yptr = m.yptr
        /\ \A x \in Procs : o.cptr[x] = IF x = p THEN m.optr[c] ELSE m.cptr[x]
    BY <1>1, <1>5, <2>c, <2>o, GoneOn
  <2>3. c \in Kids(m, p) /\ Family(m.optr[c], m.optr, m.yptr, Kids(m, p) \ {c}, rank)
    <3>1. Family(c, m.optr, m.yptr, Kids(m, p), rank)
      BY <1>2, <2>c DEF Ranked
    <3>2. NULL \notin Kids(m, p) /\ c # NULL
      BY <1>3, <1>5, <2>c DEF Kids
    <3> QED BY <3>1, <3>2, FamilyPop
  <2>4. RankedBut(o, rank, c)
    <3> SUFFICES ASSUME NEW x \in Procs
                 PROVE  Family(o.cptr[x], o.optr, o.yptr, Kids(o, x) \ {c}, rank)
      BY DEF RankedBut
    <3>1. Kids(o, x) = Kids(m, x)
      BY <2>2 DEF Kids
    <3>2. CASE x = p
      BY <2>2, <2>3, <3>1, <3>2
    <3>3. CASE x # p
      <4>1. Kids(m, x) \ {c} = Kids(m, x)
        BY <2>3, <3>3 DEF Kids
      <4>2. Family(m.cptr[x], m.optr, m.yptr, Kids(m, x), rank)
        BY <1>2 DEF Ranked
      <4> QED BY <2>2, <3>1, <3>3, <4>1, <4>2
    <3> QED BY <3>2, <3>3
  <2>5. /\ n \in LinkSet
        /\ \A q \in Procs : n.parent[q] = IF q = c THEN InitProc ELSE o.parent[q]
        /\ \E rank2 \in [Procs -> Nat] : Ranked(n, rank2)
        /\ \A x \in Procs : x = InitProc \/ Closed(o, x) => Closed(n, x)
    BY <1>3, <2>2, <2>4, <2>n, AdoptedRanked
  <2>6. \A x \in Procs \ {p} : Closed(n, x)
    <3> SUFFICES ASSUME NEW x \in Procs \ {p} PROVE Closed(o, x)
      BY <2>5
    <3> QED BY <1>1, <2>2 DEF Closed
  <2>7. \A q \in Procs : n.parent[q] = IF q = c THEN InitProc ELSE m.parent[q]
    BY <2>2, <2>5
  <2>8. \A q \in Procs : \/ n.parent[q] = l.parent[q]
                         \/ l.parent[q] = p /\ n.parent[q] = InitProc
    <3>1. m.parent[c] = p /\ p # InitProc
      BY <2>3 DEF Kids
    <3> QED BY <1>1, <2>7, <3>1
  <2>9. Kids(n, p) = Kids(m, p) \ {c}
    BY <2>7 DEF Kids
  <2>10. Cardinality(Kids(n, p)) <= MaxProcs - k
    <3>1. IsFiniteSet(Kids(m, p))
      <4>1. IsFiniteSet(Procs)
        BY ProcsFinite
      <4>2. Kids(m, p) \in SUBSET Procs
        BY DEF Kids
      <4> QED BY <4>1, <4>2, FS_Subset
    <3>2. Cardinality(Kids(m, p) \ {c}) = Cardinality(Kids(m, p)) - 1
      BY <2>3, <3>1, FS_RemoveElement
    <3>3. Cardinality(Kids(m, p)) \in Nat
      BY <3>1, FS_CardinalityType
    <3>4. Cardinality(Kids(m, p)) <= MaxProcs - (k - 1)
      BY <1>1, <2>3
    <3>5. Cardinality(Kids(m, p)) - 1 <= MaxProcs - k
      BY <1>3, <3>3, <3>4
    <3> QED BY <2>9, <3>2, <3>5
  <2> QED BY <2>1, <2>5, <2>6, <2>8, <2>10 DEF Handing
<1> QED BY <1>4, <1>5

\* In the end all children of p are children of initproc.
LEMMA HandedOverRanked ==
  ASSUME ConstantsOK, NEW l \in LinkSet, NEW p \in Procs \ {InitProc},
         NEW rank \in [Procs -> Nat], Ranked(l, rank), \A x \in Procs : Closed(l, x)
  PROVE  LET m == HandedOver(l, p)
         IN  /\ m \in LinkSet
             /\ \E rank2 \in [Procs -> Nat] : Ranked(m, rank2)
             /\ \A x \in Procs : Closed(m, x)
             /\ \A q \in Procs : m.parent[q] = IF l.parent[q] = p THEN InitProc
                                               ELSE l.parent[q]
<1>1. PICK f : /\ f[0] = l
               /\ \A k \in 1 .. MaxProcs : f[k] = OneOver(f[k - 1], p)
               /\ HandedOver(l, p) = f[MaxProcs]
  BY HandedOverRounds
<1>2. MaxProcs \in Nat /\ \A x \in Procs : x # NULL
  BY DEF ConstantsOK, Procs, NULL
<1> DEFINE P == {k \in 0 .. MaxProcs : Handing(l, p, k, f[k])}
<1>3. 0 \in P
  <2>1. Cardinality(Kids(l, p)) <= MaxProcs
    <3>1. IsFiniteSet(Procs) /\ Kids(l, p) \in SUBSET Procs /\ Cardinality(Procs) = MaxProcs
      BY <1>2, FS_Interval DEF Procs, Kids, ConstantsOK
    <3> QED BY <3>1, FS_Subset
  <2>2. Handing(l, p, 0, f[0])
    BY <1>1, <1>2, <2>1 DEF Handing
  <2> QED BY <1>2, <2>2
<1>4. \A k \in 1 .. MaxProcs : k - 1 \in P => k \in P
  <2> SUFFICES ASSUME NEW k \in 1 .. MaxProcs, Handing(l, p, k - 1, f[k - 1])
               PROVE  k \in 0 .. MaxProcs /\ Handing(l, p, k, f[k])
    OBVIOUS
  <2>1. Handing(l, p, k, OneOver(f[k - 1], p))
    BY HandingOn
  <2> QED BY <1>1, <1>2, <2>1
<1>5. \A k \in 0 .. MaxProcs : k \in P
  <2> HIDE DEF P
  <2> QED BY <1>2, <1>3, <1>4, EveryRound
<1> PICK m : m = HandedOver(l, p)
  OBVIOUS
<1>6. Handing(l, p, MaxProcs, m)
  <2>1. MaxProcs \in P
    <3> HIDE DEF P
    <3>1. MaxProcs \in 0 .. MaxProcs
      BY <1>2
    <3> QED BY <1>5, <3>1, Zenon
  <2> QED BY <1>1, <2>1
<1>7. Kids(m, p) = {}
  <2>1. IsFiniteSet(Kids(m, p)) /\ Cardinality(Kids(m, p)) \in Nat
    <3>1. IsFiniteSet(Procs) /\ Kids(m, p) \in SUBSET Procs
      BY <1>2, FS_Interval DEF Procs, Kids
    <3> QED BY <3>1, FS_Subset, FS_CardinalityType
  <2>2. Kids(m, p) = {} \/ Cardinality(Kids(m, p)) <= MaxProcs - MaxProcs
    BY <1>6 DEF Handing
  <2>3. Kids(m, p) = {} \/ Cardinality(Kids(m, p)) = 0
    BY <1>2, <2>1, <2>2
  <2> QED BY <2>1, <2>3, FS_EmptySet
<1>8. \A x \in Procs : Closed(m, x)
  <2>1. PICK rank2 \in [Procs -> Nat] : Ranked(m, rank2)
    BY <1>6 DEF Handing
  <2>2. m.cptr[p] = NULL
    BY <1>7, <2>1 DEF Ranked, Family
  <2>3. Closed(m, p)
    BY <2>2 DEF Closed
  <2> QED BY <1>6, <2>3 DEF Handing
<1>9. \A q \in Procs : m.parent[q] = IF l.parent[q] = p THEN InitProc ELSE l.parent[q]
  BY <1>6, <1>7 DEF Handing, Kids
<1> QED BY <1>6, <1>8, <1>9 DEF Handing

-----------------------------------------------------------------------------
\* remove_links() of e, and what is left of it in the model.
Released(l, e) == [Unlinked(l, e) EXCEPT !.parent[e] = NULL, !.optr[e] = NULL, !.yptr[e] = NULL]

\* Who refers to e does no longer.
LEMMA ReleasedFields ==
  ASSUME ConstantsOK, NEW l \in LinkSet, NEW e \in Procs, NEW m, m = Released(l, e),
         NEW o, o = l.optr[e], NEW y, y = l.yptr[e], NEW f, f = l.parent[e],
         o # e, y # e, f # NULL
  PROVE  /\ m \in LinkSet
         /\ \A q \in Procs : m.parent[q] = IF q = e THEN NULL ELSE l.parent[q]
         /\ \A q \in Procs : m.cptr[q] = IF y = NULL /\ q = f THEN o ELSE l.cptr[q]
         /\ \A q \in Procs : m.optr[q] = IF q = e THEN NULL ELSE IF q = y THEN o ELSE l.optr[q]
         /\ \A q \in Procs : m.yptr[q] = IF q = e THEN NULL ELSE IF q = o THEN y ELSE l.yptr[q]
<1>1. /\ l.parent \in [Procs -> 0 .. MaxProcs] /\ l.cptr \in [Procs -> 0 .. MaxProcs]
      /\ l.optr \in [Procs -> 0 .. MaxProcs] /\ l.yptr \in [Procs -> 0 .. MaxProcs]
      /\ l = [parent |-> l.parent, cptr |-> l.cptr, optr |-> l.optr, yptr |-> l.yptr]
  BY LinkFields
<1>2. /\ o \in 0 .. MaxProcs /\ y \in 0 .. MaxProcs /\ f \in Procs
      /\ (o = NULL \/ o \in Procs) /\ (y = NULL \/ y \in Procs)
      /\ NULL \in 0 .. MaxProcs
  BY <1>1 DEF Procs, NULL, ConstantsOK
<1> DEFINE Old == IF o = NULL THEN l ELSE [l EXCEPT !.yptr[o] = y]
<1>3. PICK a : a = Old
  OBVIOUS
<1>4. /\ a.parent = l.parent /\ a.cptr = l.cptr /\ a.optr = l.optr
      /\ a.yptr = IF o = NULL THEN l.yptr ELSE [l.yptr EXCEPT ![o] = y]
      /\ a = [parent |-> a.parent, cptr |-> a.cptr, optr |-> a.optr, yptr |-> a.yptr]
  BY <1>1, <1>3
<1>5. a.yptr[e] = y
  BY <1>1, <1>2, <1>4
<1>6. Unlinked(l, e) = IF y # NULL THEN [a EXCEPT !.optr[y] = o] ELSE [a EXCEPT !.cptr[f] = o]
  BY <1>3, <1>4, <1>5 DEF Unlinked
<1>7. PICK u : u = Unlinked(l, e)
  OBVIOUS
<1>8. /\ u.parent = l.parent /\ u.yptr = a.yptr
      /\ u.cptr = IF y # NULL THEN l.cptr ELSE [l.cptr EXCEPT ![f] = o]
      /\ u.optr = IF y # NULL THEN [l.optr EXCEPT ![y] = o] ELSE l.optr
      /\ u = [parent |-> u.parent, cptr |-> u.cptr, optr |-> u.optr, yptr |-> u.yptr]
  BY <1>4, <1>6, <1>7
<1>9. /\ m.parent = [l.parent EXCEPT ![e] = NULL] /\ m.cptr = u.cptr
      /\ m.optr = [u.optr EXCEPT ![e] = NULL] /\ m.yptr = [u.yptr EXCEPT ![e] = NULL]
      /\ m = [parent |-> m.parent, cptr |-> m.cptr, optr |-> m.optr, yptr |-> m.yptr]
  BY <1>7, <1>8 DEF Released
<1>10. u.cptr \in [Procs -> 0 .. MaxProcs]
  BY <1>1, <1>2, <1>8
<1>11. u.optr \in [Procs -> 0 .. MaxProcs]
  BY <1>1, <1>2, <1>8
<1>12. u.yptr \in [Procs -> 0 .. MaxProcs]
  BY <1>1, <1>2, <1>4, <1>8
<1>13. /\ m.parent \in [Procs -> 0 .. MaxProcs] /\ m.cptr \in [Procs -> 0 .. MaxProcs]
       /\ m.optr \in [Procs -> 0 .. MaxProcs] /\ m.yptr \in [Procs -> 0 .. MaxProcs]
  BY <1>1, <1>2, <1>9, <1>10, <1>11, <1>12
<1>14. m \in LinkSet
  BY <1>9, <1>13 DEF LinkSet
<1>15. \A q \in Procs : m.parent[q] = IF q = e THEN NULL ELSE l.parent[q]
  BY <1>1, <1>9
<1>16. \A q \in Procs : m.cptr[q] = IF y = NULL /\ q = f THEN o ELSE l.cptr[q]
  BY <1>1, <1>8, <1>9
<1>17. \A q \in Procs : m.optr[q] = IF q = e THEN NULL ELSE IF q = y THEN o ELSE l.optr[q]
  <2>1. \A q \in Procs : u.optr[q] = IF q = y THEN o ELSE l.optr[q]
    <3>1. NULL \notin Procs
      BY DEF Procs, NULL
    <3>2. CASE y = NULL
      BY <1>8, <3>1, <3>2
    <3>3. CASE y # NULL
      BY <1>1, <1>2, <1>8, <3>3
    <3> QED BY <3>2, <3>3
  <2> QED BY <1>9, <1>11, <2>1
<1>18. \A q \in Procs : m.yptr[q] = IF q = e THEN NULL ELSE IF q = o THEN y ELSE l.yptr[q]
  <2>1. \A q \in Procs : u.yptr[q] = IF q = o THEN y ELSE l.yptr[q]
    <3>1. NULL \notin Procs
      BY DEF Procs, NULL
    <3>2. CASE o = NULL
      BY <1>4, <1>8, <3>1, <3>2
    <3>3. CASE o # NULL
      BY <1>1, <1>2, <1>4, <1>8, <3>3
    <3> QED BY <3>2, <3>3
  <2> QED BY <1>9, <1>12, <2>1
<1> QED BY <1>14, <1>15, <1>16, <1>17, <1>18

\* The others stay as they were ranked.
LEMMA ReleasedRanked ==
  ASSUME ConstantsOK, NEW l \in LinkSet, NEW e \in Procs, l.parent[e] # NULL,
         NEW rank \in [Procs -> Nat], Ranked(l, rank), \A x \in Procs : Closed(l, x),
         NEW m, m = Released(l, e)
  PROVE  /\ m \in LinkSet /\ Ranked(m, rank) /\ \A x \in Procs : Closed(m, x)
         /\ \A q \in Procs : m.parent[q] = IF q = e THEN NULL ELSE l.parent[q]
<1>o. PICK o : o = l.optr[e]
  OBVIOUS
<1>y. PICK y : y = l.yptr[e]
  OBVIOUS
<1>f. PICK f : f = l.parent[e]
  OBVIOUS
<1>1. /\ f \in Procs /\ e \in Kids(l, f) /\ f # NULL
      /\ \A x \in Procs : x # NULL
  BY <1>f, LinkFields DEF Procs, NULL, Kids, ConstantsOK
<1>2. Family(l.cptr[f], l.optr, l.yptr, Kids(l, f), rank) /\ Closed(l, f)
  BY <1>1 DEF Ranked
<1>3. /\ o = NULL \/ (o \in Kids(l, f) /\ rank[o] < rank[e])
      /\ y = NULL \/ (y \in Kids(l, f) /\ l.optr[y] = e)
  <2>1. e = l.cptr[f] => y = NULL
    BY <1>1, <1>2, <1>y DEF Closed
  <2> QED BY <1>1, <1>2, <1>o, <1>y, <2>1 DEF Family
<1>4. o # e /\ y # e
  <2>1. o # e
    <3>1. rank[e] \in Nat
      OBVIOUS
    <3> QED BY <1>1, <1>3, <3>1
  <2>2. y # e
    BY <1>1, <1>3, <1>o, <2>1
  <2> QED BY <2>1, <2>2
<1>5. /\ m \in LinkSet
      /\ \A q \in Procs : m.parent[q] = IF q = e THEN NULL ELSE l.parent[q]
      /\ \A q \in Procs : m.cptr[q] = IF y = NULL /\ q = f THEN o ELSE l.cptr[q]
      /\ \A q \in Procs : m.optr[q] = IF q = e THEN NULL ELSE IF q = y THEN o ELSE l.optr[q]
      /\ \A q \in Procs : m.yptr[q] = IF q = e THEN NULL ELSE IF q = o THEN y ELSE l.yptr[q]
  BY <1>1, <1>4, <1>o, <1>y, <1>f, ReleasedFields
<1>6. ASSUME NEW x \in Procs
      PROVE  Family(m.cptr[x], m.optr, m.yptr, Kids(m, x), rank) /\ Closed(m, x)
  <2>1. Family(l.cptr[x], l.optr, l.yptr, Kids(l, x), rank) /\ Closed(l, x)
    BY DEF Ranked
  <2>2. NULL \notin Kids(l, x) /\ Kids(l, x) \subseteq Procs
    BY <1>1 DEF Kids
  <2>3. CASE x = f
    <3>1. Kids(m, x) = Kids(l, x) \ {e}
      BY <1>1, <1>5, <2>3 DEF Kids
    <3>2. PassBy(Kids(l, x), e, l.optr, l.yptr, m.optr, m.yptr)
      BY <1>5, <1>o, <1>y, <2>2 DEF PassBy
    <3>3. m.cptr[x] = IF l.yptr[e] = NULL THEN l.optr[e] ELSE l.cptr[x]
      BY <1>5, <1>o, <1>y, <2>3
    <3>4. /\ Family(IF l.yptr[e] = NULL THEN l.optr[e] ELSE l.cptr[x], m.optr, m.yptr,
                    Kids(l, x) \ {e}, rank)
          /\ (IF l.yptr[e] = NULL THEN l.optr[e] ELSE l.cptr[x]) # NULL
             => m.yptr[IF l.yptr[e] = NULL THEN l.optr[e] ELSE l.cptr[x]] = NULL
      <4>1. l.cptr[x] # NULL => l.yptr[l.cptr[x]] = NULL
        BY <2>1 DEF Closed
      <4>2. e \in Kids(l, x)
        BY <1>1, <2>3
      <4> QED BY <2>1, <2>2, <3>2, <4>1, <4>2, FamilyDrop, SMTT(30)
    <3> QED BY <3>1, <3>3, <3>4 DEF Closed
  <2>4. CASE x # f
    <3>1. e \notin Kids(l, x) /\ o \notin Kids(l, x) /\ y \notin Kids(l, x)
      BY <1>1, <1>3, <2>2, <2>4 DEF Kids
    <3>2. Kids(m, x) = Kids(l, x)
      BY <1>1, <1>5, <3>1 DEF Kids
    <3>3. SameOn(Kids(l, x), l.optr, l.yptr, rank, m.optr, m.yptr, rank)
      BY <1>5, <2>2, <3>1 DEF SameOn
    <3>4. m.cptr[x] = l.cptr[x]
      BY <1>5, <2>4
    <3>5. Family(m.cptr[x], m.optr, m.yptr, Kids(m, x), rank)
      BY <2>1, <2>2, <3>2, <3>3, <3>4, FamilySame
    <3>6. Closed(m, x)
      <4>1. l.cptr[x] # NULL => l.cptr[x] \in Kids(l, x)
        BY <2>1 DEF Family
      <4> QED BY <1>5, <2>1, <2>2, <3>1, <3>4, <4>1 DEF Closed
    <3> QED BY <3>5, <3>6
  <2> QED BY <2>3, <2>4
<1> QED BY <1>5, <1>6 DEF Ranked

-----------------------------------------------------------------------------
\* at goes from the youngest child of p on to the older ones.
Descends(l, p, at) ==
  /\ at[1] = l.cptr[p]
  /\ \A k \in 1 .. MaxProcs : at[k + 1] = IF at[k] = NULL THEN NULL ELSE l.optr[at[k]]

\* The loops along the links of siblings do so.
LEMMA ChainDescends ==
  ASSUME ConstantsOK, NEW l \in LinkSet, NEW p \in Procs
  PROVE  /\ Chain(l, p) \in [1 .. MaxProcs + 1 -> 0 .. MaxProcs]
         /\ Descends(l, p, Chain(l, p))
<1> DEFINE at == CHOOSE f : f = [k \in 1 .. MaxProcs + 1 |->
                   IF k = 1 THEN l.cptr[p]
                   ELSE IF f[k - 1] = NULL THEN NULL ELSE l.optr[f[k - 1]]]
           V == 0 .. MaxProcs
<1>1. Chain(l, p) = at
  BY Zenon DEF Chain
<1> HIDE DEF at
<1>2. /\ MaxProcs \in Nat /\ NULL \in V /\ \A v \in V : v # NULL => v \in Procs
      /\ l.cptr[p] \in V /\ \A q \in Procs : l.optr[q] \in V
  BY LinkFields DEF ConstantsOK, NULL, Procs
<1> HIDE DEF V
<1>3. PICK step \in [Nat \X V -> V] :
        \A k \in Nat, v \in V : step[<<k, v>>] = IF v = NULL THEN NULL ELSE l.optr[v]
  <2>1. \A v \in V : (IF v = NULL THEN NULL ELSE l.optr[v]) \in V
    BY <1>2
  <2>2. [a \in Nat \X V |-> IF a[2] = NULL THEN NULL ELSE l.optr[a[2]]] \in [Nat \X V -> V]
    BY <2>1
  <2> QED BY <2>2
<1>4. PICK g : Walk(V, step, l.cptr[p], MaxProcs, g)
  BY <1>2, Repeats
<1>5. /\ g \in [0 .. MaxProcs -> V] /\ g[0] = l.cptr[p]
      /\ \A k \in 1 .. MaxProcs : g[k] = IF g[k - 1] = NULL THEN NULL ELSE l.optr[g[k - 1]]
  <2>1. /\ g \in [0 .. MaxProcs -> V] /\ g[0] = l.cptr[p]
        /\ \A k \in 1 .. MaxProcs : g[k] = step[<<k, g[k - 1]>>]
    BY <1>4 DEF Walk
  <2>2. \A k \in 1 .. MaxProcs : k \in Nat /\ k - 1 \in 0 .. MaxProcs
    BY <1>2
  <2> QED BY <1>3, <2>1, <2>2
<1>6. PICK h : h = [k \in 1 .. MaxProcs + 1 |-> g[k - 1]]
  OBVIOUS
<1>7. h \in [1 .. MaxProcs + 1 -> V]
  <2>1. \A k \in 1 .. MaxProcs + 1 : k - 1 \in 0 .. MaxProcs
    BY <1>2
  <2> QED BY <1>5, <1>6, <2>1
<1>8. h = [k \in 1 .. MaxProcs + 1 |->
             IF k = 1 THEN l.cptr[p] ELSE IF h[k - 1] = NULL THEN NULL ELSE l.optr[h[k - 1]]]
  <2>1. ASSUME NEW k \in 1 .. MaxProcs + 1
        PROVE  h[k] = IF k = 1 THEN l.cptr[p]
                      ELSE IF h[k - 1] = NULL THEN NULL ELSE l.optr[h[k - 1]]
    <3>1. CASE k = 1
      BY <1>5, <1>6, <3>1
    <3>2. CASE k # 1
      <4>1. k - 1 \in 1 .. MaxProcs /\ k - 1 \in 1 .. MaxProcs + 1
        BY <1>2, <3>2
      <4>2. h[k] = g[k - 1] /\ h[k - 1] = g[(k - 1) - 1]
        BY <1>6, <4>1
      <4> QED BY <1>5, <3>2, <4>1, <4>2
    <3> QED BY <3>1, <3>2
  <2>2. h = [k \in 1 .. MaxProcs + 1 |-> h[k]]
    BY <1>7
  <2> QED BY <2>1, <2>2
<1>9. at = [k \in 1 .. MaxProcs + 1 |->
              IF k = 1 THEN l.cptr[p]
              ELSE IF at[k - 1] = NULL THEN NULL ELSE l.optr[at[k - 1]]]
  BY <1>8, Zenon DEF at
<1>10. Descends(l, p, at)
  <2>1. 1 \in 1 .. MaxProcs + 1
    BY <1>2
  <2>2. at[1] = l.cptr[p]
    BY <1>9, <2>1
  <2>3. ASSUME NEW k \in 1 .. MaxProcs
        PROVE  at[k + 1] = IF at[k] = NULL THEN NULL ELSE l.optr[at[k]]
    <3>1. k + 1 \in 1 .. MaxProcs + 1 /\ k + 1 # 1 /\ (k + 1) - 1 = k
      BY <1>2
    <3> QED BY <1>9, <3>1
  <2> QED BY <2>2, <2>3 DEF Descends
<1>11. at \in [1 .. MaxProcs + 1 -> V]
  <2> DEFINE P == {k \in 0 .. MaxProcs : at[k + 1] \in V}
  <2>1. 0 \in P
    BY <1>2, <1>10 DEF Descends
  <2>2. \A k \in 1 .. MaxProcs : k - 1 \in P => k \in P
    <3> SUFFICES ASSUME NEW k \in 1 .. MaxProcs, at[(k - 1) + 1] \in V
                 PROVE  k \in 0 .. MaxProcs /\ at[k + 1] \in V
      OBVIOUS
    <3>1. (k - 1) + 1 = k /\ k \in 0 .. MaxProcs
      BY <1>2
    <3> QED BY <1>2, <1>10, <3>1 DEF Descends
  <2>3. \A k \in 0 .. MaxProcs : k \in P
    <3> HIDE DEF P
    <3> QED BY <1>2, <2>1, <2>2, EveryRound
  <2>4. ASSUME NEW k \in 1 .. MaxProcs + 1 PROVE at[k] \in V
    <3>1. k - 1 \in 0 .. MaxProcs /\ (k - 1) + 1 = k
      BY <1>2
    <3>2. at[(k - 1) + 1] \in V
      BY <2>3, <3>1
    <3> QED BY <3>1, <3>2
  <2> QED BY <1>9, <2>4
<1> QED BY <1>1, <1>10, <1>11 DEF V

\* In a chain of ranked children each is met once, and before the older ones.
Met(l, p, rank, at, k) ==
  /\ at[k] = NULL \/ at[k] \in Kids(l, p)
  /\ \A j \in 1 .. k : j < k /\ at[k] # NULL => at[j] \in Kids(l, p) /\ rank[at[k]] < rank[at[j]]
  /\ \A r \in Kids(l, p) : \/ \E j \in 1 .. k : at[j] = r
                           \/ at[k] # NULL /\ rank[r] < rank[at[k]]

\* Entry after entry, a chain goes down in rank and leaves nobody out.
LEMMA ChainMeets ==
  ASSUME ConstantsOK, NEW l \in LinkSet, NEW p \in Procs, NEW rank \in [Procs -> Nat],
         Family(l.cptr[p], l.optr, l.yptr, Kids(l, p), rank),
         NEW at, Descends(l, p, at)
  PROVE  \A k \in 1 .. MaxProcs + 1 : Met(l, p, rank, at, k)
<1> DEFINE P == {k \in 0 .. MaxProcs : Met(l, p, rank, at, k + 1)}
<1>1. /\ MaxProcs \in Nat
      /\ \A q \in Kids(l, p) : q \in Procs /\ q # NULL /\ rank[q] \in Nat
  BY DEF ConstantsOK, Kids, Procs, NULL
<1>2. 0 \in P
  <2>1. at[1] = l.cptr[p]
    BY DEF Descends
  <2>2. at[1] = NULL \/ at[1] \in Kids(l, p)
    BY <2>1 DEF Family
  <2>3. ASSUME NEW r \in Kids(l, p)
        PROVE  at[1] = r \/ (at[1] # NULL /\ rank[r] < rank[at[1]])
    <3>1. at[1] \in Kids(l, p) /\ rank[r] <= rank[at[1]]
      BY <2>1 DEF Family
    <3>2. rank[r] = rank[at[1]] => r = at[1]
      BY <3>1 DEF Family
    <3> QED BY <1>1, <3>1, <3>2
  <2>4. Met(l, p, rank, at, 1)
    <3>1. \A j \in 1 .. 1 : ~(j < 1)
      OBVIOUS
    <3>2. 1 \in 1 .. 1
      OBVIOUS
    <3> QED BY <2>2, <2>3, <3>1, <3>2 DEF Met
  <2>5. 0 \in 0 .. MaxProcs /\ 0 + 1 = 1
    BY <1>1
  <2> QED BY <2>4, <2>5
<1>3. \A k \in 1 .. MaxProcs : Met(l, p, rank, at, k) => Met(l, p, rank, at, k + 1)
  <2> SUFFICES ASSUME NEW k \in 1 .. MaxProcs, Met(l, p, rank, at, k)
               PROVE  Met(l, p, rank, at, k + 1)
    OBVIOUS
  <2>1. at[k + 1] = IF at[k] = NULL THEN NULL ELSE l.optr[at[k]]
    BY DEF Descends
  <2>2. /\ at[k] = NULL \/ at[k] \in Kids(l, p)
        /\ \A j \in 1 .. k : j < k /\ at[k] # NULL
             => at[j] \in Kids(l, p) /\ rank[at[k]] < rank[at[j]]
        /\ \A r \in Kids(l, p) : \/ \E j \in 1 .. k : at[j] = r
                                 \/ at[k] # NULL /\ rank[r] < rank[at[k]]
    BY DEF Met
  <2>3. \A j \in 1 .. k + 1 : (j \in 1 .. k /\ (j < k \/ j = k)) \/ (j = k + 1 /\ ~(j < k + 1))
    BY <1>1
  <2>4. \A j \in 1 .. k : j \in 1 .. k + 1
    BY <1>1
  <2>5. CASE at[k] = NULL
    <3>1. at[k + 1] = NULL
      BY <2>1, <2>5
    <3>2. \A r \in Kids(l, p) : \E j \in 1 .. k + 1 : at[j] = r
      BY <2>2, <2>4, <2>5
    <3> QED BY <3>1, <3>2 DEF Met
  <2>6. CASE at[k] \in Kids(l, p)
    <3>1. at[k] # NULL /\ at[k + 1] = l.optr[at[k]]
      BY <1>1, <2>1, <2>6
    <3>2. \/ at[k + 1] = NULL /\ \A r \in Kids(l, p) : rank[at[k]] <= rank[r]
          \/ /\ at[k + 1] \in Kids(l, p) /\ rank[at[k + 1]] < rank[at[k]]
             /\ \A r \in Kids(l, p) : rank[r] < rank[at[k]] => rank[r] <= rank[at[k + 1]]
      BY <2>6, <3>1 DEF Family
    <3>3. at[k + 1] = NULL \/ at[k + 1] \in Kids(l, p)
      BY <3>2
    <3>4. ASSUME NEW j \in 1 .. k + 1, j < k + 1, at[k + 1] # NULL
          PROVE  at[j] \in Kids(l, p) /\ rank[at[k + 1]] < rank[at[j]]
      <4>1. j \in 1 .. k /\ (j < k \/ j = k)
        BY <2>3, <3>4
      <4>2. rank[at[k + 1]] < rank[at[k]] /\ at[k + 1] \in Kids(l, p)
        BY <3>2, <3>4
      <4>3. CASE j < k
        <5>1. at[j] \in Kids(l, p) /\ rank[at[k]] < rank[at[j]]
          BY <2>2, <3>1, <4>1, <4>3
        <5> QED BY <1>1, <2>6, <4>2, <5>1
      <4>4. CASE j = k
        BY <2>6, <4>2, <4>4
      <4> QED BY <4>1, <4>3, <4>4
    <3>5. ASSUME NEW r \in Kids(l, p)
          PROVE  \/ \E j \in 1 .. k + 1 : at[j] = r
                 \/ at[k + 1] # NULL /\ rank[r] < rank[at[k + 1]]
      <4>1. CASE \E j \in 1 .. k : at[j] = r
        BY <2>4, <4>1
      <4>2. CASE rank[r] < rank[at[k]]
        <5>1. at[k + 1] # NULL /\ at[k + 1] \in Kids(l, p) /\ rank[r] <= rank[at[k + 1]]
          BY <1>1, <2>6, <3>2, <4>2
        <5>2. rank[r] = rank[at[k + 1]] => r = at[k + 1]
          BY <5>1 DEF Family
        <5>3. k + 1 \in 1 .. k + 1
          BY <1>1
        <5> QED BY <1>1, <5>1, <5>2, <5>3
      <4> QED BY <2>2, <4>1, <4>2
    <3> QED BY <3>3, <3>4, <3>5 DEF Met
  <2> QED BY <2>2, <2>5, <2>6
<1>4. \A k \in 1 .. MaxProcs : k - 1 \in P => k \in P
  <2> SUFFICES ASSUME NEW k \in 1 .. MaxProcs, Met(l, p, rank, at, (k - 1) + 1)
               PROVE  k \in 0 .. MaxProcs /\ Met(l, p, rank, at, k + 1)
    OBVIOUS
  <2>1. (k - 1) + 1 = k /\ k \in 0 .. MaxProcs
    BY <1>1
  <2> QED BY <1>3, <2>1
<1>5. \A k \in 0 .. MaxProcs : k \in P
  <2> HIDE DEF P
  <2> QED BY <1>1, <1>2, <1>4, EveryRound
<1>6. ASSUME NEW k \in 1 .. MaxProcs + 1
      PROVE  Met(l, p, rank, at, k)
  <2>1. k - 1 \in 0 .. MaxProcs /\ (k - 1) + 1 = k
    BY <1>1
  <2>2. Met(l, p, rank, at, (k - 1) + 1)
    BY <1>5, <2>1
  <2> QED BY <2>1, <2>2
<1> QED BY <1>6

-----------------------------------------------------------------------------
\* The links are those of ranked children, of parents that live.
KinInv ==
  /\ Links \in LinkSet /\ zombies \in SUBSET Procs
  /\ \E rank \in [Procs -> Nat] : Ranked(Links, rank)
  /\ \A x \in Procs : Closed(Links, x)
  /\ parent[InitProc] = NULL
  /\ \A q \in zombies : parent[q] # NULL
  /\ \A q \in Procs : parent[q] # NULL => parent[q] \in Living

\* What Links are made of.
LEMMA LinksAre ==
  Links.parent = parent /\ Links.cptr = cptr /\ Links.optr = optr /\ Links.yptr = yptr
BY DEF Links

\* In the beginning there is initproc alone, and nothing is linked.
LEMMA KinStarts ==
  ASSUME ConstantsOK, Init
  PROVE  KinInv
<1> USE DEF Init
<1>1. NULL \in 0 .. MaxProcs /\ \A q \in Procs : q # NULL
  BY DEF NULL, Procs, ConstantsOK
<1>2. InitProc \in Procs
  BY DEF InitProc, Procs, ConstantsOK
<1>3. Links \in LinkSet
  BY <1>1 DEF Links, LinkSet
<1>4. \A x \in Procs : Kids(Links, x) = {} /\ Links.cptr[x] = NULL
  BY <1>1, LinksAre DEF Kids
<1>5. \E rank \in [Procs -> Nat] : Ranked(Links, rank)
  <2>1. [q \in Procs |-> 0] \in [Procs -> Nat]
    OBVIOUS
  <2>2. Ranked(Links, [q \in Procs |-> 0])
    BY <1>4 DEF Ranked, Family
  <2> QED BY <2>1, <2>2
<1>6. \A x \in Procs : Closed(Links, x)
  BY <1>4 DEF Closed
<1> QED BY <1>2, <1>3, <1>5, <1>6 DEF KinInv

\* The links after a step are those that it settles on.
LEMMA Settles ==
  ASSUME NEW l \in LinkSet, Settle(l)
  PROVE  Links' = l
BY LinkFields DEF Settle, Links

\* do_fork()
LEMMA ForkKeeps ==
  ASSUME ConstantsOK, KinInv, NEW p \in Procs, NEW proc \in Procs, Fork(p, proc)
  PROVE  KinInv'
<1>1. /\ p \in Living /\ ~ Exists(proc)
      /\ Settle(Adopted(Links, p, proc)) /\ UNCHANGED zombies
  BY DEF Fork
<1>2. PICK rank \in [Procs -> Nat] : Ranked(Links, rank)
  BY DEF KinInv
<1>3. \A q \in Procs : q # NULL
  BY DEF NULL, Procs
<1>4. proc # InitProc /\ parent[proc] = NULL /\ proc # p /\ p # NULL
  BY <1>1, <1>3 DEF Exists, Living
<1>5. RankedBut(Links, rank, proc)
  <2>1. \A x \in Procs : Kids(Links, x) \ {proc} = Kids(Links, x)
    BY <1>3, <1>4, LinksAre DEF Kids
  <2> QED BY <1>2, <2>1 DEF Ranked, RankedBut
<1>6. Links \in LinkSet /\ \A x \in Procs : Closed(Links, x)
  BY DEF KinInv
<1>m. PICK m : m = Adopted(Links, p, proc)
  OBVIOUS
<1>7. /\ m \in LinkSet
      /\ \A q \in Procs : m.parent[q] = IF q = proc THEN p ELSE Links.parent[q]
      /\ \E rank2 \in [Procs -> Nat] : Ranked(m, rank2)
      /\ \A x \in Procs : x = p \/ Closed(Links, x) => Closed(m, x)
  BY <1>5, <1>6, <1>m, AdoptedRanked
<1>8. Links' = m
  BY <1>1, <1>7, <1>m, Settles
<1>9. \A q \in Procs : parent'[q] = IF q = proc THEN p ELSE parent[q]
  <2>1. parent' = m.parent
    BY <1>8 DEF Links
  <2> QED BY <1>7, <2>1, LinksAre
<1>10. Living \subseteq Living'
  BY <1>1, <1>4, <1>9 DEF Living, Exists
<1>11. /\ zombies' \in SUBSET Procs
       /\ parent'[InitProc] = NULL
       /\ \A q \in zombies' : parent'[q] # NULL
  <2>1. InitProc \in Procs
    BY DEF InitProc, Procs, ConstantsOK
  <2> QED BY <1>1, <1>4, <1>9, <2>1 DEF KinInv
<1>12. \A q \in Procs : parent'[q] # NULL => parent'[q] \in Living'
  BY <1>1, <1>9, <1>10 DEF KinInv
<1>13. Links' \in LinkSet /\ (\E rank2 \in [Procs -> Nat] : Ranked(Links', rank2))
  BY <1>7, <1>8
<1>14. \A x \in Procs : Closed(Links', x)
  BY <1>6, <1>7, <1>8
<1> QED BY <1>11, <1>12, <1>13, <1>14 DEF KinInv, Ranked, Closed, Procs

\* do_exit()
LEMMA ExitKeeps ==
  ASSUME ConstantsOK, KinInv, NEW p \in Procs, Exit(p)
  PROVE  KinInv'
<1>1. /\ p \in Living /\ p \in Procs \ {InitProc}
      /\ Settle(HandedOver(Links, p)) /\ zombies' = zombies \cup {p}
  BY DEF Exit
<1>2. PICK rank \in [Procs -> Nat] : Ranked(Links, rank)
  BY DEF KinInv
<1>3. /\ \A q \in Procs : q # NULL
      /\ InitProc \in Procs
  BY DEF NULL, Procs, InitProc, ConstantsOK
<1>4. Links \in LinkSet /\ \A x \in Procs : Closed(Links, x)
  BY DEF KinInv
<1>5. LET m == HandedOver(Links, p)
      IN  /\ m \in LinkSet
          /\ \E rank2 \in [Procs -> Nat] : Ranked(m, rank2)
          /\ \A x \in Procs : Closed(m, x)
          /\ \A q \in Procs : m.parent[q] = IF Links.parent[q] = p THEN InitProc
                                            ELSE Links.parent[q]
  BY <1>1, <1>2, <1>4, HandedOverRanked
<1>6. PICK m : m = HandedOver(Links, p)
  OBVIOUS
<1>7. Links' = m
  BY <1>1, <1>5, <1>6, Settles
<1>8. \A q \in Procs : parent'[q] = IF parent[q] = p THEN InitProc ELSE parent[q]
  <2>1. parent' = m.parent
    BY <1>7 DEF Links
  <2> QED BY <1>5, <1>6, <2>1, LinksAre
<1>9. \A q \in Living : q # p => q \in Living'
  BY <1>1, <1>3, <1>8 DEF Living, Exists
<1>10. InitProc \in Living'
  BY <1>1, <1>3 DEF Living, Exists, KinInv
<1>11. \A q \in Procs : parent'[q] # NULL => parent'[q] \in Living'
  BY <1>3, <1>8, <1>9, <1>10 DEF KinInv
<1>12. /\ zombies' \in SUBSET Procs
       /\ parent'[InitProc] = NULL
       /\ \A q \in zombies' : parent'[q] # NULL
  <2>1. parent[p] # NULL
    BY <1>1 DEF Living, Exists
  <2>2. parent[InitProc] = NULL
    BY DEF KinInv
  <2>3. InitProc # NULL
    BY <1>3
  <2> QED BY <1>1, <1>3, <1>8, <2>1, <2>2, <2>3 DEF KinInv
<1>13. Links' \in LinkSet /\ (\E rank2 \in [Procs -> Nat] : Ranked(Links', rank2))
  BY <1>5, <1>6, <1>7
<1>14. \A x \in Procs : Closed(Links', x)
  BY <1>5, <1>6, <1>7
<1> QED BY <1>11, <1>12, <1>13, <1>14 DEF KinInv, Ranked, Closed, Procs

\* The end of do_wait()
LEMMA ReapKeeps ==
  ASSUME ConstantsOK, KinInv, NEW p \in Procs, NEW proc \in Procs, Reap(p, proc)
  PROVE  KinInv'
<1>1. /\ proc \in zombies /\ zombies' = zombies \ {proc}
      /\ Settle(Released(Links, proc))
  BY DEF Reap, Released
<1>2. PICK rank \in [Procs -> Nat] : Ranked(Links, rank)
  BY DEF KinInv
<1>3. /\ \A q \in Procs : q # NULL
      /\ InitProc \in Procs
  BY DEF NULL, Procs, InitProc, ConstantsOK
<1>4. Links \in LinkSet /\ (\A x \in Procs : Closed(Links, x)) /\ Links.parent[proc] # NULL
  BY <1>1, LinksAre DEF KinInv
<1>m. PICK m : m = Released(Links, proc)
  OBVIOUS
<1>5. /\ m \in LinkSet /\ Ranked(m, rank) /\ \A x \in Procs : Closed(m, x)
      /\ \A q \in Procs : m.parent[q] = IF q = proc THEN NULL ELSE Links.parent[q]
  BY <1>2, <1>4, <1>m, ReleasedRanked
<1>6. Links' = m
  BY <1>1, <1>5, <1>m, Settles
<1>7. \A q \in Procs : parent'[q] = IF q = proc THEN NULL ELSE parent[q]
  <2>1. parent' = m.parent
    BY <1>6 DEF Links
  <2> QED BY <1>5, <2>1, LinksAre
<1>8. \A q \in Living : q # proc /\ q \in Living'
  BY <1>1, <1>7 DEF Living, Exists
<1>9. \A q \in Procs : parent'[q] # NULL => parent'[q] \in Living'
  BY <1>7, <1>8 DEF KinInv
<1>10. /\ zombies' \in SUBSET Procs
       /\ parent'[InitProc] = NULL
       /\ \A q \in zombies' : parent'[q] # NULL
  BY <1>1, <1>3, <1>7 DEF KinInv
<1>11. Links' \in LinkSet /\ (\E rank2 \in [Procs -> Nat] : Ranked(Links', rank2))
  BY <1>5, <1>6
<1>12. \A x \in Procs : Closed(Links', x)
  BY <1>5, <1>6
<1> QED BY <1>9, <1>10, <1>11, <1>12 DEF KinInv, Ranked, Closed, Procs

\* Nothing changes when no process does anything.
LEMMA KinRests ==
  ASSUME KinInv, UNCHANGED vars
  PROVE  KinInv'
<1>1. Links' = Links /\ parent' = parent /\ zombies' = zombies
  BY DEF vars, Links
<1>2. Living' = Living
  BY <1>1 DEF Living, Exists
<1>3. /\ Links' \in LinkSet /\ (\E rank \in [Procs -> Nat] : Ranked(Links', rank))
      /\ \A x \in Procs : Closed(Links', x)
  BY <1>1 DEF KinInv
<1> QED BY <1>1, <1>2, <1>3 DEF KinInv, Ranked, Closed, Procs

\* Every step keeps the invariant.
LEMMA KinKept ==
  ASSUME ConstantsOK, KinInv, [Next]_vars
  PROVE  KinInv'
<1>1. CASE UNCHANGED vars
  BY <1>1, KinRests
<1>2. ASSUME NEW p \in Procs, Exit(p) PROVE KinInv'
  BY <1>2, ExitKeeps
<1>3. ASSUME NEW p \in Procs, NEW proc \in Procs, Fork(p, proc) PROVE KinInv'
  BY <1>3, ForkKeeps
<1>4. ASSUME NEW p \in Procs, NEW proc \in Procs, Reap(p, proc) PROVE KinInv'
  BY <1>4, ReapKeeps
<1> QED BY <1>1, <1>2, <1>3, <1>4 DEF Next

-----------------------------------------------------------------------------
\* Of n + 1 entries with n values two are the same.
LEMMA Crowded ==
  ASSUME NEW n \in Nat, NEW S, IsFiniteSet(S), Cardinality(S) = n, NEW at \in [1 .. n + 1 -> S]
  PROVE  \E j, k \in 1 .. n + 1 : j # k /\ at[j] = at[k]
<1>1. IsFiniteSet(1 .. n + 1) /\ Cardinality(1 .. n + 1) = n + 1
  BY FS_Interval
<1>2. Cardinality(S) < Cardinality(1 .. n + 1)
  BY <1>1
<1> QED BY <1>1, <1>2, FS_PigeonHole

\* A chain of ranked children comes to an end: there are too few processes for it.
LEMMA ChainOf ==
  ASSUME ConstantsOK, NEW l \in LinkSet, NEW p \in Procs, NEW rank \in [Procs -> Nat],
         Ranked(l, rank), NEW at, at = Chain(l, p)
  PROVE  /\ at \in [1 .. MaxProcs + 1 -> 0 .. MaxProcs]
         /\ {at[k] : k \in 1 .. MaxProcs + 1} \ {NULL} = Kids(l, p)
         /\ \A j, k \in 1 .. MaxProcs + 1 : at[j] = at[k] /\ at[k] # NULL => j = k
<1>1. at \in [1 .. MaxProcs + 1 -> 0 .. MaxProcs] /\ Descends(l, p, at)
  BY ChainDescends
<1>2. \A k \in 1 .. MaxProcs + 1 : Met(l, p, rank, at, k)
  BY <1>1, ChainMeets DEF Ranked
<1>3. /\ MaxProcs \in Nat
      /\ \A q \in Kids(l, p) : q \in Procs /\ q # NULL /\ rank[q] \in Nat
  BY DEF ConstantsOK, Kids, Procs, NULL
<1>4. ASSUME NEW j \in 1 .. MaxProcs + 1, NEW k \in 1 .. MaxProcs + 1, j < k, at[k] # NULL
      PROVE  at[j] # at[k]
  <2>1. j \in 1 .. k
    BY <1>4
  <2>2. at[k] \in Kids(l, p) /\ at[j] \in Kids(l, p) /\ rank[at[k]] < rank[at[j]]
    BY <1>2, <1>4, <2>1 DEF Met
  <2> QED BY <1>3, <2>2
<1>5. \A j, k \in 1 .. MaxProcs + 1 : at[j] = at[k] /\ at[k] # NULL => j = k
  <2> SUFFICES ASSUME NEW j \in 1 .. MaxProcs + 1, NEW k \in 1 .. MaxProcs + 1,
                      at[j] = at[k], at[k] # NULL, j # k
               PROVE  FALSE
    OBVIOUS
  <2>1. j < k \/ k < j
    OBVIOUS
  <2> QED BY <1>4, <2>1
<1>6. at[MaxProcs + 1] = NULL
  <2> SUFFICES ASSUME at[MaxProcs + 1] # NULL PROVE FALSE
    OBVIOUS
  <2>1. ASSUME NEW k \in 1 .. MaxProcs + 1 PROVE at[k] \in Procs
    <3>1. MaxProcs + 1 \in 1 .. MaxProcs + 1 /\ (k < MaxProcs + 1 \/ k = MaxProcs + 1)
      BY <1>3
    <3>2. Met(l, p, rank, at, MaxProcs + 1)
      BY <1>2, <3>1
    <3>3. at[k] \in Kids(l, p)
      BY <3>1, <3>2 DEF Met
    <3> QED BY <1>3, <3>3
  <2>2. at \in [1 .. MaxProcs + 1 -> Procs]
    BY <1>1, <2>1
  <2>4. IsFiniteSet(Procs) /\ Cardinality(Procs) = MaxProcs
    BY ProcsFinite
  <2>5. \E j, k \in 1 .. MaxProcs + 1 : j # k /\ at[j] = at[k]
    BY <1>3, <2>2, <2>4, Crowded
  <2>6. \A k \in 1 .. MaxProcs + 1 : at[k] # NULL
    BY <2>1 DEF Procs, NULL
  <2> QED BY <1>5, <2>5, <2>6
<1>7. {at[k] : k \in 1 .. MaxProcs + 1} \ {NULL} = Kids(l, p)
  <2>1. ASSUME NEW k \in 1 .. MaxProcs + 1, at[k] # NULL PROVE at[k] \in Kids(l, p)
    BY <1>2, <2>1 DEF Met
  <2>2. ASSUME NEW r \in Kids(l, p)
        PROVE  \E k \in 1 .. MaxProcs + 1 : at[k] = r
    <3>1. MaxProcs + 1 \in 1 .. MaxProcs + 1
      BY <1>3
    <3>2. Met(l, p, rank, at, MaxProcs + 1)
      BY <1>2, <3>1
    <3> QED BY <1>6, <3>2 DEF Met
  <2> QED BY <1>3, <2>1, <2>2
<1> QED BY <1>1, <1>5, <1>7

\* The entries of a chain that are used, and the processes there.
Used(at, n)  == {k \in 1 .. n : at[k] # NULL}
There(at, n) == {at[k] : k \in 1 .. n} \ {NULL}

Once(at, n)  == \A j, k \in 1 .. n : at[j] = at[k] /\ at[k] # NULL => j = k

\* As many entries of a chain are used as it has processes.
LEMMA OnceEach ==
  ASSUME NEW n \in Nat, NEW at, Once(at, n)
  PROVE  Cardinality(Used(at, n)) = Cardinality(There(at, n))
<1>1. PICK D : D = Used(at, n)
  OBVIOUS
<1>2. PICK K : K = There(at, n)
  OBVIOUS
<1>3. IsFiniteSet(D)
  <2>1. IsFiniteSet(1 .. n) /\ D \in SUBSET (1 .. n)
    BY <1>1, FS_Interval DEF Used
  <2> QED BY <2>1, FS_Subset
<1>4. PICK g : g = [k \in D |-> at[k]]
  OBVIOUS
<1>5. g \in [D -> K] /\ \A a, b \in D : g[a] = g[b] => a = b
  BY <1>1, <1>2, <1>4 DEF Used, There, Once
<1>6. \A t \in K : \E s \in D : g[s] = t
  BY <1>1, <1>2, <1>4 DEF Used, There
<1>7. ExistsBijection(D, K)
  <2>1. g \in Injection(D, K)
    BY <1>5 DEF Injection, IsInjective
  <2>2. g \in Surjection(D, K)
    BY <1>5, <1>6 DEF Surjection
  <2> QED BY <2>1, <2>2 DEF ExistsBijection, Bijection
<1>8. Cardinality(K) = Cardinality(D)
  BY <1>3, <1>7, FS_Bijection
<1> QED BY <1>1, <1>2, <1>8

\* What the invariant is for.
LEMMA KinInvExact ==
  ASSUME ConstantsOK, KinInv
  PROVE  KinExact
<1> SUFFICES ASSUME NEW p \in Procs
    PROVE  LET chain == Chain(Links, p)
               kids  == {chain[k] : k \in DOMAIN chain} \ {NULL}
           IN  /\ kids = Children(p) /\ (p \notin Living => kids = {})
               /\ Cardinality({k \in DOMAIN chain : chain[k] # NULL}) = Cardinality(kids)
               /\ cptr[p] # NULL => yptr[cptr[p]] = NULL
               /\ \A q \in kids : optr[q] # NULL => yptr[optr[q]] = q
               /\ (FirstZombie(p) = NULL) = (kids \cap zombies = {})
  BY DEF KinExact
<1>1. PICK rank \in [Procs -> Nat] : Ranked(Links, rank)
  BY DEF KinInv
<1>2. Links \in LinkSet
  BY DEF KinInv
<1>c. PICK chain : chain = Chain(Links, p)
  OBVIOUS
<1>k. PICK kids : kids = {chain[k] : k \in 1 .. MaxProcs + 1} \ {NULL}
  OBVIOUS
<1>3. /\ chain \in [1 .. MaxProcs + 1 -> 0 .. MaxProcs]
      /\ {chain[k] : k \in 1 .. MaxProcs + 1} \ {NULL} = Kids(Links, p)
      /\ \A j, k \in 1 .. MaxProcs + 1 : chain[j] = chain[k] /\ chain[k] # NULL => j = k
  BY <1>1, <1>2, <1>c, ChainOf
<1>4. DOMAIN chain = 1 .. MaxProcs + 1 /\ MaxProcs + 1 \in Nat
  BY <1>3 DEF ConstantsOK
<1>5. kids = Children(p) /\ kids = Kids(Links, p)
  BY <1>3, <1>k, LinksAre DEF Kids, Children
<1>6. p \notin Living => kids = {}
  BY <1>5 DEF Children, KinInv, Procs, NULL
<1>7. Cardinality({k \in DOMAIN chain : chain[k] # NULL}) = Cardinality(kids)
  <2>1. Once(chain, MaxProcs + 1)
    BY <1>3 DEF Once
  <2>2. Cardinality(Used(chain, MaxProcs + 1)) = Cardinality(There(chain, MaxProcs + 1))
    BY <1>4, <2>1, OnceEach
  <2> QED BY <1>4, <1>k, <2>2 DEF Used, There
<1>8. cptr[p] # NULL => yptr[cptr[p]] = NULL
  BY LinksAre DEF KinInv, Closed
<1>9. \A q \in kids : optr[q] # NULL => yptr[optr[q]] = q
  BY <1>1, <1>5, LinksAre DEF Ranked, Family
<1>10. (FirstZombie(p) = NULL) = (kids \cap zombies = {})
  <2>1. PICK found : found = {k \in DOMAIN chain : chain[k] \in zombies}
    OBVIOUS
  <2>2. FirstZombie(p) = IF found = {} THEN NULL ELSE chain[Min(found)]
    BY <1>c, <2>1 DEF FirstZombie
  <2>3. NULL \notin zombies
    BY DEF KinInv, Procs, NULL
  <2>4. found = {} <=> kids \cap zombies = {}
    BY <1>4, <1>k, <2>1, <2>3
  <2>5. found # {} => chain[Min(found)] \in zombies
    <3>1. found \in SUBSET Nat
      BY <1>4, <2>1
    <3>2. found # {} => Min(found) \in found
      BY <3>1, LeastOf
    <3> QED BY <2>1, <3>2
  <2>6. found = {} => FirstZombie(p) = NULL
    BY <2>2
  <2>7. found # {} => FirstZombie(p) # NULL
    BY <2>2, <2>3, <2>5
  <2> QED BY <2>4, <2>6, <2>7
<1>11. kids = {chain[k] : k \in DOMAIN chain} \ {NULL}
  BY <1>4, <1>k
<1> QED BY <1>5, <1>6, <1>7, <1>8, <1>9, <1>10, <1>11, <1>c

\* The chain from cptr over optr has exactly the children of each process, once each,
\* and do_wait() finds one that has exited, if there is one; for any number of processes
\* (proc.c, set_links, remove_links, do_exit, do_wait).
THEOREM KinHolds ==
  ASSUME ConstantsOK
  PROVE  Spec => []KinExact
<1>1. Init => KinInv
  BY KinStarts
<1>2. KinInv /\ [Next]_vars => KinInv'
  BY KinKept
<1>3. KinInv => KinExact
  BY KinInvExact
<1> QED BY <1>1, <1>2, <1>3, PTL DEF Spec

-----------------------------------------------------------------------------
(* Timers. *)

\* A timer on the list.
Timer == [proc : Sleepers, expires : Nat]

\* The tick, counted from now, with which the i-th timer of a list expires.
Due(list, i) == Clock!Deadline(list, i)

\* The entries of a list.
LEMMA TimersAre ==
  ASSUME NEW list \in Seq(Timer), NEW i \in 1 .. Len(list)
  PROVE  list[i] \in Timer /\ list[i].expires \in Nat /\ list[i].proc \in Sleepers
<1>1. list[i] \in Timer
  BY ElementOfSeq
<1> QED BY <1>1 DEF Timer

\* The deadline of a timer is that of the timer before it and its own ticks.
LEMMA DeadlineIs ==
  ASSUME NEW list \in Seq(Timer)
  PROVE  /\ \A k \in 0 .. Len(list) : Due(list, k) \in Nat
         /\ Due(list, 0) = 0
         /\ \A k \in 1 .. Len(list) : Due(list, k) = Due(list, k - 1) + list[k].expires
<1>a. PICK n \in Nat : n = Len(list)
  OBVIOUS
<1>b. \A k \in 1 .. n : list[k] \in Timer /\ list[k].expires \in Nat
  BY <1>a, TimersAre
<1> DEFINE T(f, k) == IF k = 0 THEN 0 ELSE f[k - 1] + list[k].expires
           sum == CHOOSE f : f = [k \in 0 .. n |-> T(f, k)]
<1>1. \E f : f = [k \in 0 .. n |-> T(f, k)]
  <2> DEFINE Add(k, v) == IF k \in 1 .. n THEN v + list[k].expires ELSE v
             step == [a \in Nat \X Nat |-> Add(a[1], a[2])]
  <2>1. step \in [Nat \X Nat -> Nat]
    BY <1>b
  <2>2. PICK g : Walk(Nat, step, 0, n, g)
    <3> HIDE DEF step
    <3> QED BY <2>1, Repeats
  <2>3. g \in [0 .. n -> Nat] /\ g[0] = 0
    BY <2>2 DEF Walk
  <2>4. \A k \in 0 .. n : g[k] = T(g, k)
    <3> TAKE k \in 0 .. n
    <3>1. CASE k = 0
      BY <2>3, <3>1
    <3>2. CASE k # 0
      <4>1. k \in 1 .. n /\ k \in Nat /\ k - 1 \in 0 .. n
        BY <3>2
      <4>2. g[k - 1] \in Nat /\ g[k] = step[<<k, g[k - 1]>>]
        BY <2>2, <2>3, <4>1 DEF Walk
      <4> QED BY <3>2, <4>1, <4>2
    <3> QED BY <3>1, <3>2
  <2>5. g = [k \in 0 .. n |-> T(g, k)]
    <3> HIDE DEF T
    <3> QED BY <2>3, <2>4
  <2> QED BY <2>5
<1>2. sum = [k \in 0 .. n |-> T(sum, k)]
  <2> HIDE DEF T
  <2> QED BY <1>1, Zenon
<1>3. \A k : Due(list, k) = sum[k]
  BY <1>a, Zenon DEF Due, Clock!Deadline
<1> HIDE DEF sum
<1>4. \A k \in 0 .. n : sum[k] = T(sum, k)
  <2> HIDE DEF T
  <2> QED BY <1>2
<1>5. sum[0] = 0 /\ \A k \in 1 .. n : sum[k] = sum[k - 1] + list[k].expires
  BY <1>4
<1>6. \A k \in 0 .. n : sum[k] \in Nat
  <2> DEFINE P == {k \in 0 .. n : sum[k] \in Nat}
  <2>1. 0 \in P
    BY <1>5
  <2>2. \A k \in 1 .. n : k - 1 \in P => k \in P
    BY <1>5, <1>b
  <2>3. \A k \in 0 .. n : k \in P
    <3> HIDE DEF P
    <3> QED BY <2>1, <2>2, EveryRound
  <2> QED BY <2>3
<1> QED BY <1>a, <1>3, <1>5, <1>6

\* The m timers of a behind place x have the ticks of those of b behind place y, and
\* deadlines that run in parallel.
SameTicks(a, x, b, y, m) ==
  /\ a \in Seq(Timer) /\ b \in Seq(Timer) /\ x \in Nat /\ y \in Nat /\ m \in Nat
  /\ x + m <= Len(a) /\ y + m <= Len(b)
  /\ \A k \in 1 .. m : a[x + k].expires = b[y + k].expires

SameGaps(a, x, b, y, m) ==
  \A k \in 0 .. m : Due(a, x + k) - Due(a, x) = Due(b, y + k) - Due(b, y)

\* One goes with the other.
LEMMA Parallel ==
  ASSUME NEW a, NEW b, NEW x, NEW y, NEW m, SameTicks(a, x, b, y, m)
  PROVE  SameGaps(a, x, b, y, m)
<1>b. /\ a \in Seq(Timer) /\ b \in Seq(Timer) /\ x \in Nat /\ y \in Nat /\ m \in Nat
      /\ x + m <= Len(a) /\ y + m <= Len(b)
      /\ \A k \in 1 .. m : a[x + k].expires = b[y + k].expires
  BY DEF SameTicks
<1> DEFINE P == {k \in 0 .. m : Due(a, x + k) - Due(a, x)
                                  = Due(b, y + k) - Due(b, y)}
<1>a. x \in 0 .. Len(a) /\ y \in 0 .. Len(b)
  BY <1>b
<1>1. 0 \in P
  <2>1. Due(a, x) \in Nat /\ Due(b, y) \in Nat
    BY <1>a, <1>b, DeadlineIs
  <2>2. x + 0 = x /\ y + 0 = y
    BY <1>b
  <2> QED BY <1>b, <2>1, <2>2
<1>2. \A k \in 1 .. m : k - 1 \in P => k \in P
  <2> SUFFICES ASSUME NEW k \in 1 .. m, k - 1 \in P PROVE k \in P
    OBVIOUS
  <2>1. PICK i \in 0 .. Len(a) : i = x + (k - 1)
    BY <1>b
  <2>2. PICK j \in 0 .. Len(b) : j = y + (k - 1)
    BY <1>b
  <2>3. x + k \in 1 .. Len(a) /\ (x + k) - 1 = i /\ y + k \in 1 .. Len(b) /\ (y + k) - 1 = j
    BY <1>b, <2>1, <2>2
  <2>4. /\ Due(a, x + k) = Due(a, i) + a[x + k].expires
        /\ Due(b, y + k) = Due(b, j) + b[y + k].expires
    BY <1>b, <2>3, DeadlineIs
  <2>5. /\ Due(a, i) \in Nat /\ Due(b, j) \in Nat /\ Due(a, x) \in Nat
        /\ Due(b, y) \in Nat
    BY <1>a, <1>b, DeadlineIs
  <2>6. a[x + k].expires \in Nat /\ a[x + k].expires = b[y + k].expires
    BY <1>b, <2>3, TimersAre
  <2>7. Due(a, i) - Due(a, x) = Due(b, j) - Due(b, y)
    BY <2>1, <2>2
  <2>8. Due(a, x + k) - Due(a, x) = Due(b, y + k) - Due(b, y)
    <3>1. PICK c \in Nat : c = a[x + k].expires
      BY <2>6
    <3>2. PICK d, e, f, g \in Nat : /\ d = Due(a, i) /\ e = Due(b, j)
                                    /\ f = Due(a, x) /\ g = Due(b, y)
      BY <2>5
    <3>3. Due(a, x + k) = d + c /\ Due(b, y + k) = e + c
      BY <2>4, <2>6, <3>1, <3>2
    <3>4. d - f = e - g
      BY <2>7, <3>2
    <3>5. (d + c) - f = (e + c) - g
      BY <3>4
    <3> QED BY <3>2, <3>3, <3>5
  <2> QED BY <2>8
<1>3. \A k \in 0 .. m : k \in P
  <2> HIDE DEF P
  <2> QED BY <1>b, <1>1, <1>2, EveryRound
<1> QED BY <1>3 DEF SameGaps

\* Deadlines do not decrease along a list.
LEMMA DeadlinesGrow ==
  ASSUME NEW list \in Seq(Timer), NEW i \in 0 .. Len(list), NEW j \in 0 .. Len(list), i <= j
  PROVE  Due(list, i) <= Due(list, j)
<1> DEFINE m == j - i
           P == {k \in 0 .. m : Due(list, i) <= Due(list, i + k)}
<1>0. m \in Nat /\ i + m = j /\ i \in Nat
  OBVIOUS
<1>1. 0 \in P
  <2>1. Due(list, i) \in Nat /\ i + 0 = i
    BY DeadlineIs
  <2> QED BY <1>0, <2>1
<1>2. \A k \in 1 .. m : k - 1 \in P => k \in P
  <2> SUFFICES ASSUME NEW k \in 1 .. m, k - 1 \in P PROVE k \in P
    OBVIOUS
  <2>1. PICK h \in 0 .. Len(list) : h = i + (k - 1)
    OBVIOUS
  <2>2. i + k \in 1 .. Len(list) /\ (i + k) - 1 = h
    BY <2>1
  <2>3. Due(list, i + k) = Due(list, h) + list[i + k].expires
    BY <2>2, DeadlineIs
  <2>4. Due(list, h) \in Nat /\ Due(list, i) \in Nat /\ list[i + k].expires \in Nat
    BY <2>2, DeadlineIs, TimersAre
  <2>5. Due(list, i) <= Due(list, h)
    BY <2>1
  <2> QED BY <2>3, <2>4, <2>5
<1>3. \A k \in 0 .. m : k \in P
  <2> HIDE DEF P
  <2> QED BY <1>0, <1>1, <1>2, EveryRound
<1>4. m \in P
  <2> HIDE DEF P
  <2>1. m \in 0 .. m
    BY <1>0
  <2> QED BY <1>3, <2>1
<1> QED BY <1>0, <1>4

-----------------------------------------------------------------------------
\* What holds of the list at all times: no process is on it twice, and the first
\* timer, and with it every other, has ticks left.
Distinct(list) == \A i, j \in DOMAIN list : list[i].proc = list[j].proc => i = j

Pending(list) == \A i \in 1 .. Len(list) : Due(list, i) > 0

GoodList(list) == list \in Seq(Timer) /\ Distinct(list) /\ Pending(list)

\* Where a process is on a list.
LEMMA IndexIs ==
  ASSUME NEW list \in Seq(Timer), Distinct(list), NEW p
  PROVE  /\ \A i \in 1 .. Len(list) : list[i].proc = p => Clock!Index(list, p) = i
         /\ (\A i \in 1 .. Len(list) : list[i].proc # p) => Clock!Index(list, p) = 0
<1> PICK I : I = {i \in 1 .. Len(list) : list[i].proc = p}
  OBVIOUS
<1>1. Clock!Index(list, p) = IF I # {} THEN Min(I) ELSE 0
  <2>1. \A U : Clock!Min(U) = Min(U)
    BY Zenon DEF Clock!Min, Min
  <2> QED BY <2>1, Zenon DEF Clock!Index, Clock!SelectInSeq
<1>2. ASSUME NEW i \in 1 .. Len(list), list[i].proc = p PROVE Clock!Index(list, p) = i
  <2>1. I = {i}
    BY <1>2 DEF Distinct
  <2>2. {i} \in SUBSET Nat /\ \A y \in {i} : i <= y
    OBVIOUS
  <2>3. Min({i}) = i
    BY <2>2, MinIs
  <2> QED BY <1>1, <2>1, <2>3
<1>3. (\A i \in 1 .. Len(list) : list[i].proc # p) => I = {}
  OBVIOUS
<1> QED BY <1>1, <1>2, <1>3

\* The ticks left of a process.
LeftOf(list, p) == Due(list, Clock!Index(list, p))

\* They are those of its entry.
LEMMA LeftIs ==
  ASSUME NEW list \in Seq(Timer), Distinct(list), NEW p
  PROVE  /\ \A i \in 1 .. Len(list) : list[i].proc = p => LeftOf(list, p) = Due(list, i)
         /\ (\A i \in 1 .. Len(list) : list[i].proc # p) => LeftOf(list, p) = 0
  BY IndexIs, DeadlineIs DEF LeftOf

\* The first entries of a list are those with a property that no entry has behind one
\* without it.
LEMMA FirstOnes ==
  ASSUME NEW n \in Nat, NEW T \in SUBSET (1 .. n), \A i \in T : \A j \in 1 .. i : j \in T
  PROVE  Cardinality(T) \in 0 .. n /\ T = 1 .. Cardinality(T)
<1>1. CASE T = {}
  BY <1>1, FS_EmptySet
<1>2. CASE T # {}
  <2>1. T \in SUBSET (0 .. n)
    OBVIOUS
  <2>2. PICK m : m = Max(T)
    OBVIOUS
  <2>3. m \in T /\ \A y \in T : y <= m
    BY <1>2, <2>1, <2>2, GreatestOf
  <2>4. m \in 1 .. n
    BY <2>3
  <2>5. T = 1 .. m
    <3>1. \A y \in T : y \in 1 .. m
      BY <2>3, <2>4
    <3>2. \A y \in 1 .. m : y \in T
      BY <2>3
    <3> QED BY <3>1, <3>2
  <2>6. Cardinality(1 .. m) = m
    <3>1. Cardinality(1 .. m) = IF 1 > m THEN 0 ELSE m - 1 + 1
      BY <2>4, FS_Interval
    <3> QED BY <2>4, <3>1
  <2> QED BY <2>4, <2>5, <2>6
<1> QED BY <1>1, <1>2

\* A list with ticks added to one entry.
LEMMA ShiftIs ==
  ASSUME NEW list \in Seq(Timer), NEW i \in Int, NEW d \in Int,
         i \in 1 .. Len(list) => list[i].expires + d \in Nat
  PROVE  /\ Clock!Shift(list, i, d) \in Seq(Timer)
         /\ Len(Clock!Shift(list, i, d)) = Len(list)
         /\ \A j \in 1 .. Len(list) :
              /\ Clock!Shift(list, i, d)[j].proc = list[j].proc
              /\ Clock!Shift(list, i, d)[j].expires
                    = IF j = i THEN list[i].expires + d ELSE list[j].expires
<1>1. CASE i \notin 1 .. Len(list)
  <2>1. Clock!Shift(list, i, d) = list
    BY <1>1 DEF Clock!Shift
  <2> QED BY <1>1, <2>1
<1>2. CASE i \in 1 .. Len(list)
  <2>1. PICK e : e = list[i].expires + d
    OBVIOUS
  <2>2. PICK x : x = [list[i] EXCEPT !.expires = e]
    OBVIOUS
  <2>3. list[i] \in Timer
    BY <1>2, TimersAre
  <2>4. x \in Timer /\ x.proc = list[i].proc /\ x.expires = e
    BY <1>2, <2>1, <2>2, <2>3 DEF Timer
  <2>5. Clock!Shift(list, i, d) = [list EXCEPT ![i] = x]
    <3>1. i \in DOMAIN list
      BY <1>2
    <3>2. Clock!Shift(list, i, d) = [list EXCEPT ![i].expires = @ + d]
      BY <3>1, Zenon DEF Clock!Shift
    <3>3. [list EXCEPT ![i].expires = @ + d] = [list EXCEPT ![i] = x]
      BY <2>1, <2>2
    <3> QED BY <3>2, <3>3
  <2>6. /\ [list EXCEPT ![i] = x] \in Seq(Timer) /\ Len([list EXCEPT ![i] = x]) = Len(list)
        /\ \A j \in 1 .. Len(list) : [list EXCEPT ![i] = x][j] = IF j = i THEN x ELSE list[j]
    BY <1>2, <2>4, ExceptSeq
  <2> QED BY <2>1, <2>4, <2>5, <2>6
<1> QED BY <1>1, <1>2

\* A sequence with an entry put in before place i, which may be behind the last.
LEMMA InsertIs ==
  ASSUME NEW V, NEW s \in Seq(V), NEW i \in 1 .. Len(s) + 1, NEW e \in V
  PROVE  /\ InsertAt(s, i, e) \in Seq(V)
         /\ Len(InsertAt(s, i, e)) = Len(s) + 1
         /\ \A j \in 1 .. Len(s) + 1 :
              InsertAt(s, i, e)[j] = IF j < i THEN s[j] ELSE IF j = i THEN e ELSE s[j - 1]
<1>a. PICK n \in Nat : n = Len(s)
  OBVIOUS
<1>b. PICK a : a = SubSeq(s, 1, i - 1)
  OBVIOUS
<1>c. PICK c : c = SubSeq(s, i, Len(s))
  OBVIOUS
<1>d. PICK r : r = InsertAt(s, i, e)
  OBVIOUS
<1>1. r = (a \o <<e>>) \o c
  BY <1>b, <1>c, <1>d DEF InsertAt
<1>2. a \in Seq(V) /\ Len(a) = i - 1 /\ \A j \in 1 .. i - 1 : a[j] = s[j]
  BY <1>a, <1>b
<1>3. c \in Seq(V) /\ Len(c) = (n - i) + 1 /\ \A j \in 1 .. (n - i) + 1 : c[j] = s[(i + j) - 1]
  BY <1>a, <1>c
<1>4. PICK ae : ae = a \o <<e>>
  OBVIOUS
<1>5. ae \in Seq(V) /\ Len(ae) = i /\ \A j \in 1 .. i : ae[j] = IF j < i THEN s[j] ELSE e
  <2>1. <<e>> \in Seq(V) /\ Len(<<e>>) = 1 /\ <<e>>[1] = e
    OBVIOUS
  <2>2. /\ ae \in Seq(V) /\ Len(ae) = Len(a) + 1
        /\ \A j \in 1 .. Len(a) + 1 : ae[j] = IF j <= Len(a) THEN a[j] ELSE <<e>>[j - Len(a)]
    BY <1>2, <1>4, <2>1, ConcatProperties
  <2>3. ASSUME NEW j \in 1 .. i PROVE ae[j] = IF j < i THEN s[j] ELSE e
    BY <1>2, <2>1, <2>2
  <2> QED BY <1>2, <2>2, <2>3
<1>6. /\ r \in Seq(V) /\ Len(r) = i + Len(c)
      /\ \A j \in 1 .. i + Len(c) : r[j] = IF j <= i THEN ae[j] ELSE c[j - i]
  <2>1. r = ae \o c
    BY <1>1, <1>4
  <2>2. ae \in Seq(V) /\ Len(ae) = i /\ c \in Seq(V)
    BY <1>3, <1>5
  <2>3. /\ ae \o c \in Seq(V) /\ Len(ae \o c) = Len(ae) + Len(c)
        /\ \A j \in 1 .. Len(ae) + Len(c) : (ae \o c)[j] = IF j <= Len(ae) THEN ae[j]
                                                           ELSE c[j - Len(ae)]
    BY <2>2, ConcatProperties
  <2> QED BY <2>1, <2>2, <2>3
<1>7. i + Len(c) = n + 1
  BY <1>3
<1>8. ASSUME NEW j \in 1 .. n + 1
      PROVE  r[j] = IF j < i THEN s[j] ELSE IF j = i THEN e ELSE s[j - 1]
  <2>1. CASE j <= i
    BY <1>5, <1>6, <1>7, <2>1
  <2>2. CASE ~(j <= i)
    <3>1. r[j] = c[j - i]
      BY <1>6, <1>7, <2>2
    <3>2. j - i \in 1 .. (n - i) + 1 /\ (i + (j - i)) - 1 = j - 1
      BY <2>2
    <3>3. c[j - i] = s[j - 1]
      BY <1>3, <3>2
    <3> QED BY <2>2, <3>1, <3>3
  <2> QED BY <2>1, <2>2
<1> QED BY <1>a, <1>d, <1>6, <1>7, <1>8

\* A sequence without its entry at place i.
LEMMA RemoveIs ==
  ASSUME NEW V, NEW s \in Seq(V), NEW i \in 1 .. Len(s)
  PROVE  /\ RemoveAt(s, i) \in Seq(V)
         /\ Len(RemoveAt(s, i)) = Len(s) - 1
         /\ \A j \in 1 .. Len(s) - 1 : RemoveAt(s, i)[j] = IF j < i THEN s[j] ELSE s[j + 1]
<1>a. PICK n \in Nat : n = Len(s)
  OBVIOUS
<1>b. PICK a : a = SubSeq(s, 1, i - 1)
  OBVIOUS
<1>c. PICK c : c = SubSeq(s, i + 1, Len(s))
  OBVIOUS
<1>d. PICK r : r = RemoveAt(s, i)
  OBVIOUS
<1>1. r = a \o c
  BY <1>b, <1>c, <1>d DEF RemoveAt
<1>2. a \in Seq(V) /\ Len(a) = i - 1 /\ \A j \in 1 .. i - 1 : a[j] = s[j]
  BY <1>a, <1>b
<1>3. c \in Seq(V) /\ Len(c) = n - i /\ \A j \in 1 .. n - i : c[j] = s[i + j]
  BY <1>a, <1>c
<1>4. /\ r \in Seq(V) /\ Len(r) = Len(a) + Len(c)
      /\ \A j \in 1 .. Len(a) + Len(c) : r[j] = IF j <= Len(a) THEN a[j] ELSE c[j - Len(a)]
  BY <1>1, <1>2, <1>3, ConcatProperties
<1>5. Len(a) + Len(c) = n - 1
  BY <1>2, <1>3
<1>6. ASSUME NEW j \in 1 .. n - 1 PROVE r[j] = IF j < i THEN s[j] ELSE s[j + 1]
  <2>1. CASE j < i
    <3>1. j \in 1 .. Len(a) + Len(c) /\ j <= Len(a) /\ j \in 1 .. i - 1
      BY <1>2, <1>3, <2>1
    <3>2. r[j] = a[j]
      BY <1>4, <3>1
    <3>3. a[j] = s[j]
      BY <1>2, <3>1
    <3> QED BY <2>1, <3>2, <3>3
  <2>2. CASE ~(j < i)
    <3>1. r[j] = c[j - (i - 1)]
      BY <1>2, <1>4, <1>5, <2>2
    <3>2. j - (i - 1) \in 1 .. n - i /\ i + (j - (i - 1)) = j + 1
      BY <2>2
    <3>3. c[j - (i - 1)] = s[j + 1]
      BY <1>3, <3>2
    <3> QED BY <2>2, <3>1, <3>3
  <2> QED BY <2>1, <2>2
<1> QED BY <1>a, <1>d, <1>4, <1>5, <1>6

-----------------------------------------------------------------------------
\* new is list with a timer of p put in behind the first k, which expires after t ticks.
Added(list, p, t, k, new) ==
  /\ new \in Seq(Timer) /\ Len(new) = Len(list) + 1
  /\ \A j \in 1 .. k : new[j].proc = list[j].proc /\ Due(new, j) = Due(list, j)
  /\ new[k + 1].proc = p /\ Due(new, k + 1) = t
  /\ \A j \in k + 1 .. Len(list) : /\ new[j + 1].proc = list[j].proc
                                   /\ Due(new, j + 1) = Due(list, j)

\* add_timer() does that.
LEMMA AddDoes ==
  ASSUME NEW list \in Seq(Timer), NEW p \in Sleepers, NEW t \in Nat
  PROVE  \E k \in 0 .. Len(list) : Added(list, p, t, k, Clock!AddTimer(list, p, t))
<1>a. PICK n \in Nat : n = Len(list)
  OBVIOUS
<1>b. PICK before : before = {i \in DOMAIN list : Due(list, i) <= t}
  OBVIOUS
<1>c. PICK k : k = Cardinality(before)
  OBVIOUS
<1>1. before = {i \in 1 .. n : Due(list, i) <= t}
  BY <1>a, <1>b
<1>2. k \in 0 .. n /\ before = 1 .. k
  <2>1. ASSUME NEW i \in before, NEW j \in 1 .. i PROVE j \in before
    <3>1. i \in 0 .. n /\ j \in 0 .. n /\ j <= i /\ j \in 1 .. n
      BY <1>1
    <3>2. Due(list, j) <= Due(list, i)
      BY <3>1, <1>a, DeadlinesGrow
    <3>3. Due(list, j) \in Nat /\ Due(list, i) \in Nat /\ Due(list, i) <= t
      BY <3>1, <1>a, <1>1, DeadlineIs
    <3> QED BY <3>1, <3>2, <3>3, <1>1
  <2>2. before \in SUBSET (1 .. n)
    BY <1>1
  <2> QED BY <1>c, <2>1, <2>2, FirstOnes
<1>3. \A i \in 1 .. k : Due(list, i) <= t
  BY <1>1, <1>2
<1>4. k < n => ~(Due(list, k + 1) <= t)
  BY <1>1, <1>2
<1>5. Due(list, k) \in Nat /\ Due(list, k) <= t
  <2>1. Due(list, k) \in Nat /\ Due(list, 0) = 0
    BY <1>2, <1>a, DeadlineIs
  <2>2. CASE k = 0
    BY <2>1, <2>2
  <2>3. CASE k # 0
    <3>1. k \in 1 .. k
      BY <1>2, <2>3
    <3> QED BY <3>1, <2>1, <1>3
  <2> QED BY <2>2, <2>3
<1>d. PICK rest \in Nat : rest = t - Due(list, k)
  <2>1. PICK d \in Nat : d = Due(list, k)
    BY <1>5
  <2>2. t - d \in Nat
    BY <2>1, <1>5
  <2> QED BY <2>1, <2>2
<1>e. PICK timer : timer = [proc |-> p, expires |-> rest]
  OBVIOUS
<1>f. PICK shifted : shifted = Clock!Shift(list, k + 1, -rest)
  OBVIOUS
<1>g. PICK new : new = InsertAt(shifted, k + 1, timer)
  OBVIOUS
<1>6. Clock!AddTimer(list, p, t) = new
  <2>1. Clock!AddTimer(list, p, t)
          = InsertAt(Clock!Shift(list, k + 1, -(t - Due(list, k))), k + 1,
                     [proc |-> p, expires |-> t - Due(list, k)])
    BY <1>b, <1>c, Zenon DEF Clock!AddTimer, Due, Clock!InsertAt, InsertAt, Clock!Cardinality,
       Cardinality
  <2> QED BY <2>1, <1>d, <1>e, <1>f, <1>g
<1>7. timer \in Timer /\ timer.proc = p /\ timer.expires = rest
  BY <1>e DEF Timer
<1>8. ASSUME k < n
      PROVE  /\ Due(list, k + 1) = Due(list, k) + list[k + 1].expires
             /\ list[k + 1].expires \in Nat /\ list[k + 1].expires + (-rest) \in Nat
             /\ t + (list[k + 1].expires + (-rest)) = Due(list, k + 1)
  <2>1. k + 1 \in 1 .. Len(list) /\ (k + 1) - 1 = k
    BY <1>2, <1>8, <1>a
  <2>2. Due(list, k + 1) = Due(list, k) + list[k + 1].expires
    BY <2>1, DeadlineIs
  <2>3. list[k + 1].expires \in Nat
    BY <2>1, TimersAre
  <2>4. PICK d, e \in Nat : d = Due(list, k) /\ e = list[k + 1].expires
    BY <2>3, <1>5
  <2>5. ~(d + e <= t) /\ rest = t - d /\ d <= t
    BY <2>2, <2>4, <1>4, <1>8, <1>5, <1>d
  <2>6. e + (-rest) \in Nat /\ t + (e + (-rest)) = d + e
    BY <2>5
  <2> QED BY <2>2, <2>3, <2>4, <2>6
<1>9. /\ shifted \in Seq(Timer) /\ Len(shifted) = n
      /\ \A j \in 1 .. n : /\ shifted[j].proc = list[j].proc
                           /\ shifted[j].expires = IF j = k + 1 THEN list[k + 1].expires + (-rest)
                                                   ELSE list[j].expires
  <2>1. k + 1 \in Int /\ -rest \in Int
    BY <1>2
  <2>2. k + 1 \in 1 .. Len(list) => list[k + 1].expires + (-rest) \in Nat
    BY <1>a, <1>2, <1>8
  <2> QED BY <2>1, <2>2, <1>a, <1>f, ShiftIs
<1>10. /\ new \in Seq(Timer) /\ Len(new) = n + 1
       /\ \A j \in 1 .. n + 1 : new[j] = IF j < k + 1 THEN shifted[j]
                                         ELSE IF j = k + 1 THEN timer ELSE shifted[j - 1]
  <2>1. k + 1 \in 1 .. Len(shifted) + 1 /\ shifted \in Seq(Timer) /\ timer \in Timer
    BY <1>2, <1>7, <1>9
  <2>a. PICK h \in 1 .. Len(shifted) + 1 : h = k + 1
    BY <2>1
  <2>2. /\ InsertAt(shifted, h, timer) \in Seq(Timer)
        /\ Len(InsertAt(shifted, h, timer)) = Len(shifted) + 1
        /\ \A j \in 1 .. Len(shifted) + 1 :
             InsertAt(shifted, h, timer)[j]
               = IF j < h THEN shifted[j] ELSE IF j = h THEN timer ELSE shifted[j - 1]
    BY <2>1, InsertIs
  <2>3. Len(shifted) = n /\ InsertAt(shifted, h, timer) = new
    BY <1>9, <1>g, <2>a
  <2> QED BY <2>2, <2>3, <2>a
<1>11. \A j \in 1 .. k : new[j].proc = list[j].proc /\ new[j].expires = list[j].expires
  <2> SUFFICES ASSUME NEW j \in 1 .. k
               PROVE  new[j].proc = list[j].proc /\ new[j].expires = list[j].expires
    OBVIOUS
  <2>1. j \in 1 .. n /\ j \in 1 .. n + 1 /\ j < k + 1 /\ j # k + 1
    BY <1>2
  <2>2. new[j] = shifted[j]
    BY <2>1, <1>10
  <2>3. shifted[j].proc = list[j].proc /\ shifted[j].expires = list[j].expires
    BY <2>1, <1>9
  <2> QED BY <2>2, <2>3
<1>12. \A j \in k + 1 .. n : /\ new[j + 1].proc = list[j].proc
                             /\ new[j + 1].expires = shifted[j].expires
  <2> SUFFICES ASSUME NEW j \in k + 1 .. n
               PROVE  new[j + 1].proc = list[j].proc /\ new[j + 1].expires = shifted[j].expires
    OBVIOUS
  <2>1. j \in 1 .. n /\ j + 1 \in 1 .. n + 1 /\ ~(j + 1 < k + 1) /\ j + 1 # k + 1 /\ (j + 1) - 1 = j
    BY <1>2
  <2>2. new[j + 1] = shifted[j]
    BY <2>1, <1>10
  <2>3. shifted[j].proc = list[j].proc
    BY <2>1, <1>9
  <2> QED BY <2>2, <2>3
<1>13. new[k + 1] = timer
  <2>1. k + 1 \in 1 .. n + 1
    BY <1>2
  <2> QED BY <2>1, <1>10
<1>14. \A j \in 0 .. k : Due(new, j) = Due(list, j)
  <2>1. \A j \in 1 .. k : new[0 + j].expires = list[0 + j].expires
    BY <1>11
  <2>2. \A j \in 0 .. k : Due(new, 0 + j) - Due(new, 0)
                            = Due(list, 0 + j) - Due(list, 0)
    <3>1. 0 + k <= Len(new) /\ 0 + k <= Len(list) /\ k \in Nat /\ new \in Seq(Timer)
      BY <1>a, <1>2, <1>10
    <3>2. SameTicks(new, 0, list, 0, k)
      BY <3>1, <2>1 DEF SameTicks
    <3>3. SameGaps(new, 0, list, 0, k)
      BY <3>2, Parallel
    <3> QED BY <3>3, Zenon DEF SameGaps
  <2> TAKE j \in 0 .. k
  <2>3. j \in 0 .. Len(new) /\ j \in 0 .. Len(list) /\ 0 + j = j
    BY <1>a, <1>2, <1>10
  <2>4. /\ Due(new, j) \in Nat /\ Due(list, j) \in Nat
        /\ Due(new, 0) = 0 /\ Due(list, 0) = 0
    BY <2>3, <1>10, DeadlineIs
  <2>5. Due(new, j) - Due(new, 0) = Due(list, j) - Due(list, 0)
    BY <2>2, <2>3
  <2> QED BY <2>4, <2>5
<1>15. Due(new, k + 1) = t
  <2>1. k + 1 \in 1 .. Len(new) /\ (k + 1) - 1 = k /\ k \in 0 .. k
    BY <1>2, <1>10
  <2>2. Due(new, k + 1) = Due(new, k) + new[k + 1].expires
    BY <2>1, <1>10, DeadlineIs
  <2>3. Due(new, k) = Due(list, k) /\ new[k + 1].expires = rest
    BY <2>1, <1>7, <1>13, <1>14
  <2>4. PICK d \in Nat : d = Due(list, k)
    BY <1>5
  <2>5. Due(new, k + 1) = d + rest /\ rest = t - d
    BY <2>2, <2>3, <2>4, <1>d
  <2> QED BY <2>5
<1>16. ASSUME k < n PROVE Due(new, k + 2) = Due(list, k + 1)
  <2>1. /\ k + 2 \in 1 .. Len(new) /\ (k + 2) - 1 = k + 1
        /\ k + 1 \in k + 1 .. n /\ (k + 1) + 1 = k + 2 /\ k + 1 \in 1 .. n
    BY <1>2, <1>10, <1>16
  <2>2. Due(new, k + 2) = Due(new, k + 1) + new[k + 2].expires
    BY <2>1, <1>10, DeadlineIs
  <2>3. new[k + 2].expires = shifted[k + 1].expires
    BY <2>1, <1>12
  <2>4. shifted[k + 1].expires = list[k + 1].expires + (-rest)
    BY <2>1, <1>9
  <2> QED BY <2>2, <2>3, <2>4, <1>8, <1>15, <1>16
<1>17. ASSUME NEW j \in k + 1 .. n PROVE Due(new, j + 1) = Due(list, j)
  <2>0. k < n
    BY <1>2
  <2>a. PICK m \in Nat : m = (n - k) - 1
    BY <1>2, <2>0
  <2>b. k + 2 \in Nat /\ k + 1 \in Nat /\ (k + 2) + m = n + 1 /\ (k + 1) + m = n
    BY <1>2, <2>a
  <2>1. ASSUME NEW i \in 1 .. m
        PROVE  new[(k + 2) + i].expires = list[(k + 1) + i].expires
    <3>1. PICK h \in k + 1 .. n : h = (k + 1) + i
      BY <1>2, <2>a
    <3>2. h + 1 = (k + 2) + i /\ h # k + 1 /\ h \in 1 .. n
      BY <1>2, <3>1
    <3>3. new[h + 1].expires = shifted[h].expires
      BY <1>12
    <3>4. shifted[h].expires = list[h].expires
      BY <3>2, <1>9
    <3> QED BY <3>1, <3>2, <3>3, <3>4
  <2>2. \A i \in 0 .. m : Due(new, (k + 2) + i) - Due(new, k + 2)
                            = Due(list, (k + 1) + i) - Due(list, k + 1)
    <3>1. (k + 2) + m <= Len(new) /\ (k + 1) + m <= Len(list) /\ new \in Seq(Timer)
      BY <1>a, <2>b, <1>10
    <3>2. \A i \in 1 .. m : new[(k + 2) + i].expires = list[(k + 1) + i].expires
      BY <2>1
    <3>3. SameTicks(new, k + 2, list, k + 1, m)
      BY <2>b, <3>1, <3>2 DEF SameTicks
    <3>4. SameGaps(new, k + 2, list, k + 1, m)
      BY <3>3, Parallel
    <3> QED BY <3>4, Zenon DEF SameGaps
  <2>3. PICK i \in 0 .. m : i = j - (k + 1)
    BY <1>2, <2>a
  <2>4. (k + 2) + i = j + 1 /\ (k + 1) + i = j
    BY <1>2, <2>3
  <2>5. Due(new, j + 1) - Due(new, k + 2) = Due(list, j) - Due(list, k + 1)
    BY <2>2, <2>4
  <2>6. Due(new, j + 1) \in Nat /\ Due(list, j) \in Nat /\ Due(list, k + 1) \in Nat
    <3>1. j + 1 \in 0 .. Len(new) /\ j \in 0 .. Len(list) /\ k + 1 \in 0 .. Len(list)
      BY <1>2, <1>a, <1>10
    <3> QED BY <3>1, <1>10, DeadlineIs
  <2> QED BY <2>0, <2>5, <2>6, <1>16
<1>18. Added(list, p, t, k, new)
  BY <1>a, <1>2, <1>7, <1>10, <1>11, <1>12, <1>13, <1>14, <1>15, <1>17 DEF Added
<1> QED BY <1>a, <1>2, <1>6, <1>18

\* new is list without its i-th timer; the others keep their deadlines.
Removed(list, i, new) ==
  /\ new \in Seq(Timer) /\ Len(new) = Len(list) - 1
  /\ \A j \in 1 .. i - 1 : new[j].proc = list[j].proc /\ Due(new, j) = Due(list, j)
  /\ \A j \in i .. Len(list) - 1 : /\ new[j].proc = list[j + 1].proc
                                   /\ Due(new, j) = Due(list, j + 1)

\* del_timer() does that.
LEMMA DelDoes ==
  ASSUME NEW list \in Seq(Timer), NEW i \in 1 .. Len(list), NEW p, Clock!Index(list, p) = i
  PROVE  Removed(list, i, Clock!DelTimer(list, p))
<1>a. PICK n \in Nat : n = Len(list)
  OBVIOUS
<1>b. PICK e \in Nat : e = list[i].expires
  BY TimersAre
<1>c. PICK shifted : shifted = Clock!Shift(list, i + 1, e)
  OBVIOUS
<1>d. PICK new : new = RemoveAt(shifted, i)
  OBVIOUS
<1>1. Clock!DelTimer(list, p) = new
  <2>1. i # 0
    OBVIOUS
  <2>2. Clock!DelTimer(list, p) = RemoveAt(Clock!Shift(list, i + 1, list[i].expires), i)
    BY <2>1, Zenon DEF Clock!DelTimer, Clock!RemoveAt, RemoveAt
  <2> QED BY <2>2, <1>b, <1>c, <1>d
<1>2. /\ shifted \in Seq(Timer) /\ Len(shifted) = n
      /\ \A j \in 1 .. n : /\ shifted[j].proc = list[j].proc
                           /\ shifted[j].expires = IF j = i + 1 THEN list[i + 1].expires + e
                                                   ELSE list[j].expires
  <2>1. i + 1 \in Int /\ e \in Int
    OBVIOUS
  <2>2. i + 1 \in 1 .. Len(list) => list[i + 1].expires + e \in Nat
    BY TimersAre
  <2> QED BY <2>1, <2>2, <1>a, <1>c, ShiftIs
<1>3. /\ new \in Seq(Timer) /\ Len(new) = n - 1
      /\ \A j \in 1 .. n - 1 : new[j] = IF j < i THEN shifted[j] ELSE shifted[j + 1]
  <2>1. shifted \in Seq(Timer) /\ Len(shifted) = n /\ i \in 1 .. Len(shifted)
    BY <1>2, <1>a
  <2>2. /\ RemoveAt(shifted, i) \in Seq(Timer)
        /\ Len(RemoveAt(shifted, i)) = Len(shifted) - 1
        /\ \A j \in 1 .. Len(shifted) - 1 :
             RemoveAt(shifted, i)[j] = IF j < i THEN shifted[j] ELSE shifted[j + 1]
    BY <2>1, RemoveIs
  <2> QED BY <2>1, <2>2, <1>d
<1>4. \A j \in 1 .. i - 1 : new[j].proc = list[j].proc /\ new[j].expires = list[j].expires
  <2> SUFFICES ASSUME NEW j \in 1 .. i - 1
               PROVE  new[j].proc = list[j].proc /\ new[j].expires = list[j].expires
    OBVIOUS
  <2>1. j \in 1 .. n - 1 /\ j \in 1 .. n /\ j < i /\ j # i + 1
    BY <1>a
  <2>2. new[j] = shifted[j]
    BY <2>1, <1>3
  <2> QED BY <2>1, <2>2, <1>2
<1>5. \A j \in i .. n - 1 : /\ new[j].proc = list[j + 1].proc
                            /\ new[j].expires = shifted[j + 1].expires
  <2> SUFFICES ASSUME NEW j \in i .. n - 1
               PROVE  new[j].proc = list[j + 1].proc /\ new[j].expires = shifted[j + 1].expires
    OBVIOUS
  <2>1. j \in 1 .. n - 1 /\ j + 1 \in 1 .. n /\ ~(j < i)
    BY <1>a
  <2>2. new[j] = shifted[j + 1]
    BY <2>1, <1>3
  <2> QED BY <2>1, <2>2, <1>2
<1>6. \A j \in 0 .. i - 1 : Due(new, j) = Due(list, j)
  <2>1. \A j \in 1 .. i - 1 : new[0 + j].expires = list[0 + j].expires
    BY <1>4
  <2>2. \A j \in 0 .. i - 1 : Due(new, 0 + j) - Due(new, 0)
                            = Due(list, 0 + j) - Due(list, 0)
    <3>1. /\ 0 + (i - 1) <= Len(new) /\ 0 + (i - 1) <= Len(list) /\ i - 1 \in Nat
          /\ new \in Seq(Timer)
      BY <1>a, <1>3
    <3>2. SameTicks(new, 0, list, 0, i - 1)
      BY <3>1, <2>1 DEF SameTicks
    <3>3. SameGaps(new, 0, list, 0, i - 1)
      BY <3>2, Parallel
    <3> QED BY <3>3, Zenon DEF SameGaps
  <2> TAKE j \in 0 .. i - 1
  <2>3. j \in 0 .. Len(new) /\ j \in 0 .. Len(list) /\ 0 + j = j
    BY <1>a, <1>3
  <2>4. /\ Due(new, j) \in Nat /\ Due(list, j) \in Nat
        /\ Due(new, 0) = 0 /\ Due(list, 0) = 0
    BY <2>3, <1>3, DeadlineIs
  <2>5. Due(new, j) - Due(new, 0) = Due(list, j) - Due(list, 0)
    BY <2>2, <2>3
  <2> QED BY <2>4, <2>5
<1>7. ASSUME i < n PROVE Due(new, i) = Due(list, i + 1)
  <2>1. /\ i \in 1 .. Len(new) /\ i \in 1 .. Len(list) /\ i + 1 \in 1 .. Len(list)
        /\ (i + 1) - 1 = i /\ i - 1 \in 0 .. i - 1 /\ i \in i .. n - 1
        /\ i - 1 \in 0 .. Len(list) /\ i + 1 \in 1 .. n
    BY <1>a, <1>3, <1>7
  <2>2. Due(new, i) = Due(new, i - 1) + new[i].expires
    BY <2>1, <1>3, DeadlineIs
  <2>3. /\ Due(list, i) = Due(list, i - 1) + list[i].expires
        /\ Due(list, i + 1) = Due(list, i) + list[i + 1].expires
    BY <2>1, DeadlineIs
  <2>4. Due(new, i - 1) = Due(list, i - 1)
    BY <2>1, <1>6
  <2>5. new[i].expires = shifted[i + 1].expires
    BY <2>1, <1>5
  <2>6. shifted[i + 1].expires = list[i + 1].expires + e
    BY <2>1, <1>2
  <2>7. PICK d, f \in Nat : d = Due(list, i - 1) /\ f = list[i + 1].expires
    BY <2>1, DeadlineIs, TimersAre
  <2>8. Due(new, i) = d + (f + e) /\ Due(list, i + 1) = (d + e) + f
    BY <2>2, <2>3, <2>4, <2>5, <2>6, <2>7, <1>b
  <2> QED BY <2>8
<1>8. ASSUME NEW j \in i .. n - 1 PROVE Due(new, j) = Due(list, j + 1)
  <2>a. PICK m \in Nat : m = (n - i) - 1
    <3>1. i < n /\ i \in Nat
      OBVIOUS
    <3>2. (n - i) - 1 \in Nat
      BY <3>1
    <3> QED BY <3>2
  <2>b. i \in Nat /\ i + 1 \in Nat /\ i + m = n - 1 /\ (i + 1) + m = n
    BY <2>a
  <2>1. ASSUME NEW h \in 1 .. m PROVE new[i + h].expires = list[(i + 1) + h].expires
    <3>1. PICK g \in i .. n - 1 : g = i + h
      BY <2>a
    <3>2. g + 1 = (i + 1) + h /\ g + 1 # i + 1 /\ g + 1 \in 1 .. n
      BY <3>1
    <3>3. new[g].expires = shifted[g + 1].expires
      BY <1>5
    <3>4. shifted[g + 1].expires = list[g + 1].expires
      BY <3>2, <1>2
    <3> QED BY <3>1, <3>2, <3>3, <3>4
  <2>2. \A h \in 0 .. m : Due(new, i + h) - Due(new, i)
                            = Due(list, (i + 1) + h) - Due(list, i + 1)
    <3>1. i + m <= Len(new) /\ (i + 1) + m <= Len(list) /\ new \in Seq(Timer)
      BY <1>a, <2>b, <1>3
    <3>2. \A h \in 1 .. m : new[i + h].expires = list[(i + 1) + h].expires
      BY <2>1
    <3>3. SameTicks(new, i, list, i + 1, m)
      BY <2>b, <3>1, <3>2 DEF SameTicks
    <3>4. SameGaps(new, i, list, i + 1, m)
      BY <3>3, Parallel
    <3> QED BY <3>4, Zenon DEF SameGaps
  <2>3. PICK h \in 0 .. m : h = j - i
    BY <2>a
  <2>4. i + h = j /\ (i + 1) + h = j + 1
    BY <2>3
  <2>5. Due(new, j) - Due(new, i) = Due(list, j + 1) - Due(list, i + 1)
    BY <2>2, <2>4
  <2>6. Due(new, j) \in Nat /\ Due(list, j + 1) \in Nat /\ Due(list, i + 1) \in Nat
    <3>1. j \in 0 .. Len(new) /\ j + 1 \in 0 .. Len(list) /\ i + 1 \in 0 .. Len(list)
      BY <1>a, <1>3
    <3> QED BY <3>1, <1>3, DeadlineIs
  <2>7. i < n
    OBVIOUS
  <2> QED BY <2>5, <2>6, <2>7, <1>7
<1>9. Removed(list, i, new)
  <2>1. \A j \in 1 .. i - 1 : new[j].proc = list[j].proc /\ Due(new, j) = Due(list, j)
    BY <1>4, <1>6
  <2>2. \A j \in i .. n - 1 : /\ new[j].proc = list[j + 1].proc
                              /\ Due(new, j) = Due(list, j + 1)
    BY <1>5, <1>8
  <2> QED BY <1>a, <1>3, <2>1, <2>2 DEF Removed
<1> QED BY <1>1, <1>9

\* The list that a tick leaves.
AfterTick(list) ==
  Clock!Shift(SubSeq(list, Clock!Expired(list) + 1, Len(list)), 1,
                  IF Clock!Expired(list) = 0 THEN -1 ELSE 0)

\* The first n timers of list had one tick left; new has the others, with a tick less.
Ticked(list, n, new) ==
  /\ n \in 0 .. Len(list) /\ new \in Seq(Timer) /\ Len(new) = Len(list) - n
  /\ \A j \in 1 .. n : Due(list, j) = 1
  /\ \A j \in n + 1 .. Len(list) : /\ Due(list, j) > 1
                                   /\ new[j - n].proc = list[j].proc
                                   /\ Due(new, j - n) = Due(list, j) - 1

\* run_timer_list() does that.
LEMMA TickDoes ==
  ASSUME NEW list \in Seq(Timer), Pending(list)
  PROVE  Ticked(list, Clock!Expired(list), AfterTick(list))
<1>a. PICK len \in Nat : len = Len(list)
  OBVIOUS
<1>b. PICK fired : fired = {i \in DOMAIN list : Due(list, i) = 1}
  OBVIOUS
<1>c. PICK n : n = Clock!Expired(list)
  OBVIOUS
<1>d. PICK d : d = IF n = 0 THEN -1 ELSE 0
  OBVIOUS
<1>e. PICK sub : sub = SubSeq(list, n + 1, Len(list))
  OBVIOUS
<1>f. PICK new : new = Clock!Shift(sub, 1, d)
  OBVIOUS
<1>1. AfterTick(list) = new
  BY <1>c, <1>d, <1>e, <1>f DEF AfterTick
<1>2. \A j \in 0 .. len : Due(list, j) \in Nat
  BY <1>a, DeadlineIs
<1>3. \A j \in 1 .. len : Due(list, j) > 0
  BY <1>a DEF Pending
<1>4. fired = {i \in 1 .. len : Due(list, i) = 1}
  BY <1>a, <1>b
<1>5. n \in 0 .. len /\ fired = 1 .. n
  <2>1. ASSUME NEW i \in fired, NEW j \in 1 .. i PROVE j \in fired
    <3>1. i \in 0 .. len /\ j \in 0 .. len /\ j <= i /\ j \in 1 .. len
      BY <1>4
    <3>2. Due(list, j) <= Due(list, i)
      BY <3>1, <1>a, DeadlinesGrow
    <3>3. Due(list, j) \in Nat /\ Due(list, i) = 1 /\ Due(list, j) > 0
      BY <3>1, <1>2, <1>3, <1>4
    <3>4. Due(list, j) = 1
      BY <3>2, <3>3
    <3> QED BY <3>1, <3>4, <1>4
  <2>2. fired \in SUBSET (1 .. len)
    BY <1>4
  <2>3. n = Cardinality(fired)
    BY <1>b, <1>c, Zenon DEF Clock!Expired, Due, Clock!Cardinality, Cardinality
  <2> QED BY <2>1, <2>2, <2>3, FirstOnes
<1>6. \A j \in 1 .. n : Due(list, j) = 1
  BY <1>4, <1>5
<1>7. ASSUME NEW j \in n + 1 .. len PROVE Due(list, j) > 1
  <2>1. j \in 1 .. len /\ j \in 0 .. len /\ j \notin 1 .. n
    BY <1>5
  <2>2. Due(list, j) # 1
    BY <2>1, <1>4, <1>5
  <2>3. Due(list, j) \in Nat /\ Due(list, j) > 0
    BY <2>1, <1>2, <1>3
  <2> QED BY <2>2, <2>3
<1>8. sub \in Seq(Timer) /\ Len(sub) = len - n /\ \A j \in 1 .. len - n : sub[j] = list[n + j]
  BY <1>a, <1>e, <1>5
<1>9. d \in Int /\ (n = 0 => d = -1) /\ (n # 0 => d = 0)
  BY <1>d
<1>10. ASSUME n < len
       PROVE  /\ sub[1] = list[n + 1] /\ sub[1].expires \in Nat /\ sub[1].expires + d \in Nat
              /\ Due(list, n + 1) - 1 = sub[1].expires + d
  <2>1. /\ 1 \in 1 .. len - n /\ n + 1 \in 1 .. Len(list) /\ (n + 1) - 1 = n
        /\ n + 1 \in n + 1 .. len
    BY <1>10, <1>5, <1>a
  <2>2. sub[1] = list[n + 1]
    BY <2>1, <1>8
  <2>3. Due(list, n + 1) = Due(list, n) + list[n + 1].expires
    BY <2>1, DeadlineIs
  <2>4. list[n + 1].expires \in Nat
    BY <2>1, TimersAre
  <2>5. PICK e \in Nat : e = sub[1].expires
    BY <2>2, <2>4
  <2>6. Due(list, n + 1) > 1
    BY <2>1, <1>7
  <2>7. PICK x \in Nat : x = Due(list, n)
    BY <1>2, <1>5
  <2>8. x + e > 1 /\ Due(list, n + 1) = x + e
    BY <2>2, <2>3, <2>5, <2>6, <2>7
  <2>9. e + d \in Nat /\ (x + e) - 1 = e + d
    <3>1. CASE n = 0
      <4>1. x = 0
        BY <3>1, <2>7, DeadlineIs
      <4> QED BY <4>1, <3>1, <1>9, <2>8
    <3>2. CASE n # 0
      <4>1. n \in 1 .. n
        BY <3>2, <1>5
      <4>2. x = 1
        BY <4>1, <2>7, <1>6
      <4> QED BY <4>2, <3>2, <1>9, <2>8
    <3> QED BY <3>1, <3>2
  <2> QED BY <2>2, <2>5, <2>8, <2>9
<1>11. /\ new \in Seq(Timer) /\ Len(new) = len - n
       /\ \A j \in 1 .. len - n : /\ new[j].proc = sub[j].proc
                                  /\ new[j].expires = IF j = 1 THEN sub[1].expires + d
                                                      ELSE sub[j].expires
  <2>1. 1 \in 1 .. Len(sub) => sub[1].expires + d \in Nat
    BY <1>5, <1>8, <1>10
  <2> QED BY <2>1, <1>8, <1>9, <1>f, ShiftIs
<1>12. ASSUME n < len PROVE Due(new, 1) = Due(list, n + 1) - 1
  <2>1. 1 \in 1 .. Len(new) /\ 1 - 1 = 0 /\ 1 \in 1 .. len - n
    BY <1>12, <1>5, <1>11
  <2>2. Due(new, 1) = Due(new, 0) + new[1].expires /\ Due(new, 0) = 0
    BY <2>1, <1>11, DeadlineIs
  <2>3. new[1].expires = sub[1].expires + d
    BY <2>1, <1>11
  <2> QED BY <2>2, <2>3, <1>10, <1>12
<1>13. ASSUME NEW j \in n + 1 .. len
       PROVE  new[j - n].proc = list[j].proc /\ Due(new, j - n) = Due(list, j) - 1
  <2>0. n < len /\ j - n \in 1 .. len - n /\ n + (j - n) = j
    BY <1>5
  <2>1. new[j - n].proc = list[j].proc
    BY <2>0, <1>8, <1>11
  <2>a. PICK m \in Nat : m = (len - n) - 1
    <3>1. (len - n) - 1 \in Nat
      BY <1>5, <2>0
    <3> QED BY <3>1
  <2>2. ASSUME NEW i \in 1 .. m PROVE new[1 + i].expires = list[(n + 1) + i].expires
    <3>1. PICK h \in 1 .. len - n : h = 1 + i
      BY <2>a, <1>5
    <3>2. h # 1 /\ n + h = (n + 1) + i
      BY <3>1, <1>5
    <3>3. new[h].expires = sub[h].expires /\ sub[h] = list[n + h]
      BY <3>2, <1>8, <1>11
    <3> QED BY <3>1, <3>2, <3>3
  <2>3. SameGaps(new, 1, list, n + 1, m)
    <3>1. /\ 1 + m <= Len(new) /\ (n + 1) + m <= Len(list) /\ new \in Seq(Timer)
          /\ n + 1 \in Nat
      BY <1>a, <2>a, <1>5, <1>11
    <3>2. \A i \in 1 .. m : new[1 + i].expires = list[(n + 1) + i].expires
      BY <2>2
    <3>3. SameTicks(new, 1, list, n + 1, m)
      BY <2>a, <3>1, <3>2 DEF SameTicks
    <3> QED BY <3>3, Parallel
  <2>4. PICK i \in 0 .. m : i = j - (n + 1)
    BY <2>a, <1>5
  <2>5. 1 + i = j - n /\ (n + 1) + i = j
    BY <2>4, <1>5
  <2>6. Due(new, 1 + i) - Due(new, 1)
          = Due(list, (n + 1) + i) - Due(list, n + 1)
    BY <2>3, Zenon DEF SameGaps
  <2>7. Due(new, j - n) - Due(new, 1) = Due(list, j) - Due(list, n + 1)
    BY <2>5, <2>6
  <2>8. /\ Due(new, j - n) \in Nat /\ Due(list, j) \in Nat
        /\ Due(list, n + 1) \in Nat
    <3>1. j - n \in 0 .. Len(new) /\ j \in 0 .. Len(list) /\ n + 1 \in 0 .. Len(list)
      BY <2>0, <1>5, <1>a, <1>11
    <3> QED BY <3>1, <1>11, DeadlineIs
  <2>9. Due(new, j - n) = Due(list, j) - 1
    BY <2>0, <2>7, <2>8, <1>12
  <2> QED BY <2>1, <2>9
<1>14. Ticked(list, n, new)
  BY <1>a, <1>5, <1>6, <1>7, <1>11, <1>13 DEF Ticked
<1> QED BY <1>1, <1>14, <1>c

-----------------------------------------------------------------------------
\* Whether a process has a timer on the list.
On(list, q) == \E i \in 1 .. Len(list) : list[i].proc = q

\* A process without one has no ticks left; one that has one has.
LEMMA LeftOrNot ==
  ASSUME NEW list, GoodList(list), NEW q
  PROVE  /\ ~ On(list, q) => LeftOf(list, q) = 0
         /\ On(list, q) => LeftOf(list, q) \in Nat \ {0}
<1>1. list \in Seq(Timer) /\ Distinct(list) /\ Pending(list)
  BY DEF GoodList
<1>2. ~ On(list, q) => LeftOf(list, q) = 0
  BY <1>1, LeftIs DEF On
<1>3. ASSUME NEW i \in 1 .. Len(list), list[i].proc = q PROVE LeftOf(list, q) \in Nat \ {0}
  <2>1. LeftOf(list, q) = Due(list, i)
    BY <1>1, <1>3, LeftIs
  <2>2. Due(list, i) \in Nat
    BY <1>1, DeadlineIs
  <2>3. Due(list, i) > 0
    BY <1>1 DEF Pending
  <2> QED BY <2>1, <2>2, <2>3
<1> QED BY <1>2, <1>3 DEF On

\* A timer that is added runs the ticks it was given, and the others run as before.
LEMMA AddKeeps ==
  ASSUME NEW list, GoodList(list), NEW p \in Sleepers, ~ On(list, p), NEW t \in Nat \ {0},
         NEW new, new = Clock!AddTimer(list, p, t)
  PROVE  /\ GoodList(new) /\ LeftOf(new, p) = t /\ On(new, p)
         /\ \A q : q # p => (On(new, q) <=> On(list, q)) /\ LeftOf(new, q) = LeftOf(list, q)
<1>1. list \in Seq(Timer) /\ Distinct(list) /\ Pending(list)
  BY DEF GoodList
<1>2. PICK k \in 0 .. Len(list) : Added(list, p, t, k, new)
  BY <1>1, AddDoes
<1>a. PICK n \in Nat : n = Len(list)
  BY <1>1
<1>3. /\ new \in Seq(Timer) /\ Len(new) = n + 1
      /\ \A j \in 1 .. k : new[j].proc = list[j].proc /\ Due(new, j) = Due(list, j)
      /\ new[k + 1].proc = p /\ Due(new, k + 1) = t
      /\ \A j \in k + 1 .. n : /\ new[j + 1].proc = list[j].proc
                               /\ Due(new, j + 1) = Due(list, j)
  BY <1>2, <1>a DEF Added
<1>b. k + 1 \in 1 .. n + 1
  BY <1>a
\* Where a timer of the new list was.
<1>4. ASSUME NEW j \in 1 .. n + 1, j # k + 1
      PROVE  \E i \in 1 .. n : /\ i = (IF j <= k THEN j ELSE j - 1)
                               /\ new[j].proc = list[i].proc /\ Due(new, j) = Due(list, i)
  <2>1. CASE j <= k
    <3>1. j \in 1 .. k /\ j \in 1 .. n
      BY <1>a, <2>1
    <3> QED BY <2>1, <3>1, <1>3
  <2>2. CASE ~(j <= k)
    <3>1. PICK i \in k + 1 .. n : i = j - 1
      BY <1>a, <1>4, <2>2
    <3>2. i \in 1 .. n /\ i + 1 = j
      BY <1>a, <3>1
    <3> QED BY <2>2, <3>1, <3>2, <1>3
  <2> QED BY <2>1, <2>2
<1>5. \A i \in 1 .. n : list[i].proc # p
  BY <1>a DEF On
<1>6. Distinct(new)
  <2> SUFFICES ASSUME NEW i \in 1 .. n + 1, NEW j \in 1 .. n + 1, new[i].proc = new[j].proc
               PROVE  i = j
    BY <1>3 DEF Distinct
  <2>0. ASSUME NEW x \in 1 .. n + 1, x # k + 1 PROVE new[x].proc # p
    <3>1. PICK y \in 1 .. n : new[x].proc = list[y].proc
      BY <2>0, <1>4
    <3> QED BY <3>1, <1>5
  <2>1. CASE i = k + 1 \/ j = k + 1
    BY <2>0, <2>1, <1>3
  <2>2. CASE i # k + 1 /\ j # k + 1
    <3>1. PICK x \in 1 .. n : x = (IF i <= k THEN i ELSE i - 1) /\ new[i].proc = list[x].proc
      BY <2>2, <1>4
    <3>2. PICK y \in 1 .. n : y = (IF j <= k THEN j ELSE j - 1) /\ new[j].proc = list[y].proc
      BY <2>2, <1>4
    <3>3. x = y
      <4>1. x \in DOMAIN list /\ y \in DOMAIN list
        BY <1>1, <1>a
      <4>2. list[x].proc = list[y].proc
        BY <3>1, <3>2
      <4> QED BY <4>1, <4>2, <1>1 DEF Distinct
    <3> QED BY <1>a, <2>2, <3>1, <3>2, <3>3
  <2> QED BY <2>1, <2>2
<1>7. Pending(new)
  <2> SUFFICES ASSUME NEW j \in 1 .. n + 1 PROVE Due(new, j) > 0
    BY <1>3 DEF Pending
  <2>1. CASE j = k + 1
    BY <2>1, <1>3
  <2>2. CASE j # k + 1
    BY <2>2, <1>1, <1>4, <1>a DEF Pending
  <2> QED BY <2>1, <2>2
<1>8. GoodList(new)
  BY <1>3, <1>6, <1>7 DEF GoodList
<1>9. LeftOf(new, p) = t /\ On(new, p)
  <2>1. LeftOf(new, p) = Due(new, k + 1)
    BY <1>b, <1>3, <1>6, LeftIs
  <2> QED BY <2>1, <1>b, <1>3 DEF On
<1>10. ASSUME NEW q, q # p
       PROVE  (On(new, q) <=> On(list, q)) /\ LeftOf(new, q) = LeftOf(list, q)
  <2>1. ASSUME NEW i \in 1 .. n, list[i].proc = q
        PROVE  On(new, q) /\ LeftOf(new, q) = LeftOf(list, q)
    <3>1. PICK j \in 1 .. n + 1 : new[j].proc = q /\ Due(new, j) = Due(list, i)
      <4>1. CASE i <= k
        <5>1. i \in 1 .. k /\ i \in 1 .. n + 1
          BY <1>a, <4>1
        <5> QED BY <5>1, <2>1, <1>3
      <4>2. CASE ~(i <= k)
        <5>1. i \in k + 1 .. n /\ i + 1 \in 1 .. n + 1
          BY <1>a, <4>2
        <5> QED BY <5>1, <2>1, <1>3
      <4> QED BY <4>1, <4>2
    <3>2. LeftOf(new, q) = Due(new, j)
      BY <3>1, <1>3, <1>6, LeftIs, SMTT(30)
    <3>3. LeftOf(list, q) = Due(list, i)
      BY <2>1, <1>1, <1>a, LeftIs
    <3>4. On(new, q)
      BY <3>1, <1>3 DEF On
    <3> QED BY <3>1, <3>2, <3>3, <3>4
  <2>2. ASSUME NEW j \in 1 .. n + 1, new[j].proc = q PROVE On(list, q)
    <3>1. j # k + 1
      BY <2>2, <1>10, <1>3
    <3>2. PICK i \in 1 .. n : new[j].proc = list[i].proc
      BY <3>1, <1>4
    <3> QED BY <3>2, <2>2, <1>a DEF On
  <2>3. CASE On(list, q)
    <3>1. PICK i \in 1 .. n : list[i].proc = q
      BY <2>3, <1>a DEF On
    <3> QED BY <3>1, <2>1, <2>3
  <2>4. CASE ~ On(list, q)
    <3>1. ~ On(new, q)
      BY <2>2, <2>4, <1>3 DEF On
    <3> QED BY <3>1, <2>4, <1>8, LeftOrNot
  <2> QED BY <2>3, <2>4
<1> QED BY <1>8, <1>9, <1>10

\* A timer that is deleted is gone, and the others run as before.
LEMMA DelKeeps ==
  ASSUME NEW list, GoodList(list), NEW p, NEW new, new = Clock!DelTimer(list, p)
  PROVE  /\ GoodList(new) /\ ~ On(new, p)
         /\ \A q : q # p => (On(new, q) <=> On(list, q)) /\ LeftOf(new, q) = LeftOf(list, q)
<1>1. list \in Seq(Timer) /\ Distinct(list) /\ Pending(list)
  BY DEF GoodList
<1>2. CASE ~ On(list, p)
  <2>1. Clock!Index(list, p) = 0
    BY <1>1, <1>2, IndexIs DEF On
  <2>2. new = list
    BY <2>1 DEF Clock!DelTimer
  <2> QED BY <1>2, <2>2
<1>3. CASE On(list, p)
  <2>a. PICK n \in Nat : n = Len(list)
    BY <1>1
  <2>1. PICK h \in 1 .. n : list[h].proc = p
    BY <1>3, <2>a DEF On
  <2>2. Clock!Index(list, p) = h
    BY <1>1, <2>a, <2>1, IndexIs
  <2>3. Removed(list, h, new)
    BY <1>1, <2>a, <2>2, DelDoes
  <2>4. /\ new \in Seq(Timer) /\ Len(new) = n - 1
        /\ \A j \in 1 .. h - 1 : new[j].proc = list[j].proc /\ Due(new, j) = Due(list, j)
        /\ \A j \in h .. n - 1 : /\ new[j].proc = list[j + 1].proc
                                 /\ Due(new, j) = Due(list, j + 1)
    BY <2>3, <2>a DEF Removed
  \* Where a timer of the new list was.
  <2>5. ASSUME NEW j \in 1 .. n - 1
        PROVE  \E i \in 1 .. n : /\ i = (IF j < h THEN j ELSE j + 1) /\ i # h
                                 /\ new[j].proc = list[i].proc
                                 /\ Due(new, j) = Due(list, i)
    <3>1. CASE j < h
      <4>1. j \in 1 .. h - 1 /\ j \in 1 .. n /\ j # h
        BY <2>a, <3>1
      <4> QED BY <3>1, <4>1, <2>4
    <3>2. CASE ~(j < h)
      <4>1. j \in h .. n - 1 /\ j + 1 \in 1 .. n /\ j + 1 # h
        BY <2>a, <3>2
      <4> QED BY <3>2, <4>1, <2>4
    <3> QED BY <3>1, <3>2
  <2>6. ASSUME NEW x \in 1 .. n, NEW y \in 1 .. n, list[x].proc = list[y].proc PROVE x = y
    <3>1. x \in DOMAIN list /\ y \in DOMAIN list
      BY <1>1, <2>a
    <3> QED BY <3>1, <2>6, <1>1 DEF Distinct
  <2>7. Distinct(new)
    <3> SUFFICES ASSUME NEW i \in 1 .. n - 1, NEW j \in 1 .. n - 1, new[i].proc = new[j].proc
                 PROVE  i = j
      BY <2>4 DEF Distinct
    <3>1. PICK x \in 1 .. n : x = (IF i < h THEN i ELSE i + 1) /\ new[i].proc = list[x].proc
      BY <2>5
    <3>2. PICK y \in 1 .. n : y = (IF j < h THEN j ELSE j + 1) /\ new[j].proc = list[y].proc
      BY <2>5
    <3>3. x = y
      BY <3>1, <3>2, <2>6
    <3> QED BY <2>a, <3>1, <3>2, <3>3
  <2>8. Pending(new)
    <3> SUFFICES ASSUME NEW j \in 1 .. n - 1 PROVE Due(new, j) > 0
      BY <2>4 DEF Pending
    <3>1. PICK i \in 1 .. n : Due(new, j) = Due(list, i)
      BY <2>5
    <3> QED BY <3>1, <1>1, <2>a DEF Pending
  <2>9. GoodList(new)
    BY <2>4, <2>7, <2>8 DEF GoodList
  <2>10. ~ On(new, p)
    <3>1. ASSUME NEW j \in 1 .. n - 1 PROVE new[j].proc # p
      <4>1. PICK i \in 1 .. n : i # h /\ new[j].proc = list[i].proc
        BY <2>5
      <4> QED BY <4>1, <2>1, <2>6
    <3> QED BY <3>1, <2>4 DEF On
  <2>11. ASSUME NEW q, q # p
         PROVE  (On(new, q) <=> On(list, q)) /\ LeftOf(new, q) = LeftOf(list, q)
    <3>1. ASSUME NEW i \in 1 .. n, list[i].proc = q
          PROVE  On(new, q) /\ LeftOf(new, q) = LeftOf(list, q)
      <4>0. i # h
        BY <2>1, <2>11, <3>1
      <4>1. PICK j \in 1 .. n - 1 : new[j].proc = q /\ Due(new, j) = Due(list, i)
        <5>1. CASE i < h
          <6>1. i \in 1 .. h - 1 /\ i \in 1 .. n - 1
            BY <2>a, <5>1
          <6> QED BY <6>1, <3>1, <2>4
        <5>2. CASE ~(i < h)
          <6>1. PICK j \in h .. n - 1 : j = i - 1
            BY <2>a, <4>0, <5>2
          <6>2. j + 1 = i /\ j \in 1 .. n - 1
            BY <2>a, <6>1
          <6> QED BY <6>1, <6>2, <3>1, <2>4
        <5> QED BY <5>1, <5>2
      <4>2. LeftOf(new, q) = Due(new, j)
        BY <4>1, <2>4, <2>7, LeftIs
      <4>3. LeftOf(list, q) = Due(list, i)
        BY <3>1, <1>1, <2>a, LeftIs
      <4>4. On(new, q)
        BY <4>1, <2>4 DEF On
      <4> QED BY <4>1, <4>2, <4>3, <4>4
    <3>2. ASSUME NEW j \in 1 .. n - 1, new[j].proc = q PROVE On(list, q)
      <4>1. PICK i \in 1 .. n : new[j].proc = list[i].proc
        BY <2>5
      <4> QED BY <4>1, <3>2, <2>a DEF On
    <3>3. CASE On(list, q)
      <4>1. PICK i \in 1 .. n : list[i].proc = q
        BY <3>3, <2>a DEF On
      <4> QED BY <4>1, <3>1, <3>3
    <3>4. CASE ~ On(list, q)
      <4>1. ~ On(new, q)
        BY <3>2, <3>4, <2>4 DEF On
      <4> QED BY <4>1, <3>4, <2>9, LeftOrNot
    <3> QED BY <3>3, <3>4
  <2> QED BY <2>9, <2>10, <2>11
<1> QED BY <1>2, <1>3

\* A tick takes the timers that have one tick left, and one tick of the others.
LEMMA TickKeeps ==
  ASSUME NEW list, GoodList(list), NEW new, new = AfterTick(list)
  PROVE  /\ GoodList(new)
         /\ \A q : LeftOf(new, q) = IF LeftOf(list, q) > 0 THEN LeftOf(list, q) - 1 ELSE 0
         /\ \A q : On(new, q) <=> On(list, q) /\ LeftOf(list, q) # 1
         /\ \A q : q \in {list[i].proc : i \in 1 .. Clock!Expired(list)}
                     <=> On(list, q) /\ LeftOf(list, q) = 1
<1>1. list \in Seq(Timer) /\ Distinct(list) /\ Pending(list)
  BY DEF GoodList
<1>a. PICK len \in Nat : len = Len(list)
  BY <1>1
<1>b. PICK n : n = Clock!Expired(list)
  OBVIOUS
<1>2. Ticked(list, n, new)
  BY <1>1, <1>b, TickDoes
<1>3. /\ n \in 0 .. len /\ new \in Seq(Timer) /\ Len(new) = len - n
      /\ \A j \in 1 .. n : Due(list, j) = 1
      /\ \A j \in n + 1 .. len : /\ Due(list, j) > 1
                                 /\ new[j - n].proc = list[j].proc
                                 /\ Due(new, j - n) = Due(list, j) - 1
  BY <1>2, <1>a DEF Ticked
\* Where a timer of the new list was.
<1>4. ASSUME NEW j \in 1 .. len - n
      PROVE  \E i \in n + 1 .. len : /\ i = j + n /\ i \in 1 .. len
                                     /\ new[j].proc = list[i].proc /\ Due(list, i) > 1
                                     /\ Due(new, j) = Due(list, i) - 1
  <2>1. PICK i \in n + 1 .. len : i = j + n
    BY <1>3
  <2>2. i - n = j /\ i \in 1 .. len
    BY <2>1, <1>3
  <2> QED BY <2>1, <2>2, <1>3
<1>5. ASSUME NEW x \in 1 .. len, NEW y \in 1 .. len, list[x].proc = list[y].proc PROVE x = y
  <2>1. x \in DOMAIN list /\ y \in DOMAIN list
    BY <1>1, <1>a
  <2> QED BY <2>1, <1>5, <1>1 DEF Distinct
<1>6. Distinct(new)
  <2> SUFFICES ASSUME NEW i \in 1 .. len - n, NEW j \in 1 .. len - n, new[i].proc = new[j].proc
               PROVE  i = j
    BY <1>3 DEF Distinct
  <2>1. PICK x \in 1 .. len : x = i + n /\ new[i].proc = list[x].proc
    BY <1>4
  <2>2. PICK y \in 1 .. len : y = j + n /\ new[j].proc = list[y].proc
    BY <1>4
  <2>3. x = y
    BY <2>1, <2>2, <1>5
  <2> QED BY <1>3, <2>1, <2>2, <2>3
<1>7. Pending(new)
  <2> SUFFICES ASSUME NEW j \in 1 .. len - n PROVE Due(new, j) > 0
    BY <1>3 DEF Pending
  <2>1. PICK i \in 1 .. len : Due(list, i) > 1 /\ Due(new, j) = Due(list, i) - 1
    BY <1>4
  <2>2. Due(list, i) \in Nat
    BY <1>1, <1>a, DeadlineIs
  <2> QED BY <2>1, <2>2
<1>8. GoodList(new)
  BY <1>3, <1>6, <1>7 DEF GoodList
<1>9. ASSUME NEW i \in 1 .. len, NEW q, list[i].proc = q
      PROVE  On(list, q) /\ LeftOf(list, q) = Due(list, i)
  BY <1>1, <1>9, <1>a, LeftIs DEF On
\* A process whose timer expires.
<1>10. ASSUME NEW i \in 1 .. n, NEW q, list[i].proc = q
       PROVE  /\ On(list, q) /\ LeftOf(list, q) = 1
              /\ ~ On(new, q) /\ LeftOf(new, q) = 0
  <2>1. i \in 1 .. len
    BY <1>3
  <2>2. On(list, q) /\ LeftOf(list, q) = 1
    BY <2>1, <1>3, <1>9, <1>10
  <2>3. ASSUME NEW j \in 1 .. len - n PROVE new[j].proc # q
    <3>1. PICK x \in 1 .. len : x = j + n /\ new[j].proc = list[x].proc
      BY <1>4
    <3>2. x # i
      BY <3>1, <1>3
    <3> QED BY <3>1, <3>2, <2>1, <1>5, <1>10
  <2>4. ~ On(new, q)
    BY <2>3, <1>3 DEF On
  <2> QED BY <2>2, <2>4, <1>8, LeftOrNot
\* One whose timer goes on.
<1>11. ASSUME NEW i \in n + 1 .. len, NEW q, list[i].proc = q
       PROVE  /\ On(list, q) /\ LeftOf(list, q) > 1 /\ LeftOf(list, q) \in Nat
              /\ On(new, q) /\ LeftOf(new, q) = LeftOf(list, q) - 1
  <2>1. i \in 1 .. len /\ i - n \in 1 .. len - n
    BY <1>3
  <2>2. On(list, q) /\ LeftOf(list, q) = Due(list, i)
    BY <2>1, <1>9, <1>11
  <2>3. /\ Due(list, i) > 1 /\ new[i - n].proc = q
        /\ Due(new, i - n) = Due(list, i) - 1
    BY <1>3, <1>11
  <2>4. On(new, q)
    BY <2>1, <2>3, <1>3 DEF On
  <2>5. LeftOf(new, q) = Due(new, i - n)
    BY <2>1, <2>3, <1>3, <1>6, LeftIs
  <2>6. Due(list, i) \in Nat
    BY <2>1, <1>1, <1>a, DeadlineIs
  <2> QED BY <2>2, <2>3, <2>4, <2>5, <2>6
\* One without a timer.
<1>12. ASSUME NEW q, ~ On(list, q)
       PROVE  LeftOf(list, q) = 0 /\ ~ On(new, q) /\ LeftOf(new, q) = 0
  <2>1. ASSUME NEW j \in 1 .. len - n PROVE new[j].proc # q
    <3>1. PICK x \in 1 .. len : new[j].proc = list[x].proc
      BY <1>4
    <3> QED BY <3>1, <1>a, <1>12 DEF On
  <2>2. ~ On(new, q)
    BY <2>1, <1>3 DEF On
  <2> QED BY <2>2, <1>8, <1>12, LeftOrNot
<1>13. ASSUME NEW q
       PROVE  \/ \E i \in 1 .. n : list[i].proc = q
              \/ \E i \in n + 1 .. len : list[i].proc = q
              \/ ~ On(list, q)
  <2>1. CASE On(list, q)
    <3>1. PICK i \in 1 .. len : list[i].proc = q
      BY <2>1, <1>a DEF On
    <3>2. i \in 1 .. n \/ i \in n + 1 .. len
      BY <1>3
    <3> QED BY <3>1, <3>2
  <2> QED BY <2>1
<1>14. ASSUME NEW q
       PROVE  LeftOf(new, q) = IF LeftOf(list, q) > 0 THEN LeftOf(list, q) - 1 ELSE 0
  <2>1. CASE \E i \in 1 .. n : list[i].proc = q
    BY <2>1, <1>10
  <2>2. CASE \E i \in n + 1 .. len : list[i].proc = q
    BY <2>2, <1>11
  <2>3. CASE ~ On(list, q)
    BY <2>3, <1>12
  <2> QED BY <1>13, <2>1, <2>2, <2>3
<1>15. ASSUME NEW q
       PROVE  On(new, q) <=> On(list, q) /\ LeftOf(list, q) # 1
  <2>1. CASE \E i \in 1 .. n : list[i].proc = q
    BY <2>1, <1>10
  <2>2. CASE \E i \in n + 1 .. len : list[i].proc = q
    <3>1. LeftOf(list, q) # 1 /\ On(list, q) /\ On(new, q)
      BY <2>2, <1>11
    <3> QED BY <3>1
  <2>3. CASE ~ On(list, q)
    BY <2>3, <1>12
  <2> QED BY <1>13, <2>1, <2>2, <2>3
<1>16. ASSUME NEW q
       PROVE  q \in {list[i].proc : i \in 1 .. n} <=> On(list, q) /\ LeftOf(list, q) = 1
  <2>1. CASE \E i \in 1 .. n : list[i].proc = q
    <3>1. q \in {list[i].proc : i \in 1 .. n}
      BY <2>1
    <3>2. On(list, q) /\ LeftOf(list, q) = 1
      BY <2>1, <1>10
    <3> QED BY <3>1, <3>2
  <2>2. CASE ~ \E i \in 1 .. n : list[i].proc = q
    <3>1. q \notin {list[i].proc : i \in 1 .. n}
      BY <2>2
    <3>2. ~(On(list, q) /\ LeftOf(list, q) = 1)
      BY <2>2, <1>11, <1>13
    <3> QED BY <3>1, <3>2
  <2> QED BY <2>1, <2>2
<1> QED BY <1>8, <1>14, <1>15, <1>16, <1>b

-----------------------------------------------------------------------------
\* A process on the list is inside do_sleep(), and one that sleeps is on it.
TimerInv ==
  /\ GoodList(timerList)
  /\ phase \in [Sleepers -> {"awake", "asleep", "woken"}]
  /\ \A p \in Sleepers : /\ On(timerList, p) => phase[p] # "awake"
                         /\ phase[p] = "asleep" => On(timerList, p)

\* At first the list is empty, and nobody sleeps.
LEMMA TimerInit == Clock!Init => TimerInv /\ Clock!Abstract!Init
<1> SUFFICES ASSUME Clock!Init PROVE TimerInv /\ Clock!Abstract!Init
  OBVIOUS
<1>1. timerList = <<>> /\ phase = [p \in Sleepers |-> "awake"]
  BY DEF Clock!Init
<1>2. timerList \in Seq(Timer) /\ Len(timerList) = 0 /\ DOMAIN timerList = {}
  BY <1>1
<1>3. GoodList(timerList)
  BY <1>2 DEF GoodList, Distinct, Pending
<1>4. \A p : ~ On(timerList, p)
  BY <1>2 DEF On
<1>5. TimerInv
  BY <1>1, <1>3, <1>4 DEF TimerInv
<1>6. Clock!Left = [p \in Sleepers |-> 0]
  <2>1. \A p \in Sleepers : LeftOf(timerList, p) = 0
    BY <1>3, <1>4, LeftOrNot
  <2> QED BY <2>1 DEF Clock!Left, LeftOf, Due
<1> QED BY <1>1, <1>5, <1>6 DEF Clock!Abstract!Init

\* What is left of a process is what is left of its timer.
LEMMA LeftAt ==
  /\ Clock!Left = [p \in Sleepers |-> LeftOf(timerList, p)]
  /\ Clock!Left' = [p \in Sleepers |-> LeftOf(timerList', p)]
  BY DEF Clock!Left, LeftOf, Due

\* A sleep starts with the ticks it was asked for.
LEMMA SleepMaps ==
  ASSUME TimerInv, NEW p \in Sleepers, Clock!Sleep(p)
  PROVE  TimerInv' /\ Clock!Abstract!Sleep(p)
<1>1. /\ GoodList(timerList) /\ phase \in [Sleepers -> {"awake", "asleep", "woken"}]
      /\ \A q \in Sleepers : /\ On(timerList, q) => phase[q] # "awake"
                             /\ phase[q] = "asleep" => On(timerList, q)
  BY DEF TimerInv
<1>2. phase[p] = "awake" /\ phase' = [phase EXCEPT ![p] = "asleep"]
  BY DEF Clock!Sleep
<1>3. PICK t \in 1 .. MaxSleep : timerList' = Clock!AddTimer(timerList, p, t)
  BY DEF Clock!Sleep
<1>4. t \in Nat \ {0} /\ ~ On(timerList, p)
  BY <1>1, <1>2, <1>3
<1>5. /\ GoodList(timerList') /\ LeftOf(timerList', p) = t /\ On(timerList', p)
      /\ \A q : q # p => /\ On(timerList', q) <=> On(timerList, q)
                         /\ LeftOf(timerList', q) = LeftOf(timerList, q)
  BY <1>1, <1>3, <1>4, AddKeeps
<1>6. \A q \in Sleepers : phase'[q] = IF q = p THEN "asleep" ELSE phase[q]
  BY <1>1, <1>2
<1>7. phase' \in [Sleepers -> {"awake", "asleep", "woken"}]
  BY <1>1, <1>2
<1>8. TimerInv'
  BY <1>1, <1>5, <1>6, <1>7 DEF TimerInv
<1>9. Clock!Left' = [Clock!Left EXCEPT ![p] = t]
  BY <1>5, LeftAt
<1> QED BY <1>2, <1>3, <1>8, <1>9 DEF Clock!Abstract!Sleep

\* do_kill() leaves the timer of the process it wakes on the list.
LEMMA InterruptMaps ==
  ASSUME TimerInv, NEW p \in Sleepers, Clock!Interrupt(p)
  PROVE  TimerInv' /\ Clock!Abstract!Interrupt(p)
<1>1. /\ GoodList(timerList) /\ phase \in [Sleepers -> {"awake", "asleep", "woken"}]
      /\ \A q \in Sleepers : /\ On(timerList, q) => phase[q] # "awake"
                             /\ phase[q] = "asleep" => On(timerList, q)
  BY DEF TimerInv
<1>2. /\ phase[p] = "asleep" /\ phase' = [phase EXCEPT ![p] = "woken"]
      /\ timerList' = timerList
  BY DEF Clock!Interrupt
<1>3. \A q \in Sleepers : phase'[q] = IF q = p THEN "woken" ELSE phase[q]
  BY <1>1, <1>2
<1>4. phase' \in [Sleepers -> {"awake", "asleep", "woken"}]
  BY <1>1, <1>2
<1>5. TimerInv'
  BY <1>1, <1>2, <1>3, <1>4 DEF TimerInv
<1>6. Clock!Left' = Clock!Left
  BY <1>2, LeftAt
<1> QED BY <1>2, <1>5, <1>6 DEF Clock!Abstract!Interrupt

\* A process that comes back takes its timer off the list, if the tick has not.
LEMMA ResumeMaps ==
  ASSUME TimerInv, NEW p \in Sleepers, Clock!Resume(p)
  PROVE  TimerInv' /\ Clock!Abstract!Resume(p)
<1>1. /\ GoodList(timerList) /\ phase \in [Sleepers -> {"awake", "asleep", "woken"}]
      /\ \A q \in Sleepers : /\ On(timerList, q) => phase[q] # "awake"
                             /\ phase[q] = "asleep" => On(timerList, q)
  BY DEF TimerInv
<1>2. /\ phase[p] = "woken" /\ phase' = [phase EXCEPT ![p] = "awake"]
      /\ timerList' = Clock!DelTimer(timerList, p)
  BY DEF Clock!Resume
<1>3. /\ GoodList(timerList') /\ ~ On(timerList', p)
      /\ \A q : q # p => /\ On(timerList', q) <=> On(timerList, q)
                         /\ LeftOf(timerList', q) = LeftOf(timerList, q)
  BY <1>1, <1>2, DelKeeps
<1>4. \A q \in Sleepers : phase'[q] = IF q = p THEN "awake" ELSE phase[q]
  BY <1>1, <1>2
<1>5. phase' \in [Sleepers -> {"awake", "asleep", "woken"}]
  BY <1>1, <1>2
<1>6. TimerInv'
  BY <1>1, <1>3, <1>4, <1>5 DEF TimerInv
<1>7. LeftOf(timerList', p) = 0
  BY <1>3, LeftOrNot
<1>8. Clock!Left' = [Clock!Left EXCEPT ![p] = 0]
  BY <1>3, <1>7, LeftAt
<1> QED BY <1>2, <1>6, <1>8 DEF Clock!Abstract!Resume

\* A tick wakes the processes whose timers expire, and no other.
LEMMA TickMaps ==
  ASSUME TimerInv, Clock!Tick
  PROVE  TimerInv' /\ Clock!Abstract!Tick
<1>1. /\ GoodList(timerList) /\ phase \in [Sleepers -> {"awake", "asleep", "woken"}]
      /\ \A q \in Sleepers : /\ On(timerList, q) => phase[q] # "awake"
                             /\ phase[q] = "asleep" => On(timerList, q)
  BY DEF TimerInv
<1>a. PICK fired : fired = {timerList[i].proc : i \in 1 .. Clock!Expired(timerList)}
  OBVIOUS
<1>2. timerList' = AfterTick(timerList)
  BY Zenon DEF Clock!Tick, AfterTick
<1>3. phase' = [q \in Sleepers |-> IF q \in fired THEN "woken" ELSE phase[q]]
  BY <1>a, Zenon DEF Clock!Tick
<1>4. /\ GoodList(timerList')
      /\ \A q : LeftOf(timerList', q)
                  = IF LeftOf(timerList, q) > 0 THEN LeftOf(timerList, q) - 1 ELSE 0
      /\ \A q : On(timerList', q) <=> On(timerList, q) /\ LeftOf(timerList, q) # 1
      /\ \A q : q \in fired <=> On(timerList, q) /\ LeftOf(timerList, q) = 1
  BY <1>1, <1>2, <1>a, TickKeeps
<1>5. \A q \in Sleepers : phase[q] \in {"awake", "asleep", "woken"}
  BY <1>1
<1>6. phase' \in [Sleepers -> {"awake", "asleep", "woken"}]
  BY <1>3, <1>5
<1>7. ASSUME NEW q \in Sleepers
      PROVE  /\ On(timerList', q) => phase'[q] # "awake"
             /\ phase'[q] = "asleep" => On(timerList', q)
  <2>1. CASE q \in fired
    <3>1. phase'[q] = "woken"
      BY <2>1, <1>3
    <3> QED BY <3>1
  <2>2. CASE q \notin fired
    <3>1. phase'[q] = phase[q]
      BY <2>2, <1>3
    <3>2. On(timerList', q) <=> On(timerList, q)
      BY <2>2, <1>4
    <3> QED BY <3>1, <3>2, <1>1
  <2> QED BY <2>1, <2>2
<1>8. TimerInv'
  BY <1>4, <1>6, <1>7 DEF TimerInv
<1>9. Clock!Left'
        = [q \in Sleepers |-> IF Clock!Left[q] > 0 THEN Clock!Left[q] - 1 ELSE 0]
  BY <1>4, LeftAt
<1>10. phase' = [q \in Sleepers |-> IF phase[q] = "asleep" /\ Clock!Left[q] = 1
                                    THEN "woken" ELSE phase[q]]
  <2>1. ASSUME NEW q \in Sleepers
        PROVE  (IF q \in fired THEN "woken" ELSE phase[q])
                 = IF phase[q] = "asleep" /\ Clock!Left[q] = 1 THEN "woken" ELSE phase[q]
    <3>1. Clock!Left[q] = LeftOf(timerList, q)
      BY LeftAt
    <3>2. CASE q \in fired
      <4>1. On(timerList, q) /\ Clock!Left[q] = 1
        BY <3>1, <3>2, <1>4
      <4>2. phase[q] # "awake"
        BY <4>1, <1>1
      <4> QED BY <3>2, <4>1, <4>2, <1>5
    <3>3. CASE q \notin fired
      <4>1. ~(phase[q] = "asleep" /\ Clock!Left[q] = 1)
        BY <3>1, <3>3, <1>1, <1>4
      <4> QED BY <3>3, <4>1
    <3> QED BY <3>2, <3>3
  <2> QED BY <1>3, <2>1
<1> QED BY <1>8, <1>9, <1>10 DEF Clock!Abstract!Tick

\* Every step of the list maps to a step of the abstract timers, or to none.
LEMMA TimerStep ==
  TimerInv /\ [Clock!Next]_(Clock!vars)
    => TimerInv' /\ [Clock!Abstract!Next]_(Clock!Abstract!timersVars)
<1> SUFFICES ASSUME TimerInv, [Clock!Next]_(Clock!vars)
             PROVE  TimerInv' /\ [Clock!Abstract!Next]_(Clock!Abstract!timersVars)
  OBVIOUS
<1>1. CASE Clock!Tick
  BY <1>1, TickMaps DEF Clock!Abstract!Next
<1>2. ASSUME NEW p \in Sleepers, Clock!Sleep(p)
      PROVE  TimerInv' /\ Clock!Abstract!Next
  BY <1>2, SleepMaps DEF Clock!Abstract!Next
<1>3. ASSUME NEW p \in Sleepers, Clock!Interrupt(p)
      PROVE  TimerInv' /\ Clock!Abstract!Next
  BY <1>3, InterruptMaps DEF Clock!Abstract!Next
<1>4. ASSUME NEW p \in Sleepers, Clock!Resume(p)
      PROVE  TimerInv' /\ Clock!Abstract!Next
  BY <1>4, ResumeMaps DEF Clock!Abstract!Next
<1>5. CASE UNCHANGED Clock!vars
  <2>1. timerList' = timerList /\ phase' = phase
    BY <1>5 DEF Clock!vars
  <2>2. TimerInv'
    BY <2>1 DEF TimerInv
  <2>3. Clock!Left' = Clock!Left
    BY <2>1, LeftAt
  <2> QED BY <2>1, <2>2, <2>3 DEF Clock!Abstract!timersVars
<1> QED BY <1>1, <1>2, <1>3, <1>4, <1>5 DEF Clock!Next
=============================================================================
