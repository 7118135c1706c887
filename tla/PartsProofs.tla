----------------------------- MODULE PartsProofs -----------------------------
(***************************************************************************)
(* Proofs about the components that MCParts checks.  That get_pid() gives  *)
(* a pid no process has is proved here: WindowClear is what makes FreshPid *)
(* inductive, as the fast path of get_pid() does not look at the list at   *)
(* all.  The invariants of page lists and of sibling links are carried     *)
(* over from PageProofs and KinProofs, and so is the refinement of Timers:  *)
(* a component that rests keeps its state, and one that moves does nothing *)
(* else.                                                                   *)
(***************************************************************************)
EXTENDS MCParts, Sequences, TLAPS

-----------------------------------------------------------------------------
(* Pids. *)

Inv == TypeOK /\ WindowClear /\ FreshPid /\ (pc = "rest" => seen = {})

\* A new scan starts with nothing to hold against its candidate.
LEMMA RescanKeepsInv ==
  ASSUME TypeOK, NEW pid \in 1 .. MAX_PID - 1, Rescan(pid), live' = live
  PROVE  Inv'
  BY PidAssumption DEF Rescan, TypeOK, Inv, WindowClear, FreshPid, Clear, Pid

\* Every step of the allocator keeps the invariant.
LEMMA NextKeepsInv == Inv /\ [Next]_vars => Inv'
<1> SUFFICES ASSUME Inv, [Next]_vars PROVE Inv'
  OBVIOUS
<1> USE PidAssumption DEF Inv, TypeOK, WindowClear, FreshPid, Clear, Pid
<1>1. CASE Enter
  <2>1. CASE lastPid + 1 >= MAX_PID /\ Rescan(1)
    BY <1>1, <2>1, RescanKeepsInv DEF Enter
  <2>2. CASE lastPid + 1 < MAX_PID /\ Rescan(lastPid + 1)
    BY <1>1, <2>2, RescanKeepsInv DEF Enter
  <2>3. CASE /\ lastPid + 1 < MAX_PID /\ lastPid + 1 < nextSafe
             /\ lastPid' = lastPid + 1 /\ pc' = "return"
             /\ UNCHANGED <<live, nextSafe, seen>>
    BY <1>1, <2>3 DEF Enter
  <2> QED BY <1>1, <2>1, <2>2, <2>3 DEF Enter
<1>2. CASE Scan
  <2>1. PICK q \in live \ seen : Taken(q) \/ Other(q)
    BY <1>2 DEF Scan
  <2>2. pc = "scan" /\ live' = live
    BY <1>2 DEF Scan
  <2>3. CASE q = lastPid /\ q + 1 >= nextSafe /\ q + 1 < MAX_PID /\ Rescan(q + 1)
    BY <2>2, <2>3, RescanKeepsInv
  <2>4. CASE q = lastPid /\ q + 1 >= nextSafe /\ q + 1 >= MAX_PID /\ Rescan(1)
    BY <2>2, <2>4, RescanKeepsInv
  <2>5. CASE /\ q = lastPid /\ q + 1 < nextSafe
             /\ lastPid' = q + 1 /\ seen' = seen \cup {q}
             /\ UNCHANGED <<nextSafe, pc>>
    BY <2>2, <2>5
  <2>6. CASE Other(q)
    BY <2>2, <2>6 DEF Other
  <2> QED BY <2>1, <2>3, <2>4, <2>5, <2>6 DEF Taken
<1>3. CASE ScanEnds
  BY <1>3 DEF ScanEnds
<1>4. CASE Fork
  BY <1>4 DEF Fork
<1>5. CASE Reap
  BY <1>5 DEF Reap
<1>6. CASE UNCHANGED vars
  BY <1>6 DEF vars
<1> QED BY <1>1, <1>2, <1>3, <1>4, <1>5, <1>6 DEF Next, GetPid

\* The invariant holds from the first call of get_pid() on.
THEOREM InvHolds == Spec => []Inv
<1>1. Init => Inv
  BY PidAssumption DEF Init, Inv, TypeOK, WindowClear, FreshPid, Clear, Pid
<1> QED BY <1>1, NextKeepsInv, PTL DEF Spec

\* A pid that get_pid() returns belongs to no process and is a valid pid
\* (proc.c, get_pid).
THEOREM PidsAreFresh == Spec => []FreshPid
<1>1. Inv => FreshPid
  BY DEF Inv
<1> QED BY <1>1, InvHolds, PTL

\* Between calls no live pid lies between last_pid and next_safe, and a scan
\* knows this of the entries it has passed (proc.c, get_pid).
THEOREM WindowIsClear == Spec => []WindowClear
<1>1. Inv => WindowClear
  BY DEF Inv
<1> QED BY <1>1, InvHolds, PTL

-----------------------------------------------------------------------------
(* Timers. *)

Kin == INSTANCE KinProofs WITH MaxProcs <- KinProcs

\* The timers start, move and rest as those of TimerPart do,
LEMMA SameTimerInit == TimerPart!Init <=> Kin!Clock!Init
  BY Zenon DEF TimerPart!Init, Kin!Clock!Init

\* with the same operations,
LEMMA SameTimerNext == TimerPart!Next <=> Kin!Clock!Next
<1>1. \A list, i : TimerPart!Deadline(list, i) = Kin!Clock!Deadline(list, i)
  BY Zenon DEF TimerPart!Deadline, Kin!Clock!Deadline
<1>2. \A list, i, d : TimerPart!Shift(list, i, d) = Kin!Clock!Shift(list, i, d)
  BY Zenon DEF TimerPart!Shift, Kin!Clock!Shift
<1>3. \A list, p : TimerPart!Index(list, p) = Kin!Clock!Index(list, p)
  BY Zenon DEF TimerPart!Index, Kin!Clock!Index, TimerPart!SelectInSeq,
       Kin!Clock!SelectInSeq, TimerPart!Min, Kin!Clock!Min
<1>4. \A list, p : TimerPart!DelTimer(list, p) = Kin!Clock!DelTimer(list, p)
  BY <1>2, <1>3, Zenon DEF TimerPart!DelTimer, Kin!Clock!DelTimer, TimerPart!RemoveAt,
     Kin!Clock!RemoveAt
<1>5. \A list, p, t : TimerPart!AddTimer(list, p, t) = Kin!Clock!AddTimer(list, p, t)
  <2> TAKE list, p, t
  <2>a. PICK k : k = TimerPart!Cardinality({i \in DOMAIN list :
                                              TimerPart!Deadline(list, i) <= t})
    OBVIOUS
  <2>1. {i \in DOMAIN list : TimerPart!Deadline(list, i) <= t}
          = {i \in DOMAIN list : Kin!Clock!Deadline(list, i) <= t}
    BY <1>1, Zenon
  <2>2. \A U : TimerPart!Cardinality(U) = Kin!Clock!Cardinality(U)
    BY Zenon DEF TimerPart!Cardinality, Kin!Clock!Cardinality
  <2>3. k = Kin!Clock!Cardinality({i \in DOMAIN list : Kin!Clock!Deadline(list, i) <= t})
    BY <2>a, <2>1, <2>2, Zenon
  <2>4. \A s, i, e : TimerPart!InsertAt(s, i, e) = Kin!Clock!InsertAt(s, i, e)
    BY Zenon DEF TimerPart!InsertAt, Kin!Clock!InsertAt
  <2>b. PICK rest : rest = t - TimerPart!Deadline(list, k)
    OBVIOUS
  <2>c. PICK m : m = TimerPart!Shift(list, k + 1, -rest)
    OBVIOUS
  <2>5. TimerPart!AddTimer(list, p, t)
          = TimerPart!InsertAt(m, k + 1, [proc |-> p, expires |-> rest])
    BY <2>a, <2>b, <2>c, Zenon DEF TimerPart!AddTimer
  <2>6. rest = t - Kin!Clock!Deadline(list, k) /\ m = Kin!Clock!Shift(list, k + 1, -rest)
    BY <2>b, <2>c, <1>1, <1>2, Zenon
  <2>7. Kin!Clock!AddTimer(list, p, t)
          = Kin!Clock!InsertAt(m, k + 1, [proc |-> p, expires |-> rest])
    BY <2>3, <2>6, Zenon DEF Kin!Clock!AddTimer
  <2> QED BY <2>4, <2>5, <2>7, Zenon
<1>6. \A list : TimerPart!Expired(list) = Kin!Clock!Expired(list)
  BY <1>1, Zenon DEF TimerPart!Expired, Kin!Clock!Expired, TimerPart!Cardinality,
     Kin!Clock!Cardinality
<1>7. TimerPart!Tick <=> Kin!Clock!Tick
  BY <1>2, <1>6, Zenon DEF TimerPart!Tick, Kin!Clock!Tick
<1> QED BY <1>4, <1>5, <1>7, Zenon DEF TimerPart!Next, Kin!Clock!Next, TimerPart!Sleep,
     Kin!Clock!Sleep, TimerPart!Interrupt, Kin!Clock!Interrupt, TimerPart!Resume,
     Kin!Clock!Resume

\* the same promise,
LEMMA SameTimerPromise ==
  /\ TimerPart!Abstract!Init <=> Kin!Clock!Abstract!Init
  /\ TimerPart!Abstract!Next <=> Kin!Clock!Abstract!Next
  /\ TimerPart!Left = Kin!Clock!Left
  /\ TimerPart!Left' = Kin!Clock!Left'
<1>1. \A list, i : TimerPart!Deadline(list, i) = Kin!Clock!Deadline(list, i)
  BY Zenon DEF TimerPart!Deadline, Kin!Clock!Deadline
<1>2. \A list, p : TimerPart!Index(list, p) = Kin!Clock!Index(list, p)
  BY Zenon DEF TimerPart!Index, Kin!Clock!Index, TimerPart!SelectInSeq,
       Kin!Clock!SelectInSeq, TimerPart!Min, Kin!Clock!Min
<1>3. TimerPart!Left = Kin!Clock!Left /\ TimerPart!Left' = Kin!Clock!Left'
  BY <1>1, <1>2, Zenon DEF TimerPart!Left, Kin!Clock!Left
<1>4. TimerPart!Abstract!Init <=> Kin!Clock!Abstract!Init
  BY <1>3, Zenon DEF TimerPart!Abstract!Init, Kin!Clock!Abstract!Init
<1>5. TimerPart!Abstract!Next <=> Kin!Clock!Abstract!Next
  BY <1>3, Zenon DEF TimerPart!Abstract!Next, Kin!Clock!Abstract!Next,
     TimerPart!Abstract!Sleep, Kin!Clock!Abstract!Sleep, TimerPart!Abstract!Interrupt,
     Kin!Clock!Abstract!Interrupt, TimerPart!Abstract!Resume, Kin!Clock!Abstract!Resume,
     TimerPart!Abstract!Tick, Kin!Clock!Abstract!Tick
<1> QED BY <1>3, <1>4, <1>5

\* The list keeps the promise of do_sleep(): a process sleeps for the ticks it asked for,
\* whatever timers are added, deleted or interrupted in front of its own; for any number of
\* processes and ticks (sched.c, add_timer, del_timer, run_timer_list).
THEOREM TimersAreKept == PartsSpec => ImplementsTimers
<1>1. PartsInit => Kin!TimerInv /\ TimerPart!Abstract!Init
  BY Kin!TimerInit, SameTimerInit, SameTimerPromise DEF PartsInit
<1>2. Kin!TimerInv /\ [PartsNext]_partsVars
        => Kin!TimerInv' /\ [TimerPart!Abstract!Next]_(TimerPart!Abstract!timersVars)
  <2> SUFFICES ASSUME Kin!TimerInv, [PartsNext]_partsVars
               PROVE  Kin!TimerInv' /\ [TimerPart!Abstract!Next]_(TimerPart!Abstract!timersVars)
    OBVIOUS
  <2>1. [TimerPart!Next]_timerVars
    BY DEF PartsNext, partsVars, Processes
  <2>2. [Kin!Clock!Next]_(Kin!Clock!vars)
    BY <2>1, SameTimerNext DEF timerVars, Kin!Clock!vars
  <2>3. Kin!TimerInv' /\ [Kin!Clock!Abstract!Next]_(Kin!Clock!Abstract!timersVars)
    BY <2>2, Kin!TimerStep
  <2> QED BY <2>3, SameTimerPromise DEF TimerPart!Abstract!timersVars, Kin!Clock!Abstract!timersVars
<1>3. PartsSpec => TimerPart!Abstract!Spec
  BY <1>1, <1>2, PTL DEF PartsSpec, TimerPart!Abstract!Spec
<1> QED BY <1>3 DEF ImplementsTimers, TimerPart!ImplementsTimers

-----------------------------------------------------------------------------
(* Page lists and sibling links. *)

Pg == INSTANCE PageProofs WITH N <- FitPages, AmpleMemory <- TRUE

\* A module's definitions mean the same wherever it is used.  The lemmas up to SameKinExact
\* say so of BestPart and Pg, and of KinPart and Kin: the constants are in order.
LEMMA SameConstantsOK == BestPart!ConstantsOK <=> Pg!ConstantsOK
  BY Zenon DEF BestPart!ConstantsOK, Pg!ConstantsOK

\* Memory is set up in the same way.
LEMMA SameInit == BestPart!Init <=> Pg!Init
  BY Zenon DEF BestPart!Init, Pg!Init, BestPart!Pages, Pg!Pages, BestPart!FreeList,
       Pg!FreeList

\* First fit chooses the same block.
LEMMA SameFirstWithRoom ==
  \A n : BestPart!FirstWithRoom(n) = Pg!FirstWithRoom(n)
  BY Zenon DEF BestPart!FirstWithRoom, Pg!FirstWithRoom, BestPart!Chain, Pg!Chain,
       BestPart!FreeList, Pg!FreeList, BestPart!Min, Pg!Min

\* So does best fit.
LEMMA SameBestWithRoom ==
  \A n : BestPart!BestWithRoom(n) = Pg!BestWithRoom(n)
  BY Zenon DEF BestPart!BestWithRoom, Pg!BestWithRoom, BestPart!Chain, Pg!Chain,
       BestPart!FreeList, Pg!FreeList, BestPart!Min, Pg!Min

\* Pages are taken from it in the same way.
LEMMA SameAllocFrom ==
  \A page, n : BestPart!AllocFrom(page, n) <=> Pg!AllocFrom(page, n)
  BY Zenon DEF BestPart!AllocFrom, Pg!AllocFrom, BestPart!Remainder, Pg!Remainder,
       BestPart!Pages, Pg!Pages, BestPart!ListInsert, Pg!ListInsert, BestPart!ListAdd,
       Pg!ListAdd, BestPart!ListAddBefore, Pg!ListAddBefore, BestPart!ListDel, Pg!ListDel,
       BestPart!FreeList, Pg!FreeList

\* The list is gone through in the same way.
LEMMA SameChain ==
  \A l : BestPart!Chain(l) = Pg!Chain(l)
  BY Zenon DEF BestPart!Chain, Pg!Chain, BestPart!FreeList, Pg!FreeList, BestPart!Min,
       Pg!Min

\* A freed block is linked in the same way.
LEMMA SameLinked ==
  ASSUME NEW l, NEW base
  PROVE  BestPart!Linked(l, base) = Pg!Linked(l, base)
<1>1. BestPart!Chain(l) = Pg!Chain(l)
  BY SameChain
<1>2. \A T : BestPart!Min(T) = Pg!Min(T)
  BY Zenon DEF BestPart!Min, Pg!Min
<1>3. \A m, e : BestPart!ListAdd(m, BestPart!FreeList, e) = Pg!ListAdd(m, Pg!FreeList, e)
  BY Zenon DEF BestPart!ListAdd, Pg!ListAdd, BestPart!ListInsert, Pg!ListInsert,
     BestPart!FreeList, Pg!FreeList
<1>4. \A m, d, e : BestPart!ListAdd(m, d, e) = Pg!ListAdd(m, d, e)
  BY Zenon DEF BestPart!ListAdd, Pg!ListAdd, BestPart!ListInsert, Pg!ListInsert
<1>5. \A m, d, e : BestPart!ListAddBefore(m, d, e) = Pg!ListAddBefore(m, d, e)
  BY Zenon DEF BestPart!ListAddBefore, Pg!ListAddBefore, BestPart!ListInsert, Pg!ListInsert
<1> QED BY <1>1, <1>2, <1>3, <1>4, <1>5 DEF BestPart!Linked, Pg!Linked

\* It is joined with the one in front of it in the same way.
LEMMA SameMergedPrev ==
  \A s, base : BestPart!MergedPrev(s, base) = Pg!MergedPrev(s, base)
  BY Zenon DEF BestPart!MergedPrev, Pg!MergedPrev, BestPart!Joined, Pg!Joined,
       BestPart!Adjacent, Pg!Adjacent, BestPart!ListInsert, Pg!ListInsert, BestPart!ListAdd,
       Pg!ListAdd, BestPart!ListAddBefore, Pg!ListAddBefore, BestPart!ListDel, Pg!ListDel,
       BestPart!FreeList, Pg!FreeList

\* And with the one behind it.
LEMMA SameMergedNext ==
  \A s, base : BestPart!MergedNext(s, base) = Pg!MergedNext(s, base)
  BY Zenon DEF BestPart!MergedNext, Pg!MergedNext, BestPart!Joined, Pg!Joined,
       BestPart!Adjacent, Pg!Adjacent, BestPart!ListInsert, Pg!ListInsert, BestPart!ListAdd,
       Pg!ListAdd, BestPart!ListAddBefore, Pg!ListAddBefore, BestPart!ListDel, Pg!ListDel,
       BestPart!FreeList, Pg!FreeList

\* So pages are freed in the same way.
LEMMA SameFree ==
  ASSUME NEW base, NEW n
  PROVE  BestPart!Free(base, n) <=> Pg!Free(base, n)
<1>1. BestPart!Linked(links, base) = Pg!Linked(links, base)
  BY SameLinked
<1> QED BY <1>1, SameMergedPrev, SameMergedNext
        DEF BestPart!Free, Pg!Free, BestPart!Pages, Pg!Pages

\* The operations of first fit are the same.
LEMMA SameNext == BestPart!Next <=> Pg!Next
  BY SameFirstWithRoom, SameAllocFrom, SameFree, Zenon
     DEF BestPart!Alloc, Pg!Alloc, BestPart!Next, Pg!Next, BestPart!Pages, Pg!Pages

\* So are those of best fit.
LEMMA SameBestNext == BestPart!BestNext <=> Pg!BestNext
  BY SameBestWithRoom, SameAllocFrom, SameFree, Zenon
     DEF BestPart!BestAlloc, Pg!BestAlloc, BestPart!BestNext, Pg!BestNext,
         BestPart!BestFree, Pg!BestFree, BestPart!Pages, Pg!Pages

\* The list is exact for both, or for none.
LEMMA SameListExact == BestPart!ListExact <=> Pg!ListExact
  BY Zenon DEF BestPart!ListExact, Pg!ListExact, BestPart!Chain, Pg!Chain,
       BestPart!FreeList, Pg!FreeList, BestPart!Pages, Pg!Pages, BestPart!Min, Pg!Min,
       BestPart!RunStarts, Pg!RunStarts, BestPart!FreePages, Pg!FreePages,
       BestPart!Cardinality, Pg!Cardinality

\* The choice of first fit is exact for both, or for none.
LEMMA SameAllocExact == BestPart!AllocExact <=> Pg!AllocExact
  BY Zenon DEF BestPart!AllocExact, Pg!AllocExact, BestPart!FirstWithRoom, Pg!FirstWithRoom,
       BestPart!LowestRun, Pg!LowestRun, BestPart!Chain, Pg!Chain, BestPart!FreeList,
       Pg!FreeList, BestPart!Pages, Pg!Pages, BestPart!Min, Pg!Min, BestPart!FreePages,
       Pg!FreePages

\* And the choice of best fit.
LEMMA SameBestExact == BestPart!BestExact <=> Pg!BestExact
  BY Zenon DEF BestPart!BestExact, Pg!BestExact, BestPart!BestWithRoom, Pg!BestWithRoom,
       BestPart!ShortestRun, Pg!ShortestRun, BestPart!Length, Pg!Length, BestPart!RunStarts,
       Pg!RunStarts, BestPart!Chain, Pg!Chain, BestPart!FreeList, Pg!FreeList,
       BestPart!Pages, Pg!Pages, BestPart!Min, Pg!Min, BestPart!Max, Pg!Max,
       BestPart!FreePages, Pg!FreePages

\* KinPart and Kin have the same number of processes,
LEMMA SameKinConstantsOK == KinPart!ConstantsOK <=> Kin!ConstantsOK
  BY Zenon DEF KinPart!ConstantsOK, Kin!ConstantsOK

\* the same beginning,
LEMMA SameKinInit == KinPart!Init <=> Kin!Init
  BY Zenon DEF KinPart!Init, Kin!Init, KinPart!Procs, Kin!Procs, KinPart!NULL, Kin!NULL

\* the same operations,
LEMMA SameKinNext == KinPart!Next <=> Kin!Next
  BY Zenon DEF KinPart!Next, Kin!Next, KinPart!Fork, Kin!Fork, KinPart!Exit, Kin!Exit,
       KinPart!Reap, Kin!Reap, KinPart!Living, Kin!Living, KinPart!Exists, Kin!Exists,
       KinPart!Settle, Kin!Settle, KinPart!Links, Kin!Links, KinPart!HandedOver,
       Kin!HandedOver, KinPart!Adopted, Kin!Adopted, KinPart!Unlinked, Kin!Unlinked,
       KinPart!FirstZombie, Kin!FirstZombie, KinPart!Chain, Kin!Chain, KinPart!NULL, Kin!NULL,
       KinPart!InitProc, Kin!InitProc, KinPart!Procs, Kin!Procs, KinPart!Min, Kin!Min

\* and links that are exact for both, or for none.
LEMMA SameKinExact == KinPart!KinExact <=> Kin!KinExact
  BY Zenon DEF KinPart!KinExact, Kin!KinExact, KinPart!Children, Kin!Children, KinPart!Chain,
       Kin!Chain, KinPart!Links, Kin!Links, KinPart!Living, Kin!Living, KinPart!Exists,
       Kin!Exists, KinPart!FirstZombie, Kin!FirstZombie, KinPart!NULL, Kin!NULL,
       KinPart!InitProc, Kin!InitProc, KinPart!Procs, Kin!Procs, KinPart!Min, Kin!Min,
       KinPart!Cardinality, Kin!Cardinality

\* What the invariants of the two components are while they move.
FitMoves == part \in {"first", "best"} => Pg!FitInv
KinMoves == part = "kin" => Kin!KinInv

\* A step of first or best fit, or none.
LEMMA FitSteps ==
  ASSUME FitMoves, [PartsNext]_partsVars
  PROVE  FitMoves'
<1> SUFFICES ASSUME part' \in {"first", "best"} PROVE Pg!FitInv'
  BY DEF FitMoves
<1>1. Pg!ConstantsOK
  BY MCPartsAssumption, SameConstantsOK
<1>2. part' = part
  BY DEF PartsNext, partsVars
<1>3. Pg!FitInv
  BY <1>2 DEF FitMoves
<1>4. CASE UNCHANGED partsVars
  <2>1. UNCHANGED Pg!vars
    BY <1>4 DEF partsVars, Pages, pageVars, Pg!vars
  <2> QED BY <1>1, <1>3, <2>1, Pg!FirstFitKeeps
<1>5. CASE PartsNext /\ part = "first"
  <2>1. BestPart!Next
    BY <1>5 DEF PartsNext
  <2> QED BY <1>1, <1>3, <2>1, SameNext, Pg!FirstFitKeeps
<1>6. CASE PartsNext /\ part = "best"
  <2>1. BestPart!BestNext
    BY <1>6 DEF PartsNext
  <2> QED BY <1>1, <1>3, <2>1, SameBestNext, Pg!BestFitKeeps
<1> QED BY <1>2, <1>4, <1>5, <1>6

\* A step of the processes, or none.
LEMMA KinSteps ==
  ASSUME KinMoves, [PartsNext]_partsVars
  PROVE  KinMoves'
<1> SUFFICES ASSUME part' = "kin" PROVE Kin!KinInv'
  BY DEF KinMoves
<1>1. Kin!ConstantsOK
  BY MCPartsAssumption, SameKinConstantsOK
<1>2. part' = part
  BY DEF PartsNext, partsVars
<1>3. Kin!KinInv
  BY <1>2 DEF KinMoves
<1>4. CASE UNCHANGED partsVars
  <2>1. UNCHANGED Kin!vars
    BY <1>4 DEF partsVars, Processes, kinVars, Kin!vars
  <2> QED BY <1>1, <1>3, <2>1, Kin!KinKept
<1>5. CASE PartsNext
  <2>1. KinPart!Next
    BY <1>2, <1>5 DEF PartsNext
  <2> QED BY <1>1, <1>3, <2>1, SameKinNext, Kin!KinKept
<1> QED BY <1>4, <1>5

\* First and best fit keep the sorted list of the maximal free runs, and serve a
\* request as they promise, for any number of pages (default_pmm.c, best_fit_pmm.c).
THEOREM RunsStayExact == PartsSpec => []RunsExact
<1>1. PartsInit => FitMoves
  <2> SUFFICES ASSUME PartsInit PROVE Pg!FitInv
    BY DEF FitMoves
  <2>1. BestPart!Init
    BY DEF PartsInit
  <2> QED BY <2>1, MCPartsAssumption, SameConstantsOK, SameInit, Pg!InitFit
<1>2. FitMoves => RunsExact
  <2> SUFFICES ASSUME FitMoves, part \in {"first", "best"}
               PROVE  BestPart!ListExact /\ BestPart!AllocExact /\ BestPart!BestExact
    BY DEF RunsExact
  <2>1. Pg!FitInv /\ Pg!ConstantsOK
    BY MCPartsAssumption, SameConstantsOK DEF FitMoves
  <2>2. Pg!ListExact /\ Pg!AllocExact /\ Pg!BestExact
    BY <2>1, Pg!FitListExact, Pg!FitAllocExact, Pg!FitBestExact
  <2> QED BY <2>2, SameListExact, SameAllocExact, SameBestExact
<1> QED BY <1>1, <1>2, FitSteps, PTL DEF PartsSpec

\* The chain from cptr over optr has exactly the children of each process, once each,
\* and do_wait() finds one that has exited, if there is one; for any number of
\* processes (proc.c, set_links, remove_links, do_exit, do_wait).
THEOREM KinStaysExact == PartsSpec => []KinExact
<1>1. PartsInit => KinMoves
  <2> SUFFICES ASSUME PartsInit PROVE Kin!KinInv
    BY DEF KinMoves
  <2>1. KinPart!Init
    BY DEF PartsInit
  <2> QED BY <2>1, MCPartsAssumption, SameKinConstantsOK, SameKinInit, Kin!KinStarts
<1>2. KinMoves => KinExact
  <2> SUFFICES ASSUME KinMoves, part = "kin" PROVE KinPart!KinExact
    BY DEF KinExact
  <2>1. Kin!KinInv /\ Kin!ConstantsOK
    BY MCPartsAssumption, SameKinConstantsOK DEF KinMoves
  <2> QED BY <2>1, SameKinExact, Kin!KinInvExact
<1> QED BY <1>1, <1>2, KinSteps, PTL DEF PartsSpec

-----------------------------------------------------------------------------
(* The loader. *)

\* The loader starts, moves and rests as that of ElfPart does,
LEMMA SameElfConstantsOK == ElfPart!ConstantsOK <=> Pg!Elf!ConstantsOK
  BY Zenon DEF ElfPart!ConstantsOK, Pg!Elf!ConstantsOK

\* with the same headers,
LEMMA SameElfInit == ElfPart!Init <=> Pg!Elf!Init
  BY Zenon DEF ElfPart!Init, Pg!Elf!Init

\* the same places,
LEMMA SameElfPlaces ==
  /\ ElfPart!FileEnd = Pg!Elf!FileEnd /\ ElfPart!MemEnd = Pg!Elf!MemEnd
  /\ \A end : ElfPart!SizeIn(end) = Pg!Elf!SizeIn(end)
  /\ ElfPart!Zero = Pg!Elf!Zero
  BY Zenon DEF ElfPart!FileEnd, Pg!Elf!FileEnd, ElfPart!MemEnd, Pg!Elf!MemEnd,
     ElfPart!SizeIn, Pg!Elf!SizeIn, ElfPart!Zero, Pg!Elf!Zero

\* the same rounds of its loops,
LEMMA SameElfNext == ElfPart!Next <=> Pg!Elf!Next
<1>1. \A page, off, bytes :
        ElfPart!NewPage(page, off, bytes) <=> Pg!Elf!NewPage(page, off, bytes)
  BY Zenon DEF ElfPart!NewPage, Pg!Elf!NewPage, ElfPart!Junk, Pg!Elf!Junk
<1>2. ElfPart!ReadPage <=> Pg!Elf!ReadPage
  BY <1>1, SameElfPlaces, Zenon DEF ElfPart!ReadPage, Pg!Elf!ReadPage
<1>3. ElfPart!FileRead <=> Pg!Elf!FileRead
  BY SameElfPlaces, Zenon DEF ElfPart!FileRead, Pg!Elf!FileRead
<1>4. ElfPart!ZeroTail <=> Pg!Elf!ZeroTail
  <2>1. ElfPart!TailSize = Pg!Elf!TailSize
    BY SameElfPlaces, Zenon DEF ElfPart!TailSize, Pg!Elf!TailSize
  <2> QED BY <2>1, SameElfPlaces, Zenon DEF ElfPart!ZeroTail, Pg!Elf!ZeroTail
<1>5. ElfPart!ZeroPage <=> Pg!Elf!ZeroPage
  BY <1>1, SameElfPlaces, Zenon DEF ElfPart!ZeroPage, Pg!Elf!ZeroPage
<1>6. ElfPart!BssDone <=> Pg!Elf!BssDone
  BY SameElfPlaces, Zenon DEF ElfPart!BssDone, Pg!Elf!BssDone
<1>7. \A args : ElfPart!SetupArgs(args) <=> Pg!Elf!SetupArgs(args)
  BY Zenon DEF ElfPart!SetupArgs, Pg!Elf!SetupArgs, ElfPart!ArgsSize, Pg!Elf!ArgsSize,
     ElfPart!ArgBytes, Pg!Elf!ArgBytes, ElfPart!SumFunction, Pg!Elf!SumFunction,
     ElfPart!SumFunctionOnSet, Pg!Elf!SumFunctionOnSet, ElfPart!FoldFunctionOnSet,
     Pg!Elf!FoldFunctionOnSet, ElfPart!MapThenFoldSet, Pg!Elf!MapThenFoldSet
<1> QED BY <1>2, <1>3, <1>4, <1>5, <1>6, <1>7, Zenon DEF ElfPart!Next, Pg!Elf!Next

\* and the same promises.
LEMMA SameLoadExact ==
  /\ ElfPart!LoadExact <=> Pg!Elf!LoadExact
  /\ ElfPart!ArgsApart <=> Pg!Elf!ArgsApart
<1>1. \A a : ElfPart!ByteAt(a) = Pg!Elf!ByteAt(a)
  BY Zenon DEF ElfPart!ByteAt, Pg!Elf!ByteAt
<1>2. ElfPart!LoadExact <=> Pg!Elf!LoadExact
  BY <1>1, SameElfPlaces, Zenon DEF ElfPart!LoadExact, Pg!Elf!LoadExact
<1>3. \A f : ElfPart!SumFunction(f) = Pg!Elf!SumFunction(f)
  BY Zenon DEF ElfPart!SumFunction, Pg!Elf!SumFunction,
     ElfPart!SumFunctionOnSet, Pg!Elf!SumFunctionOnSet, ElfPart!FoldFunctionOnSet,
     Pg!Elf!FoldFunctionOnSet, ElfPart!MapThenFoldSet, Pg!Elf!MapThenFoldSet
<1>4. ElfPart!ArgsApart <=> Pg!Elf!ArgsApart
  BY <1>3, Zenon DEF ElfPart!ArgsApart, Pg!Elf!ArgsApart, ElfPart!Cardinality,
     Pg!Elf!Cardinality
<1> QED BY <1>2, <1>4

\* What the invariant of the loader is while it moves.
ElfMoves == part = "elf" => Pg!ElfInv

\* A round of the loader, or none.
LEMMA ElfSteps ==
  ASSUME ElfMoves, [PartsNext]_partsVars
  PROVE  ElfMoves'
<1> SUFFICES ASSUME part' = "elf" PROVE Pg!ElfInv'
  BY DEF ElfMoves
<1>1. Pg!Elf!ConstantsOK
  BY MCPartsAssumption, SameElfConstantsOK
<1>2. part' = part
  BY DEF PartsNext, partsVars
<1>3. Pg!ElfInv
  BY <1>2 DEF ElfMoves
<1>4. CASE UNCHANGED partsVars
  <2>1. UNCHANGED Pg!Elf!vars
    BY <1>4 DEF partsVars, Memories, elfVars, Pg!Elf!vars
  <2> QED BY <1>1, <1>3, <2>1, Pg!LoadStep
<1>5. CASE PartsNext
  <2>1. ElfPart!Next
    BY <1>2, <1>5 DEF PartsNext
  <2> QED BY <1>1, <1>3, <2>1, SameElfNext, Pg!LoadStep
<1> QED BY <1>4, <1>5

\* A segment that is loaded has the pages it touches and no others, with the bytes of the
\* file and zeros behind them, and the arguments lie on the stack without overlap, for
\* pages, words, segments and one or two arguments of any size (proc.c, load_icode).
THEOREM LoadStaysExact == PartsSpec => []LoadExact
<1>1. PartsInit => ElfMoves
  <2> SUFFICES ASSUME PartsInit, part = "elf" PROVE Pg!ElfInv
    BY DEF ElfMoves
  <2>1. ElfPart!Init
    BY DEF PartsInit
  <2> QED BY <2>1, MCPartsAssumption, SameElfConstantsOK, SameElfInit, Pg!LoadStarts
<1>2. ElfMoves => LoadExact
  <2> SUFFICES ASSUME ElfMoves, part = "elf" PROVE ElfPart!LoadExact /\ ElfPart!ArgsApart
    BY DEF LoadExact
  <2>1. Pg!ElfInv /\ Pg!Elf!ConstantsOK
    BY MCPartsAssumption, SameElfConstantsOK DEF ElfMoves
  <2>2. Pg!Elf!LoadExact /\ Pg!Elf!ArgsApart
    BY <2>1, Pg!SegExact, Pg!ArgsAreApart DEF Pg!ElfInv
  <2> QED BY <2>2, SameLoadExact
<1> QED BY <1>1, <1>2, ElfSteps, PTL DEF PartsSpec

-----------------------------------------------------------------------------
(* Page replacement. *)

\* The frames and the pages are those of SwapPart,
LEMMA SameSwapConstantsOK == SwapPart!ConstantsOK <=> Pg!Sw!ConstantsOK
  BY Zenon DEF SwapPart!ConstantsOK, Pg!Sw!ConstantsOK

\* empty at first,
LEMMA SameSwapInit == SwapPart!Init <=> Pg!Sw!Init
  BY Zenon DEF SwapPart!Init, Pg!Sw!Init, SwapPart!Managers, Pg!Sw!Managers, SwapPart!Pages,
     Pg!Sw!Pages, SwapPart!Frames, Pg!Sw!Frames, SwapPart!None, Pg!Sw!None,
     SwapPart!SomeValue, Pg!Sw!SomeValue

\* with the same state,
LEMMA SameSwapState ==
  /\ SwapPart!Pages = Pg!Sw!Pages /\ SwapPart!Frames = Pg!Sw!Frames
  /\ SwapPart!None = Pg!Sw!None /\ SwapPart!Now = Pg!Sw!Now
  /\ SwapPart!Contents = Pg!Sw!Contents /\ SwapPart!Contents' = Pg!Sw!Contents'
<1>1. /\ SwapPart!Pages = Pg!Sw!Pages /\ SwapPart!Frames = Pg!Sw!Frames
      /\ SwapPart!None = Pg!Sw!None /\ SwapPart!Now = Pg!Sw!Now
  BY Zenon DEF SwapPart!Pages, Pg!Sw!Pages, SwapPart!Frames, Pg!Sw!Frames, SwapPart!None,
     Pg!Sw!None, SwapPart!Now, Pg!Sw!Now
<1>2. SwapPart!Contents = Pg!Sw!Contents /\ SwapPart!Contents' = Pg!Sw!Contents'
  BY Zenon DEF SwapPart!Contents, Pg!Sw!Contents, SwapPart!Pages, Pg!Sw!Pages,
     SwapPart!None, Pg!Sw!None
<1> QED BY <1>1, <1>2

\* the same way of the clock's hand,
LEMMA SameAfter == \A s, f : SwapPart!After(s, f) = Pg!Sw!After(s, f)
  BY Zenon DEF SwapPart!After, Pg!Sw!After, SwapPart!None, Pg!Sw!None,
     SwapPart!PlaceOf, Pg!Sw!PlaceOf

\* the same victims,
LEMMA SameVictim == \A s : SwapPart!Victim(s) = Pg!Sw!Victim(s)
<1> TAKE s
<1>1. SwapPart!ClockVictim(s) = Pg!Sw!ClockVictim(s)
  BY Zenon DEF SwapPart!ClockVictim, Pg!Sw!ClockVictim, SwapPart!After, Pg!Sw!After,
     SwapPart!None, Pg!Sw!None, SwapPart!PlaceOf, Pg!Sw!PlaceOf
<1>2. \A list : SwapPart!Last(list) = Pg!Sw!Last(list)
  BY Zenon DEF SwapPart!Last, Pg!Sw!Last
<1> QED BY <1>1, <1>2, Zenon DEF SwapPart!Victim, Pg!Sw!Victim

\* the same faults and stores,
LEMMA SameSwapNext ==
  /\ \A a, v : SwapPart!Fault(a, v) <=> Pg!Sw!Fault(a, v)
  /\ \A a, v : SwapPart!Store(a, v) <=> Pg!Sw!Store(a, v)
  /\ SwapPart!Next <=> Pg!Sw!Next
<1>1. \A s, f : SwapPart!SwapSlot(s, f) = Pg!Sw!SwapSlot(s, f)
  BY Zenon DEF SwapPart!SwapSlot, Pg!Sw!SwapSlot
<1>2. \A s, i : SwapPart!RemoveAt(s, i) = Pg!Sw!RemoveAt(s, i)
  BY Zenon DEF SwapPart!RemoveAt, Pg!Sw!RemoveAt
<1>3. \A s, f : SwapPart!PlaceOf(s, f) = Pg!Sw!PlaceOf(s, f)
  BY Zenon DEF SwapPart!PlaceOf, Pg!Sw!PlaceOf
<1>4. \A s : SwapPart!SwappedOut(s) = Pg!Sw!SwappedOut(s)
  <2> TAKE s
  <2>1. PICK v : v = SwapPart!Victim(s)
    OBVIOUS
  <2>2. v = Pg!Sw!Victim(s)
    BY <2>1, SameVictim
  <2>3. PICK slot : slot = SwapPart!SwapSlot(s, v.frame)
    OBVIOUS
  <2>4. slot = Pg!Sw!SwapSlot(s, v.frame)
    BY <2>3, <1>1
  <2>5. PICK list : list = SwapPart!RemoveAt(s.pra, SwapPart!PlaceOf(s.pra, v.frame))
    OBVIOUS
  <2>6. list = Pg!Sw!RemoveAt(s.pra, Pg!Sw!PlaceOf(s.pra, v.frame))
    BY <2>5, <1>2, <1>3, Zenon
  <2> QED BY <2>1, <2>2, <2>3, <2>4, <2>5, <2>6, SameSwapState, Zenon
        DEF SwapPart!SwappedOut, Pg!Sw!SwappedOut
<1>5. \A s : SwapPart!FreeFrames(s) = Pg!Sw!FreeFrames(s)
  BY Zenon DEF SwapPart!FreeFrames, Pg!Sw!FreeFrames, SwapPart!Frames, Pg!Sw!Frames,
     SwapPart!Pages, Pg!Sw!Pages
<1>6. \A s : SwapPart!WithFrame(s) = Pg!Sw!WithFrame(s)
  BY <1>4, <1>5, Zenon DEF SwapPart!WithFrame, Pg!Sw!WithFrame
<1>7. \A s, a, f, v : SwapPart!Inserted(s, a, f, v) = Pg!Sw!Inserted(s, a, f, v)
  <2> TAKE s, a, f, v
  <2>1. PICK m : m = SwapPart!MadeSwappable(s, f)
    OBVIOUS
  <2>2. m = Pg!Sw!MadeSwappable(s, f)
    BY <2>1, Zenon DEF SwapPart!MadeSwappable, Pg!Sw!MadeSwappable
  <2> QED BY <2>1, <2>2, SameSwapState, Zenon DEF SwapPart!Inserted, Pg!Sw!Inserted
<1>8. \A a, v : SwapPart!Fault(a, v) <=> Pg!Sw!Fault(a, v)
  <2> TAKE a, v
  <2>1. PICK s : s = SwapPart!WithFrame(SwapPart!Now)
    OBVIOUS
  <2>2. PICK U : U = SwapPart!FreeFrames(s)
    OBVIOUS
  <2>3. PICK f : f = CHOOSE g \in U : \A h \in U : g <= h
    OBVIOUS
  <2>4. PICK x : x = IF pte[a].slot = SwapPart!None THEN v ELSE s.disk[pte[a].slot]
    OBVIOUS
  <2>5. PICK next : next = SwapPart!Inserted(s, a, f, x)
    OBVIOUS
  <2>6. /\ s = Pg!Sw!WithFrame(Pg!Sw!Now) /\ U = Pg!Sw!FreeFrames(s)
        /\ x = IF pte[a].slot = Pg!Sw!None THEN v ELSE s.disk[pte[a].slot]
        /\ next = Pg!Sw!Inserted(s, a, f, x)
    BY <2>1, <2>2, <2>4, <2>5, <1>5, <1>6, <1>7, SameSwapState, Zenon
  <2> DEFINE Becomes == /\ pte' = next.pte /\ held' = next.held /\ vaddr' = next.vaddr
                        /\ pra' = next.pra /\ hand' = next.hand /\ visited' = next.visited
                        /\ disk' = next.disk
  <2>7. SwapPart!Fault(a, v)
          <=> pte[a].frame = SwapPart!None /\ Becomes /\ UNCHANGED manager
    BY <2>1, <2>2, <2>3, <2>4, <2>5, Zenon DEF SwapPart!Fault
  <2>8. Pg!Sw!Fault(a, v)
          <=> pte[a].frame = Pg!Sw!None /\ Becomes /\ UNCHANGED manager
    BY <2>3, <2>6, Zenon DEF Pg!Sw!Fault
  <2> HIDE DEF Becomes
  <2> QED BY <2>7, <2>8, SameSwapState
<1>9. \A a, v : SwapPart!Store(a, v) <=> Pg!Sw!Store(a, v)
  BY SameSwapState, Zenon DEF SwapPart!Store, Pg!Sw!Store
<1>10. SwapPart!Next <=> Pg!Sw!Next
  BY <1>8, <1>9, SameSwapState, Zenon DEF SwapPart!Next, Pg!Sw!Next
<1> QED BY <1>8, <1>9, <1>10

\* and the same promises.
LEMMA SameSwapPromises ==
  /\ SwapPart!ListExact <=> Pg!Sw!ListExact
  /\ SwapPart!Memory!Init <=> Pg!Sw!Memory!Init
  /\ SwapPart!Memory!Next <=> Pg!Sw!Memory!Next
  /\ SwapPart!OnlyStores <=> Pg!Sw!OnlyStores
<1>1. \A s : SwapPart!FreeFrames(s) = Pg!Sw!FreeFrames(s)
  BY Zenon DEF SwapPart!FreeFrames, Pg!Sw!FreeFrames, SwapPart!Frames, Pg!Sw!Frames,
     SwapPart!Pages, Pg!Sw!Pages
<1>2. SwapPart!ListExact <=> Pg!Sw!ListExact
  BY <1>1, SameSwapState, Zenon DEF SwapPart!ListExact, Pg!Sw!ListExact
<1>3. SwapPart!Memory!Init <=> Pg!Sw!Memory!Init
  BY SameSwapState, Zenon DEF SwapPart!Memory!Init, Pg!Sw!Memory!Init
<1>4. \A old, new : SwapPart!Memory!Kernel(old, new) <=> Pg!Sw!Memory!Kernel(old, new)
  BY Zenon DEF SwapPart!Memory!Kernel, Pg!Sw!Memory!Kernel, SwapPart!Memory!Appear,
     Pg!Sw!Memory!Appear, SwapPart!Memory!Exec, Pg!Sw!Memory!Exec, SwapPart!Memory!Exit,
     Pg!Sw!Memory!Exit, SwapPart!Memory!Fork, Pg!Sw!Memory!Fork,
     SwapPart!Memory!OthersKeep, Pg!Sw!Memory!OthersKeep, SwapPart!Pages, Pg!Sw!Pages
<1>5. SwapPart!Memory!Next <=> Pg!Sw!Memory!Next
  <2>1. \A p, old, new : SwapPart!Memory!Write(p, old, new) <=> Pg!Sw!Memory!Write(p, old, new)
    BY Zenon DEF SwapPart!Memory!Write, Pg!Sw!Memory!Write
  <2> QED BY <1>4, <2>1, SameSwapState, Zenon DEF SwapPart!Memory!Next, Pg!Sw!Memory!Next
<1>6. SwapPart!OnlyStores <=> Pg!Sw!OnlyStores
  <2>1. SwapPart!Memory!KernelKeeps <=> Pg!Sw!Memory!KernelKeeps
    BY <1>4, SameSwapState, Zenon DEF SwapPart!Memory!KernelKeeps, Pg!Sw!Memory!KernelKeeps
  <2> QED BY <2>1, SameSwapNext, SameSwapState, Zenon DEF SwapPart!OnlyStores, Pg!Sw!OnlyStores
<1> QED BY <1>2, <1>3, <1>5, <1>6

\* A fault or a store, or none: whether page replacement moves or rests.
LEMMA SwapSteps ==
  ASSUME Pg!SwapInv, [PartsNext]_partsVars
  PROVE  /\ Pg!SwapInv'
         /\ [SwapPart!Memory!Next]_([p \in {"check"} |-> SwapPart!Contents])
         /\ [SwapPart!OnlyStores]_(SwapPart!vars)
<1>1. Pg!Sw!ConstantsOK
  BY MCPartsAssumption, SameSwapConstantsOK
<1>2. SwapPart!Next \/ UNCHANGED swapVars
  BY DEF PartsNext, partsVars, Memories
<1>3. Pg!Sw!Next \/ UNCHANGED Pg!Sw!vars
  BY <1>2, SameSwapNext DEF swapVars, Pg!Sw!vars
<1>4. /\ Pg!SwapInv'
      /\ Pg!Sw!Memory!Next \/ Pg!Sw!Contents' = Pg!Sw!Contents
      /\ Pg!Sw!OnlyStores \/ UNCHANGED Pg!Sw!vars
  BY <1>1, <1>3, Pg!SwapStep
<1>5. SwapPart!Contents' = SwapPart!Contents
        => UNCHANGED [p \in {"check"} |-> SwapPart!Contents]
  OBVIOUS
<1>6. UNCHANGED Pg!Sw!vars => UNCHANGED SwapPart!vars
  BY DEF SwapPart!vars, Pg!Sw!vars
<1> QED BY <1>4, <1>5, <1>6, SameSwapState, SameSwapPromises

\* It begins with no page in memory.
LEMMA SwapBegins == PartsInit => Pg!SwapInv /\ SwapPart!Memory!Init
<1> SUFFICES ASSUME PartsInit PROVE Pg!SwapInv /\ SwapPart!Memory!Init
  OBVIOUS
<1>1. Pg!Sw!ConstantsOK /\ Pg!Sw!Init
  BY MCPartsAssumption, SameSwapConstantsOK, SameSwapInit DEF PartsInit
<1>2. Pg!SwapInv /\ Pg!Sw!Contents = <<>>
  BY <1>1, Pg!SwapStarts
<1>3. SwapPart!Contents = <<>>
  BY <1>2, SameSwapState
<1> QED BY <1>2, <1>3, Zenon DEF SwapPart!Memory!Init

\* Under each of the managers the list of swappable pages has the frames in use, once each
\* and with their addresses; for any number of pages and frames (swap.c, swap_out;
\* swap_fifo.c, swap_clock.c, swap_lru.c).
THEOREM SwapListStaysExact == PartsSpec => [](part = "swap" => SwapPart!ListExact)
<1>1. Pg!SwapInv => (part = "swap" => SwapPart!ListExact)
  BY Pg!SwapExact, SameSwapPromises
<1> QED BY <1>1, SwapBegins, SwapSteps, PTL DEF PartsSpec

\* A page that went out and came back is what it was; for any number of pages, frames and
\* values (swap.c, swap_in and swap_out; vmm.c, do_pgfault).
THEOREM SwapKeepsContents == PartsSpec => SwapPart!ImplementsMemory
<1>1. PartsSpec => SwapPart!Memory!Spec
  BY SwapBegins, SwapSteps, PTL DEF PartsSpec, SwapPart!Memory!Spec
<1>2. PartsSpec => [][SwapPart!OnlyStores]_(SwapPart!vars)
  BY SwapBegins, SwapSteps, PTL DEF PartsSpec
<1> QED BY <1>1, <1>2 DEF SwapPart!ImplementsMemory

-----------------------------------------------------------------------------
(* Address spaces. *)

\* The user memory of AddrSpace.
Sp == INSTANCE AreaProofs WITH
  NV <- SpacePages, Kinds <- {R, W, S}, PB <- PageBytes, MaxCopy <- MaxString,
  F <- SpaceFrames, Procs <- SpaceProcs

\* The constants are those of SpacePart,
LEMMA SameSpaceConstantsOK == SpacePart!SpaceConstantsOK <=> Sp!SpaceConstantsOK
  BY Zenon DEF SpacePart!SpaceConstantsOK, Sp!SpaceConstantsOK, SpacePart!Segments, Sp!Segments,
     SpacePart!Flags, Sp!Flags, SpacePart!FileData, Sp!FileData

\* and its small definitions,
LEMMA SameSpaceTerms ==
  /\ SpacePart!Frames = Sp!Frames /\ SpacePart!Clear = Sp!Clear
  /\ SpacePart!EmptyTable = Sp!EmptyTable /\ SpacePart!FileData = Sp!FileData
  /\ SpacePart!NoMm = Sp!NoMm /\ SpacePart!UserPages = Sp!UserPages
  /\ SpacePart!NoArea = Sp!NoArea /\ SpacePart!StackArea = Sp!StackArea
  BY Zenon DEF SpacePart!Frames, Sp!Frames, SpacePart!Clear, Sp!Clear, SpacePart!EmptyTable,
     Sp!EmptyTable, SpacePart!FileData, Sp!FileData, SpacePart!NoMm, Sp!NoMm, SpacePart!UserPages,
     Sp!UserPages, SpacePart!NoArea, Sp!NoArea, SpacePart!StackArea, Sp!StackArea

\* the first state,
LEMMA SameSpaceInit == SpacePart!SpaceInit <=> Sp!SpaceInit
  BY SameSpaceTerms, Zenon DEF SpacePart!SpaceInit, Sp!SpaceInit

\* the indices of pages and the tables they lead to,
LEMMA SameTable ==
  /\ \A a : /\ SpacePart!Pdx1(a) = Sp!Pdx1(a) /\ SpacePart!Pdx0(a) = Sp!Pdx0(a)
            /\ SpacePart!Ptx(a) = Sp!Ptx(a)
  /\ \A m, root, a : SpacePart!Table(m, root, a) = Sp!Table(m, root, a)
  /\ \A m, root, a : SpacePart!Pte(m, root, a) = Sp!Pte(m, root, a)
  BY Zenon DEF SpacePart!Pdx1, Sp!Pdx1, SpacePart!Pdx0, Sp!Pdx0, SpacePart!Ptx, Sp!Ptx,
     SpacePart!Table, Sp!Table, SpacePart!Pte, Sp!Pte, SpacePart!Clear, Sp!Clear

\* how frames are taken and freed,
LEMMA SameTaken ==
  /\ \A m : SpacePart!Lowest(m) = Sp!Lowest(m)
  /\ \A m, ref : SpacePart!Taken(m, ref) = Sp!Taken(m, ref)
  /\ \A m, f : SpacePart!Freed(m, f) = Sp!Freed(m, f)
  BY Zenon DEF SpacePart!Lowest, Sp!Lowest, SpacePart!Frames, Sp!Frames, SpacePart!Taken,
     Sp!Taken, SpacePart!Freed, Sp!Freed, SpacePart!EmptyTable, Sp!EmptyTable, SpacePart!Clear,
     Sp!Clear, SpacePart!FileData, Sp!FileData

\* get_pte(),
LEMMA SameWithTables ==
  \A m, root, a : SpacePart!WithTables(m, root, a) = Sp!WithTables(m, root, a)
<1>1. \A m, f, i : SpacePart!WithTable(m, f, i) = Sp!WithTable(m, f, i)
  BY SameTaken, Zenon DEF SpacePart!WithTable, Sp!WithTable
<1> TAKE m, root, a
<1> PICK n : n = SpacePart!WithTable(m, root, SpacePart!Pdx1(a))
  OBVIOUS
<1>2. n = Sp!WithTable(m, root, Sp!Pdx1(a))
  BY <1>1, SameTable, Zenon
<1>3. SpacePart!WithTables(m, root, a)
        = SpacePart!WithTable(n, n.tab[root][SpacePart!Pdx1(a)].frame, SpacePart!Pdx0(a))
  BY Zenon DEF SpacePart!WithTables
<1>4. Sp!WithTables(m, root, a)
        = Sp!WithTable(n, n.tab[root][Sp!Pdx1(a)].frame, Sp!Pdx0(a))
  BY <1>2, Zenon DEF Sp!WithTables
<1> QED BY <1>1, <1>3, <1>4, SameTable, Zenon

\* page_remove_pte(),
LEMMA SameRemovedPte == \A m, t, i : SpacePart!RemovedPte(m, t, i) = Sp!RemovedPte(m, t, i)
<1> TAKE m, t, i
<1> PICK f : f = m.tab[t][i].frame
  OBVIOUS
<1> PICK n : n = [m EXCEPT !.ref[f] = @ - 1]
  OBVIOUS
<1> PICK o : o = IF n.ref[f] = 0 THEN SpacePart!Freed(n, f) ELSE n
  OBVIOUS
<1>1. o = IF n.ref[f] = 0 THEN Sp!Freed(n, f) ELSE n
  BY SameTaken, Zenon
<1>2. SpacePart!RemovedPte(m, t, i)
        = IF f = 0 THEN m ELSE [o EXCEPT !.tab[t][i] = SpacePart!Clear]
  BY Zenon DEF SpacePart!RemovedPte
<1>3. Sp!RemovedPte(m, t, i) = IF f = 0 THEN m ELSE [o EXCEPT !.tab[t][i] = Sp!Clear]
  BY <1>1, Zenon DEF Sp!RemovedPte
<1> QED BY <1>2, <1>3, SameSpaceTerms, Zenon

\* page_insert() and pgdir_alloc_page(),
LEMMA SameInserted ==
  /\ \A m, root, a, f, write :
       SpacePart!PageInserted(m, root, a, f, write) = Sp!PageInserted(m, root, a, f, write)
  /\ \A m, root, a, write, v :
       SpacePart!PageAlloced(m, root, a, write, v) = Sp!PageAlloced(m, root, a, write, v)
<1>1. ASSUME NEW m, NEW root, NEW a, NEW f, NEW write
      PROVE  SpacePart!PageInserted(m, root, a, f, write) = Sp!PageInserted(m, root, a, f, write)
  <2> PICK n : n = SpacePart!WithTables(m, root, a)
    OBVIOUS
  <2> PICK t : t = SpacePart!Table(n, root, a)
    OBVIOUS
  <2> PICK i : i = SpacePart!Ptx(a)
    OBVIOUS
  <2>1. n = Sp!WithTables(m, root, a) /\ t = Sp!Table(n, root, a) /\ i = Sp!Ptx(a)
    BY SameWithTables, SameTable, Zenon
  <2> PICK k : k = [n EXCEPT !.ref[f] = @ + 1, !.data = @ \cup {f}]
    OBVIOUS
  <2> PICK o : o = IF n.tab[t][i].frame = f THEN [k EXCEPT !.ref[f] = @ - 1]
                   ELSE SpacePart!RemovedPte(k, t, i)
    OBVIOUS
  <2>2. o = IF n.tab[t][i].frame = f THEN [k EXCEPT !.ref[f] = @ - 1]
            ELSE Sp!RemovedPte(k, t, i)
    BY SameRemovedPte, Zenon
  <2>3. SpacePart!PageInserted(m, root, a, f, write)
          = [o EXCEPT !.tab[t][i] = [frame |-> f, write |-> write]]
    BY SMTT(30) DEF SpacePart!PageInserted
  <2>4. Sp!PageInserted(m, root, a, f, write)
          = [o EXCEPT !.tab[t][i] = [frame |-> f, write |-> write]]
    BY <2>1, <2>2, Zenon DEF Sp!PageInserted
  <2> QED BY <2>3, <2>4
<1>2. ASSUME NEW m, NEW root, NEW a, NEW write, NEW v
      PROVE  SpacePart!PageAlloced(m, root, a, write, v) = Sp!PageAlloced(m, root, a, write, v)
  <2> PICK f : f = SpacePart!Lowest(m)
    OBVIOUS
  <2> PICK n : n = SpacePart!Taken(m, 0)
    OBVIOUS
  <2>1. f = Sp!Lowest(m) /\ n = Sp!Taken(m, 0)
    BY SameTaken, Zenon
  <2> QED BY <1>1, <2>1, Zenon DEF SpacePart!PageAlloced, Sp!PageAlloced
<1> QED BY <1>1, <1>2, Zenon

\* the pages that a loop comes to,
LEMMA SameVisited ==
  \A m, root, lo, hi : SpacePart!Visited(m, root, lo, hi) = Sp!Visited(m, root, lo, hi)
  BY Zenon DEF SpacePart!Visited, Sp!Visited, SpacePart!Table, Sp!Table, SpacePart!Pdx1, Sp!Pdx1,
     SpacePart!Pdx0, Sp!Pdx0

\* unmap_range(),
LEMMA SameUnmappedRange ==
  ASSUME NEW m, NEW root, NEW lo, NEW hi
  PROVE  SpacePart!UnmappedRange(m, root, lo, hi) = Sp!UnmappedRange(m, root, lo, hi)
<1> DEFINE Old(at, a) ==
             IF a <= lo THEN m
             ELSE IF a - 1 \in SpacePart!Visited(m, root, lo, hi)
             THEN SpacePart!RemovedPte(at[a - 1], SpacePart!Table(at[a - 1], root, a - 1),
                              SpacePart!Ptx(a - 1))
             ELSE at[a - 1]
           New(at, a) ==
             IF a <= lo THEN m
             ELSE IF a - 1 \in Sp!Visited(m, root, lo, hi)
             THEN Sp!RemovedPte(at[a - 1], Sp!Table(at[a - 1], root, a - 1),
                              Sp!Ptx(a - 1))
             ELSE at[a - 1]
<1>1. \A at, a : Old(at, a) = New(at, a)
  BY SameVisited, SameRemovedPte, SameTable, Zenon
<1>2. \A at :
        at = [a \in 0 .. SpacePages |-> Old(at, a)]
          <=> at = [a \in 0 .. SpacePages |-> New(at, a)]
  <2> HIDE DEF Old, New
  <2> QED BY <1>1, Zenon
<1>3. (CHOOSE at : at = [a \in 0 .. SpacePages |-> Old(at, a)])
        = CHOOSE at : at = [a \in 0 .. SpacePages |-> New(at, a)]
  <2> HIDE DEF Old, New
  <2> QED BY <1>2, Zenon
<1> QED BY <1>3, Zenon DEF SpacePart!UnmappedRange, Sp!UnmappedRange

\* exit_range(),
LEMMA SameExitedRange ==
  ASSUME NEW m, NEW root, NEW lo, NEW hi
  PROVE  SpacePart!ExitedRange(m, root, lo, hi) = Sp!ExitedRange(m, root, lo, hi)
<1> DEFINE Old(at, i) ==
             IF i <= SpacePart!Pdx1(lo) THEN m
             ELSE IF at[i - 1].tab[root][i - 1].frame = 0 THEN at[i - 1]
             ELSE [SpacePart!Freed(at[i - 1], at[i - 1].tab[root][i - 1].frame) EXCEPT
                     !.tab[root][i - 1] = SpacePart!Clear]
           New(at, i) ==
             IF i <= Sp!Pdx1(lo) THEN m
             ELSE IF at[i - 1].tab[root][i - 1].frame = 0 THEN at[i - 1]
             ELSE [Sp!Freed(at[i - 1], at[i - 1].tab[root][i - 1].frame) EXCEPT
                     !.tab[root][i - 1] = Sp!Clear]
<1>1. \A at, i : Old(at, i) = New(at, i)
  BY SameTaken, SameSpaceTerms, SameTable, Zenon
<1>2. \A at :
        at = [i \in 0 .. Span |-> Old(at, i)]
          <=> at = [i \in 0 .. Span |-> New(at, i)]
  <2> HIDE DEF Old, New
  <2> QED BY <1>1, Zenon
<1>3. (CHOOSE at : at = [i \in 0 .. Span |-> Old(at, i)])
        = CHOOSE at : at = [i \in 0 .. Span |-> New(at, i)]
  <2> HIDE DEF Old, New
  <2> QED BY <1>2, Zenon
<1> QED BY <1>3, SameTable, Zenon DEF SpacePart!ExitedRange, Sp!ExitedRange

\* exit_mmap(),
LEMMA SameUnmapped ==
  ASSUME NEW m, NEW mm
  PROVE  SpacePart!Unmapped(m, mm) = Sp!Unmapped(m, mm)
<1> DEFINE Old(at, k) ==
             IF k = 0 THEN m
             ELSE SpacePart!UnmappedRange(at[k - 1], mm.root, mm.areas[k].start, mm.areas[k].end)
           New(at, k) ==
             IF k = 0 THEN m
             ELSE Sp!UnmappedRange(at[k - 1], mm.root, mm.areas[k].start, mm.areas[k].end)
<1>1. \A at, k : Old(at, k) = New(at, k)
  BY SameUnmappedRange, Zenon
<1>2. \A at :
        at = [k \in 0 .. Len(mm.areas) |-> Old(at, k)]
          <=> at = [k \in 0 .. Len(mm.areas) |-> New(at, k)]
  <2> HIDE DEF Old, New
  <2> QED BY <1>1, Zenon
<1>3. (CHOOSE at : at = [k \in 0 .. Len(mm.areas) |-> Old(at, k)])
        = CHOOSE at : at = [k \in 0 .. Len(mm.areas) |-> New(at, k)]
  <2> HIDE DEF Old, New
  <2> QED BY <1>2, Zenon
<1> QED BY <1>3, Zenon DEF SpacePart!Unmapped, Sp!Unmapped

\* its second loop,
LEMMA SameLeft ==
  ASSUME NEW m, NEW mm
  PROVE  SpacePart!Left(m, mm) = Sp!Left(m, mm)
<1> DEFINE Old(at, k) ==
             IF k = 0 THEN m
             ELSE SpacePart!ExitedRange(at[k - 1], mm.root, mm.areas[k].start, mm.areas[k].end)
           New(at, k) ==
             IF k = 0 THEN m
             ELSE Sp!ExitedRange(at[k - 1], mm.root, mm.areas[k].start, mm.areas[k].end)
<1>1. \A at, k : Old(at, k) = New(at, k)
  BY SameExitedRange, Zenon
<1>2. \A at :
        at = [k \in 0 .. Len(mm.areas) |-> Old(at, k)]
          <=> at = [k \in 0 .. Len(mm.areas) |-> New(at, k)]
  <2> HIDE DEF Old, New
  <2> QED BY <1>1, Zenon
<1>3. (CHOOSE at : at = [k \in 0 .. Len(mm.areas) |-> Old(at, k)])
        = CHOOSE at : at = [k \in 0 .. Len(mm.areas) |-> New(at, k)]
  <2> HIDE DEF Old, New
  <2> QED BY <1>2, Zenon
<1> QED BY <1>3, Zenon DEF SpacePart!Left, Sp!Left

\* put_pgdir(),
LEMMA SameDestroyed == \A m, mm : SpacePart!Destroyed(m, mm) = Sp!Destroyed(m, mm)
  BY SameUnmapped, SameLeft, SameTaken, Zenon DEF SpacePart!Destroyed, Sp!Destroyed

\* the copy of a page,
LEMMA SameCopiedPage ==
  \A m, to, from, a : SpacePart!CopiedPage(m, to, from, a) = Sp!CopiedPage(m, to, from, a)
<1> TAKE m, to, from, a
<1> PICK was : was = SpacePart!Pte(m, from, a)
  OBVIOUS
<1> PICK n : n = SpacePart!WithTables(m, to, a)
  OBVIOUS
<1> PICK f : f = SpacePart!Lowest(n)
  OBVIOUS
<1> PICK o : o = [SpacePart!Taken(n, 0) EXCEPT !.val[f] = m.val[was.frame]]
  OBVIOUS
<1>1. /\ was = Sp!Pte(m, from, a) /\ n = Sp!WithTables(m, to, a) /\ f = Sp!Lowest(n)
      /\ o = [Sp!Taken(n, 0) EXCEPT !.val[f] = m.val[was.frame]]
  BY SameTable, SameWithTables, SameTaken, Zenon
<1>2. SpacePart!CopiedPage(m, to, from, a)
        = IF was.frame = 0 THEN m ELSE SpacePart!PageInserted(o, to, a, f, was.write)
  BY Zenon DEF SpacePart!CopiedPage
<1>3. Sp!CopiedPage(m, to, from, a)
        = IF was.frame = 0 THEN m ELSE Sp!PageInserted(o, to, a, f, was.write)
  BY <1>1, Zenon DEF Sp!CopiedPage
<1>4. SpacePart!PageInserted(o, to, a, f, was.write) = Sp!PageInserted(o, to, a, f, was.write)
  BY SameInserted, Zenon
<1> QED BY <1>2, <1>3, <1>4

\* copy_range(),
LEMMA SameCopiedRange ==
  ASSUME NEW m, NEW to, NEW from, NEW lo, NEW hi
  PROVE  SpacePart!CopiedRange(m, to, from, lo, hi) = Sp!CopiedRange(m, to, from, lo, hi)
<1> DEFINE Old(at, a) ==
             IF a <= lo THEN m
             ELSE IF a - 1 \in SpacePart!Visited(m, from, lo, hi)
             THEN SpacePart!CopiedPage(at[a - 1], to, from, a - 1) ELSE at[a - 1]
           New(at, a) ==
             IF a <= lo THEN m
             ELSE IF a - 1 \in Sp!Visited(m, from, lo, hi)
             THEN Sp!CopiedPage(at[a - 1], to, from, a - 1) ELSE at[a - 1]
<1>1. \A at, a : Old(at, a) = New(at, a)
  BY SameVisited, SameCopiedPage, Zenon
<1>2. \A at :
        at = [a \in 0 .. SpacePages |-> Old(at, a)]
          <=> at = [a \in 0 .. SpacePages |-> New(at, a)]
  <2> HIDE DEF Old, New
  <2> QED BY <1>1, Zenon
<1>3. (CHOOSE at : at = [a \in 0 .. SpacePages |-> Old(at, a)])
        = CHOOSE at : at = [a \in 0 .. SpacePages |-> New(at, a)]
  <2> HIDE DEF Old, New
  <2> QED BY <1>2, Zenon
<1> QED BY <1>3, Zenon DEF SpacePart!CopiedRange, Sp!CopiedRange

\* the lists of areas,
LEMMA SameAreaOps ==
  /\ \A l, c, a : SpacePart!FindVma(l, c, a) = Sp!FindVma(l, c, a)
  /\ \A l, area : SpacePart!InsertVma(l, area) = Sp!InsertVma(l, area)
  /\ \A l, c, area : SpacePart!MmMap(l, c, area) = Sp!MmMap(l, c, area)
  /\ \A l, c : SpacePart!AreasSorted(l, c) <=> Sp!AreasSorted(l, c)
<1>1. \A l, c, a : SpacePart!FindVma(l, c, a) = Sp!FindVma(l, c, a)
  BY Zenon DEF SpacePart!FindVma, Sp!FindVma, SpacePart!Covers, Sp!Covers, SpacePart!Min, Sp!Min
<1>2. \A l, area : SpacePart!PlaceOf(l, area) = Sp!PlaceOf(l, area)
  BY Zenon DEF SpacePart!PlaceOf, Sp!PlaceOf, SpacePart!Min, Sp!Min
<1>3. \A l, area : SpacePart!InsertVma(l, area) = Sp!InsertVma(l, area)
  <2>1. \A l, i, area : SpacePart!InsertAt(l, i, area) = Sp!InsertAt(l, i, area)
    BY Zenon DEF SpacePart!InsertAt, Sp!InsertAt
  <2> QED BY <1>2, <2>1, Zenon DEF SpacePart!InsertVma, Sp!InsertVma
<1>4. \A l, area : SpacePart!InsertAsserts(l, area) <=> Sp!InsertAsserts(l, area)
  BY <1>2, Zenon DEF SpacePart!InsertAsserts, Sp!InsertAsserts
<1>5. \A l, c, area : SpacePart!MmMap(l, c, area) = Sp!MmMap(l, c, area)
  BY <1>1, <1>4, Zenon DEF SpacePart!MmMap, Sp!MmMap
<1>6. \A l, c : SpacePart!AreasSorted(l, c) <=> Sp!AreasSorted(l, c)
  BY Zenon DEF SpacePart!AreasSorted, Sp!AreasSorted, SpacePart!NoArea, Sp!NoArea
<1> QED BY <1>1, <1>3, <1>5, <1>6

\* dup_mmap(),
LEMMA SameDuplicated ==
  ASSUME NEW m, NEW root, NEW mm
  PROVE  SpacePart!Duplicated(m, root, mm) = Sp!Duplicated(m, root, mm)
<1> DEFINE Old(at, k) ==
             IF k = 0 THEN [m |-> m, areas |-> <<>>]
             ELSE [m     |-> SpacePart!CopiedRange(at[k - 1].m, root, mm.root,
                                          mm.areas[Len(mm.areas) + 1 - k].start,
                                          mm.areas[Len(mm.areas) + 1 - k].end),
                   areas |-> SpacePart!InsertVma(at[k - 1].areas, mm.areas[Len(mm.areas) + 1 - k])]
           New(at, k) ==
             IF k = 0 THEN [m |-> m, areas |-> <<>>]
             ELSE [m     |-> Sp!CopiedRange(at[k - 1].m, root, mm.root,
                                          mm.areas[Len(mm.areas) + 1 - k].start,
                                          mm.areas[Len(mm.areas) + 1 - k].end),
                   areas |-> Sp!InsertVma(at[k - 1].areas, mm.areas[Len(mm.areas) + 1 - k])]
<1>1. \A at, k : Old(at, k) = New(at, k)
  BY SameCopiedRange, SameAreaOps, Zenon
<1>2. \A at :
        at = [k \in 0 .. Len(mm.areas) |-> Old(at, k)]
          <=> at = [k \in 0 .. Len(mm.areas) |-> New(at, k)]
  <2> HIDE DEF Old, New
  <2> QED BY <1>1, Zenon
<1>3. (CHOOSE at : at = [k \in 0 .. Len(mm.areas) |-> Old(at, k)])
        = CHOOSE at : at = [k \in 0 .. Len(mm.areas) |-> New(at, k)]
  <2> HIDE DEF Old, New
  <2> QED BY <1>2, Zenon
<1> QED BY <1>3, Zenon DEF SpacePart!Duplicated, Sp!Duplicated

\* what load_icode() does first,
LEMMA SameHas ==
  /\ \A m, reads : SpacePart!Loading(m, reads) = Sp!Loading(m, reads)
  /\ \A s : SpacePart!HasRead(s) = Sp!HasRead(s)
  /\ \A s, area : SpacePart!HasMapped(s, area) = Sp!HasMapped(s, area)
  /\ \A s, a, write, v : SpacePart!HasPage(s, a, write, v) = Sp!HasPage(s, a, write, v)
<1>1. \A m, reads : SpacePart!Loading(m, reads) = Sp!Loading(m, reads)
  BY SameTaken, SameSpaceTerms, Zenon DEF SpacePart!Loading, Sp!Loading
<1>2. \A s : SpacePart!HasRead(s) = Sp!HasRead(s)
  BY Zenon DEF SpacePart!HasRead, Sp!HasRead
<1>3. \A s, area : SpacePart!HasMapped(s, area) = Sp!HasMapped(s, area)
  BY SameAreaOps, SameSpaceTerms, Zenon DEF SpacePart!HasMapped, Sp!HasMapped
<1>4. \A s, a, write, v : SpacePart!HasPage(s, a, write, v) = Sp!HasPage(s, a, write, v)
  BY SameInserted, Zenon DEF SpacePart!HasPage, Sp!HasPage
<1> QED BY <1>1, <1>2, <1>3, <1>4

\* and with a segment,
LEMMA SameHasSegment ==
  ASSUME NEW s, NEW sg
  PROVE  SpacePart!HasSegment(s, sg) = Sp!HasSegment(s, sg)
<1> DEFINE Old(at, a) ==
             IF a <= sg.start
             THEN SpacePart!HasMapped(SpacePart!HasRead(s),
                    [start |-> sg.start, end |-> sg.end, flags |-> sg.flags])
             ELSE IF a - 1 < sg.filend
             THEN SpacePart!HasRead(SpacePart!HasPage(at[a - 1], a - 1, "VM_WRITE" \in sg.flags,
                                    SpacePart!FileData))
             ELSE SpacePart!HasPage(at[a - 1], a - 1, "VM_WRITE" \in sg.flags, SpacePart!FileData)
           New(at, a) ==
             IF a <= sg.start
             THEN Sp!HasMapped(Sp!HasRead(s),
                    [start |-> sg.start, end |-> sg.end, flags |-> sg.flags])
             ELSE IF a - 1 < sg.filend
             THEN Sp!HasRead(Sp!HasPage(at[a - 1], a - 1, "VM_WRITE" \in sg.flags,
                                    Sp!FileData))
             ELSE Sp!HasPage(at[a - 1], a - 1, "VM_WRITE" \in sg.flags, Sp!FileData)
<1>1. \A at, a : Old(at, a) = New(at, a)
  BY SameHas, SameSpaceTerms, Zenon
<1>2. \A at :
        at = [a \in 0 .. SpacePages |-> Old(at, a)]
          <=> at = [a \in 0 .. SpacePages |-> New(at, a)]
  <2> HIDE DEF Old, New
  <2> QED BY <1>1, Zenon
<1>3. (CHOOSE at : at = [a \in 0 .. SpacePages |-> Old(at, a)])
        = CHOOSE at : at = [a \in 0 .. SpacePages |-> New(at, a)]
  <2> HIDE DEF Old, New
  <2> QED BY <1>2, Zenon
<1> QED BY <1>3, Zenon DEF SpacePart!HasSegment, Sp!HasSegment

\* and with all of them,
LEMMA SameHasFile ==
  ASSUME NEW s, NEW prog
  PROVE  SpacePart!HasFile(s, prog) = Sp!HasFile(s, prog)
<1> DEFINE Old(at, k) ==
             IF k = 0 THEN s ELSE SpacePart!HasSegment(at[k - 1], prog[k])
           New(at, k) ==
             IF k = 0 THEN s ELSE Sp!HasSegment(at[k - 1], prog[k])
<1>1. \A at, k : Old(at, k) = New(at, k)
  BY SameHasSegment, Zenon
<1>2. \A at :
        at = [k \in 0 .. Len(prog) |-> Old(at, k)]
          <=> at = [k \in 0 .. Len(prog) |-> New(at, k)]
  <2> HIDE DEF Old, New
  <2> QED BY <1>1, Zenon
<1>3. (CHOOSE at : at = [k \in 0 .. Len(prog) |-> Old(at, k)])
        = CHOOSE at : at = [k \in 0 .. Len(prog) |-> New(at, k)]
  <2> HIDE DEF Old, New
  <2> QED BY <1>2, Zenon
<1> QED BY <1>3, Zenon DEF SpacePart!HasFile, Sp!HasFile

\* and with the stack,
LEMMA SameHasStack ==
  ASSUME NEW s, NEW v
  PROVE  SpacePart!HasStack(s, v) = Sp!HasStack(s, v)
<1> DEFINE Old(at, k) ==
             IF k = 0 THEN SpacePart!HasMapped(s, SpacePart!StackArea)
             ELSE SpacePart!HasPage(at[k - 1], SpacePages - k, TRUE, v[k])
           New(at, k) ==
             IF k = 0 THEN Sp!HasMapped(s, Sp!StackArea)
             ELSE Sp!HasPage(at[k - 1], SpacePages - k, TRUE, v[k])
<1>1. \A at, k : Old(at, k) = New(at, k)
  BY SameHas, SameSpaceTerms, Zenon
<1>2. \A at :
        at = [k \in 0 .. StackThere |-> Old(at, k)]
          <=> at = [k \in 0 .. StackThere |-> New(at, k)]
  <2> HIDE DEF Old, New
  <2> QED BY <1>1, Zenon
<1>3. (CHOOSE at : at = [k \in 0 .. StackThere |-> Old(at, k)])
        = CHOOSE at : at = [k \in 0 .. StackThere |-> New(at, k)]
  <2> HIDE DEF Old, New
  <2> QED BY <1>2, Zenon
<1> QED BY <1>3, Zenon DEF SpacePart!HasStack, Sp!HasStack

\* load_icode(), and what is left when it fails,
LEMMA SameLoaded ==
  /\ \A m, prog, reads, v : SpacePart!Loaded(m, prog, reads, v) = Sp!Loaded(m, prog, reads, v)
  /\ \A s : SpacePart!Cleaned(s) = Sp!Cleaned(s)
  /\ \A p : SpacePart!WithoutMm(p) = Sp!WithoutMm(p)
  /\ \A prog : SpacePart!ReadsOf(prog) = Sp!ReadsOf(prog)
<1>1. ASSUME NEW m, NEW prog, NEW reads, NEW v
      PROVE  SpacePart!Loaded(m, prog, reads, v) = Sp!Loaded(m, prog, reads, v)
  <2> PICK s1 : s1 = SpacePart!HasRead(SpacePart!Loading(m, reads))
    OBVIOUS
  <2> PICK s2 : s2 = SpacePart!HasFile(s1, prog)
    OBVIOUS
  <2>1. s1 = Sp!HasRead(Sp!Loading(m, reads)) /\ s2 = Sp!HasFile(s1, prog)
    BY SameHas, SameHasFile, Zenon
  <2>2. SpacePart!HasStack(s2, v) = Sp!HasStack(s2, v)
    BY SameHasStack
  <2> QED BY <2>1, <2>2, Zenon DEF SpacePart!Loaded, Sp!Loaded
<1>2. \A s : SpacePart!Cleaned(s) = Sp!Cleaned(s)
  BY SameDestroyed, Zenon DEF SpacePart!Cleaned, Sp!Cleaned
<1>3. \A p : SpacePart!WithoutMm(p) = Sp!WithoutMm(p)
  BY SameDestroyed, Zenon DEF SpacePart!WithoutMm, Sp!WithoutMm
<1>4. \A prog : SpacePart!ReadsOf(prog) = Sp!ReadsOf(prog)
  BY Zenon DEF SpacePart!ReadsOf, Sp!ReadsOf, SpacePart!SumFunction, Sp!SumFunction,
     SpacePart!SumFunctionOnSet, Sp!SumFunctionOnSet, SpacePart!FoldFunctionOnSet,
     Sp!FoldFunctionOnSet, SpacePart!MapThenFoldSet, Sp!MapThenFoldSet
<1> QED BY <1>1, <1>2, <1>3, <1>4, Zenon

\* the frames that are in use,
LEMMA SameLost ==
  /\ SpacePart!Roots = Sp!Roots /\ SpacePart!Users = Sp!Users
  /\ \A tables : SpacePart!EntriesOf(tables) = Sp!EntriesOf(tables)
  /\ SpacePart!Middles = Sp!Middles /\ SpacePart!Leaves = Sp!Leaves
  /\ SpacePart!Mapped = Sp!Mapped /\ SpacePart!Lost = Sp!Lost
<1>1. SpacePart!Roots = Sp!Roots /\ SpacePart!Users = Sp!Users
  BY Zenon DEF SpacePart!Roots, Sp!Roots, SpacePart!Users, Sp!Users
<1>2. \A tables : SpacePart!EntriesOf(tables) = Sp!EntriesOf(tables)
  BY Zenon DEF SpacePart!EntriesOf, Sp!EntriesOf
<1>3. \A entries : SpacePart!Named(entries) = Sp!Named(entries)
  BY Zenon DEF SpacePart!Named, Sp!Named
<1>4. SpacePart!Middles = Sp!Middles
  BY <1>1, <1>2, <1>3, Zenon DEF SpacePart!Middles, Sp!Middles
<1>5. SpacePart!Leaves = Sp!Leaves
  BY <1>2, <1>3, <1>4, Zenon DEF SpacePart!Leaves, Sp!Leaves
<1>6. SpacePart!Mapped = Sp!Mapped
  BY <1>2, <1>3, <1>5, Zenon DEF SpacePart!Mapped, Sp!Mapped
<1>7. SpacePart!Lost = Sp!Lost
  BY <1>1, <1>4, <1>5, <1>6, Zenon DEF SpacePart!Lost, Sp!Lost
<1> QED BY <1>1, <1>2, <1>4, <1>5, <1>6, <1>7

\* the system calls,
LEMMA SameSpaceCalls ==
  /\ \A p : SpacePart!Exec(p) <=> Sp!Exec(p)
  /\ \A p, q : SpacePart!Fork(p, q) <=> Sp!Fork(p, q)
  /\ \A p : SpacePart!Exit(p) <=> Sp!Exit(p)
<1>1. /\ \A m, mms1 : SpacePart!Settle(m, mms1) <=> Sp!Settle(m, mms1)
      /\ SpacePart!Panic <=> Sp!Panic
  BY Zenon DEF SpacePart!Settle, Sp!Settle, SpacePart!Panic, Sp!Panic
<1>2. ASSUME NEW p PROVE SpacePart!Exit(p) <=> Sp!Exit(p)
  BY <1>1, SameLoaded, SameSpaceTerms, Zenon DEF SpacePart!Exit, Sp!Exit
<1>3. ASSUME NEW p, NEW q PROVE SpacePart!Fork(p, q) <=> Sp!Fork(p, q)
  BY <1>1, SameTaken, SameDuplicated, SameSpaceTerms, Zenon DEF SpacePart!Fork, Sp!Fork
<1>4. ASSUME NEW p PROVE SpacePart!Exec(p) <=> Sp!Exec(p)
  <2> DEFINE OldEnds(s) ==
        \/ s.goes = "on" /\ ~ s.m.out /\ SpacePart!Settle(s.m, [mms EXCEPT ![p] = s.mm])
        \/ /\ s.goes = "failed" /\ ~ s.m.out
           /\ SpacePart!Settle(SpacePart!Cleaned(s), [mms EXCEPT ![p] = SpacePart!NoMm])
        \/ (s.goes = "panic" \/ s.m.out) /\ SpacePart!Panic
  <2> DEFINE NewEnds(s) ==
        \/ s.goes = "on" /\ ~ s.m.out /\ Sp!Settle(s.m, [mms EXCEPT ![p] = s.mm])
        \/ /\ s.goes = "failed" /\ ~ s.m.out
           /\ Sp!Settle(Sp!Cleaned(s), [mms EXCEPT ![p] = Sp!NoMm])
        \/ (s.goes = "panic" \/ s.m.out) /\ Sp!Panic
  <2>1. \A s : OldEnds(s) <=> NewEnds(s)
    BY <1>1, SameLoaded, SameSpaceTerms, Zenon
  <2> DEFINE OldRuns(m, prog) ==
        \E reads \in 0 .. SpacePart!ReadsOf(prog) :
          \E v \in [1 .. StackThere -> IF reads = SpacePart!ReadsOf(prog) THEN Values
                            ELSE {SpacePart!FileData}] :
            \E s \in {SpacePart!Loaded(m, prog, reads, v)} : OldEnds(s)
  <2> DEFINE NewRuns(m, prog) ==
        \E reads \in 0 .. Sp!ReadsOf(prog) :
          \E v \in [1 .. StackThere -> IF reads = Sp!ReadsOf(prog) THEN Values ELSE {Sp!FileData}] :
            \E s \in {Sp!Loaded(m, prog, reads, v)} : NewEnds(s)
  <2>2. \A m, prog : OldRuns(m, prog) <=> NewRuns(m, prog)
    <3> HIDE DEF OldEnds, NewEnds
    <3> QED BY <2>1, SameLoaded, SameSpaceTerms, Zenon
  <2>3. SpacePart!Exec(p)
          <=> \E m \in {SpacePart!WithoutMm(p)}, prog \in Programs : OldRuns(m, prog)
    BY Zenon DEF SpacePart!Exec
  <2>4. Sp!Exec(p) <=> \E m \in {Sp!WithoutMm(p)}, prog \in Programs : NewRuns(m, prog)
    BY Zenon DEF Sp!Exec
  <2> HIDE DEF OldRuns, NewRuns
  <2> QED BY <2>2, <2>3, <2>4, SameLoaded, Zenon
<1> QED BY <1>2, <1>3, <1>4, Zenon

\* page faults and stores,
LEMMA SameSpaceNext ==
  /\ \A p, a, v : SpacePart!Store(p, a, v) <=> Sp!Store(p, a, v)
  /\ SpacePart!SpaceNext <=> Sp!SpaceNext
<1>1. \A m, mms1 : SpacePart!Settle(m, mms1) <=> Sp!Settle(m, mms1)
  BY Zenon DEF SpacePart!Settle, Sp!Settle
<1>2. \A p, a : SpacePart!PteOf(p, a) = Sp!PteOf(p, a)
  BY SameTable, Zenon DEF SpacePart!PteOf, Sp!PteOf
<1>3. \A p, a, v : SpacePart!Store(p, a, v) <=> Sp!Store(p, a, v)
  BY <1>2, Zenon DEF SpacePart!Store, Sp!Store
<1>4. ASSUME NEW p, NEW a, NEW write, NEW v
      PROVE  SpacePart!Fault(p, a, write, v) <=> Sp!Fault(p, a, write, v)
  <2> PICK i : i = SpacePart!FindVma(mms[p].areas, SpacePart!NoArea, a)
    OBVIOUS
  <2> PICK was : was = SpacePart!PteOf(p, a)
    OBVIOUS
  <2> PICK n : n = SpacePart!WithTables(frames, mms[p].root, a)
    OBVIOUS
  <2> PICK o : o = SpacePart!PageAlloced(n, mms[p].root, a,
                                        "VM_WRITE" \in mms[p].areas[i].flags, v)
    OBVIOUS
  <2>1. /\ i = Sp!FindVma(mms[p].areas, Sp!NoArea, a) /\ was = Sp!PteOf(p, a)
        /\ n = Sp!WithTables(frames, mms[p].root, a)
        /\ o = Sp!PageAlloced(n, mms[p].root, a, "VM_WRITE" \in mms[p].areas[i].flags, v)
    BY <1>2, SameAreaOps, SameSpaceTerms, SameWithTables, SameInserted, Zenon
  <2> DEFINE Meets(settled, panics) ==
        /\ mms[p].root # 0 /\ i # 0
        /\ was.frame = 0 \/ (write /\ ~ was.write)
        /\ \/ was.frame = 0 /\ settled
           \/ was.frame # 0 /\ panics
  <2>2. SpacePart!Fault(p, a, write, v) <=> Meets(SpacePart!Settle(o, mms), SpacePart!Panic)
    BY Zenon DEF SpacePart!Fault
  <2>3. Sp!Fault(p, a, write, v) <=> Meets(Sp!Settle(o, mms), Sp!Panic)
    BY <2>1, Zenon DEF Sp!Fault
  <2>4. SpacePart!Panic <=> Sp!Panic
    BY Zenon DEF SpacePart!Panic, Sp!Panic
  <2> QED BY <1>1, <2>2, <2>3, <2>4, Zenon
<1>5. SpacePart!Cardinality(SpacePart!Lost) = Sp!Cardinality(Sp!Lost)
  <2>1. \A U : SpacePart!Cardinality(U) = Sp!Cardinality(U)
    BY Zenon DEF SpacePart!Cardinality, Sp!Cardinality
  <2> QED BY <2>1, SameLost, Zenon
<1>6. SpacePart!SpaceNext <=> Sp!SpaceNext
  BY <1>3, <1>4, <1>5, SameSpaceCalls, SameSpaceTerms, Zenon DEF SpacePart!SpaceNext, Sp!SpaceNext
<1> QED BY <1>3, <1>6

\* and the same promises.
LEMMA SameSpacePromises ==
  /\ SpacePart!FramesExact <=> Sp!FramesExact
  /\ SpacePart!MappedInAreas <=> Sp!MappedInAreas
<1>1. \A U : SpacePart!Cardinality(U) = Sp!Cardinality(U)
  BY Zenon DEF SpacePart!Cardinality, Sp!Cardinality
<1>2. \A tables : SpacePart!EntriesOf(tables) = Sp!EntriesOf(tables)
  BY SameLost
<1>3. SpacePart!FramesExact <=> Sp!FramesExact
  <2> PICK entries : entries = SpacePart!EntriesOf(SpacePart!Roots)
                       \cup SpacePart!EntriesOf(SpacePart!Middles)
                       \cup SpacePart!EntriesOf(SpacePart!Leaves)
    OBVIOUS
  <2> PICK owned : owned = SpacePart!Middles \cup SpacePart!Leaves \cup SpacePart!Mapped
    OBVIOUS
  <2>1. /\ entries = Sp!EntriesOf(Sp!Roots) \cup Sp!EntriesOf(Sp!Middles)
                       \cup Sp!EntriesOf(Sp!Leaves)
        /\ owned = Sp!Middles \cup Sp!Leaves \cup Sp!Mapped
    BY SameLost, Zenon
  <2>2. SpacePart!FramesExact
          <=> /\ SpacePart!Roots \cup owned \subseteq frames.used
              /\ SpacePart!Cardinality(entries) = SpacePart!Cardinality(owned)
              /\ SpacePart!Cardinality(SpacePart!Roots) = SpacePart!Cardinality(SpacePart!Users)
              /\ SpacePart!Roots \cap owned = {}
              /\ \A f \in SpacePart!Roots : frames.ref[f] = 0
              /\ \A f \in owned \cup SpacePart!Lost : frames.ref[f] = 1
              /\ \A f \in SpacePart!Lost :
                   frames.tab[f] = SpacePart!EmptyTable /\ f \notin frames.data
    BY Zenon DEF SpacePart!FramesExact
  <2>3. Sp!FramesExact
          <=> /\ Sp!Roots \cup owned \subseteq frames.used
              /\ Sp!Cardinality(entries) = Sp!Cardinality(owned)
              /\ Sp!Cardinality(Sp!Roots) = Sp!Cardinality(Sp!Users)
              /\ Sp!Roots \cap owned = {}
              /\ \A f \in Sp!Roots : frames.ref[f] = 0
              /\ \A f \in owned \cup Sp!Lost : frames.ref[f] = 1
              /\ \A f \in Sp!Lost :
                   frames.tab[f] = Sp!EmptyTable /\ f \notin frames.data
    BY <2>1, Zenon DEF Sp!FramesExact
  <2>4. /\ SpacePart!Cardinality(entries) = Sp!Cardinality(entries)
        /\ SpacePart!Cardinality(owned) = Sp!Cardinality(owned)
        /\ SpacePart!Cardinality(SpacePart!Roots) = Sp!Cardinality(Sp!Roots)
        /\ SpacePart!Cardinality(SpacePart!Users) = Sp!Cardinality(Sp!Users)
    BY <1>1, SameLost, Zenon
  <2>5. /\ SpacePart!Roots = Sp!Roots /\ SpacePart!Lost = Sp!Lost
        /\ SpacePart!EmptyTable = Sp!EmptyTable
    BY SameLost, SameSpaceTerms
  <2> QED BY <2>2, <2>3, <2>4, <2>5
<1>4. SpacePart!MappedInAreas <=> Sp!MappedInAreas
  <2>1. \A p, a : SpacePart!PteOf(p, a) = Sp!PteOf(p, a)
    BY SameTable, Zenon DEF SpacePart!PteOf, Sp!PteOf
  <2>2. \A area, a : SpacePart!Covers(area, a) <=> Sp!Covers(area, a)
    BY Zenon DEF SpacePart!Covers, Sp!Covers
  <2>3. \A l : SpacePart!ToSet(l) = Sp!ToSet(l)
    BY Zenon DEF SpacePart!ToSet, Sp!ToSet
  <2> QED BY <2>1, <2>2, <2>3, SameLost, SameAreaOps, SameSpaceTerms, Zenon
        DEF SpacePart!MappedInAreas, Sp!MappedInAreas
<1> QED BY <1>3, <1>4

\* What processes see is the same,
LEMMA SameSeen ==
  /\ \A p : SpacePart!Seen(p) = Sp!Seen(p) /\ SpacePart!Seen(p)' = Sp!Seen(p)'
  /\ \A prog : SpacePart!Image(prog) = Sp!Image(prog)
<1>1. \A p : SpacePart!Seen(p) = Sp!Seen(p)
  BY Zenon DEF SpacePart!Seen, Sp!Seen, SpacePart!UserPages, Sp!UserPages, SpacePart!PteOf,
     Sp!PteOf, SpacePart!Pte, Sp!Pte, SpacePart!Clear, Sp!Clear, SpacePart!Table, Sp!Table,
     SpacePart!Pdx1, Sp!Pdx1, SpacePart!Pdx0, Sp!Pdx0, SpacePart!Ptx, Sp!Ptx
<1>2. \A p : SpacePart!Seen(p)' = Sp!Seen(p)'
  BY Zenon DEF SpacePart!Seen, Sp!Seen, SpacePart!UserPages, Sp!UserPages, SpacePart!PteOf,
     Sp!PteOf, SpacePart!Pte, Sp!Pte, SpacePart!Clear, Sp!Clear, SpacePart!Table, Sp!Table,
     SpacePart!Pdx1, Sp!Pdx1, SpacePart!Pdx0, Sp!Pdx0, SpacePart!Ptx, Sp!Ptx
<1>3. \A prog : SpacePart!Image(prog) = Sp!Image(prog)
  BY Zenon DEF SpacePart!Image, Sp!Image, SpacePart!UserPages, Sp!UserPages, SpacePart!FileData,
     Sp!FileData
<1> QED BY <1>1, <1>2, <1>3

\* and so is what UserMemory says of it.
LEMMA SameSpaceMemory ==
  /\ [p \in SpaceProcs |-> SpacePart!Seen(p)] = [p \in SpaceProcs |-> Sp!Seen(p)]
  /\ [p \in SpaceProcs |-> SpacePart!Seen(p)]' = [p \in SpaceProcs |-> Sp!Seen(p)]'
  /\ SpacePart!Memory!Init <=> Sp!Memory!Init
  /\ SpacePart!Memory!Next <=> Sp!Memory!Next
  /\ SpacePart!OnlyStores <=> Sp!OnlyStores
<1>1. /\ [p \in SpaceProcs |-> SpacePart!Seen(p)] = [p \in SpaceProcs |-> Sp!Seen(p)]
      /\ [p \in SpaceProcs |-> SpacePart!Seen(p)]' = [p \in SpaceProcs |-> Sp!Seen(p)]'
  BY SameSeen, Zenon
<1>2. SpacePart!Memory!Init <=> Sp!Memory!Init
  BY <1>1, Zenon DEF SpacePart!Memory!Init, Sp!Memory!Init
<1>3. ASSUME NEW old, NEW new
      PROVE  SpacePart!Memory!Kernel(old, new) <=> Sp!Memory!Kernel(old, new)
  <2>1. \A p : /\ SpacePart!Memory!Appear(p, old, new) <=> Sp!Memory!Appear(p, old, new)
               /\ SpacePart!Memory!Exit(p, old, new) <=> Sp!Memory!Exit(p, old, new)
               /\ \A q : SpacePart!Memory!Fork(p, q, old, new) <=> Sp!Memory!Fork(p, q, old, new)
    BY SameSpaceTerms, Zenon DEF SpacePart!Memory!Appear, Sp!Memory!Appear,
       SpacePart!Memory!OthersKeep, Sp!Memory!OthersKeep, SpacePart!Memory!Exit, Sp!Memory!Exit,
       SpacePart!Memory!Fork, Sp!Memory!Fork
  <2>2. \A p : SpacePart!Memory!Exec(p, old, new) <=> Sp!Memory!Exec(p, old, new)
    <3> TAKE p
    <3> DEFINE Runs(image) == /\ DOMAIN image \subseteq DOMAIN new[p]
                              /\ \A a \in DOMAIN image : new[p][a] = image[a]
               Kept == \A q \in SpaceProcs \ {p} : new[q] = old[q]
    <3>1. SpacePart!Memory!Exec(p, old, new)
            <=> Kept /\ \E image \in {SpacePart!Image(prog) : prog \in Programs} : Runs(image)
      BY Zenon DEF SpacePart!Memory!Exec, SpacePart!Memory!OthersKeep
    <3>2. Sp!Memory!Exec(p, old, new)
            <=> Kept /\ \E image \in {Sp!Image(prog) : prog \in Programs} : Runs(image)
      BY Zenon DEF Sp!Memory!Exec, Sp!Memory!OthersKeep
    <3> HIDE DEF Runs, Kept
    <3>3. {SpacePart!Image(prog) : prog \in Programs} = {Sp!Image(prog) : prog \in Programs}
      BY SameSeen, Zenon
    <3> QED BY <3>1, <3>2, <3>3
  <2> QED BY <2>1, <2>2, Zenon DEF SpacePart!Memory!Kernel, Sp!Memory!Kernel
<1>4. SpacePart!Memory!Next <=> Sp!Memory!Next
  <2>1. \A p, old, new : SpacePart!Memory!Write(p, old, new) <=> Sp!Memory!Write(p, old, new)
    BY Zenon DEF SpacePart!Memory!Write, Sp!Memory!Write
  <2> QED BY <1>1, <1>3, <2>1, Zenon DEF SpacePart!Memory!Next, Sp!Memory!Next
<1>5. SpacePart!OnlyStores <=> Sp!OnlyStores
  <2>1. SpacePart!Memory!KernelKeeps <=> Sp!Memory!KernelKeeps
    BY <1>1, <1>3, Zenon DEF SpacePart!Memory!KernelKeeps, Sp!Memory!KernelKeeps
  <2> QED BY <2>1, SameSpaceNext, SameSpaceTerms, Zenon
        DEF SpacePart!OnlyStores, Sp!OnlyStores
<1> QED BY <1>1, <1>2, <1>4, <1>5

\* A system call, a page fault or a store, or none: whether the address spaces move or rest.
LEMMA SpacesStep ==
  ASSUME Sp!SpaceInv, [PartsNext]_partsVars
  PROVE  /\ Sp!SpaceInv'
         /\ [SpacePart!Memory!Next]_([p \in SpaceProcs |-> SpacePart!Seen(p)])
         /\ [SpacePart!OnlyStores]_(SpacePart!spaceVars)
<1>1. Sp!SpaceConstantsOK
  BY MCPartsAssumption, SameSpaceConstantsOK
<1>2. SpacePart!SpaceNext \/ UNCHANGED spaceVars
  BY DEF PartsNext, partsVars, Memories
<1>3. [Sp!SpaceNext]_(Sp!spaceVars)
  BY <1>2, SameSpaceNext DEF spaceVars, Sp!spaceVars
<1>4. /\ Sp!SpaceInv' /\ [Sp!Memory!Next]_([p \in SpaceProcs |-> Sp!Seen(p)])
      /\ [Sp!OnlyStores]_(Sp!spaceVars)
  BY <1>1, <1>3, Sp!SpaceSteps
<1>5. UNCHANGED Sp!spaceVars => UNCHANGED SpacePart!spaceVars
  BY DEF SpacePart!spaceVars, Sp!spaceVars
<1> QED BY <1>4, <1>5, SameSpaceMemory

\* They begin with nothing allocated and no process that has memory.
LEMMA SpacesBegin == PartsInit => Sp!SpaceInv /\ SpacePart!Memory!Init
<1> SUFFICES ASSUME PartsInit PROVE Sp!SpaceInv /\ SpacePart!Memory!Init
  OBVIOUS
<1>1. Sp!SpaceConstantsOK /\ Sp!SpaceInit
  BY MCPartsAssumption, SameSpaceConstantsOK, SameSpaceInit DEF PartsInit
<1>2. Sp!SpaceInv /\ Sp!Memory!Init
  BY <1>1, Sp!SpaceStarts, Sp!MemoryStarts
<1> QED BY <1>2, SameSpaceMemory

\* Each frame that is allocated belongs to one directory in one place and its count is
\* one, but for the empty tables that exit_range() loses, and pages are mapped in areas
\* only; the list of swappable pages has the frames in use (pmm.c, page_insert and
\* page_remove_pte; vmm.c, do_pgfault; swap.c, swap_out).
THEOREM FramesStayExact == PartsSpec => []FramesExact
<1>1. Sp!SpaceInv => SpacePart!FramesExact /\ SpacePart!MappedInAreas
  <2> SUFFICES ASSUME Sp!SpaceInv PROVE SpacePart!FramesExact /\ SpacePart!MappedInAreas
    OBVIOUS
  <2>1. Sp!SpaceConstantsOK
    BY MCPartsAssumption, SameSpaceConstantsOK
  <2>2. Sp!FramesExact /\ Sp!MappedInAreas
    BY <2>1, Sp!SpaceExact, Sp!SpaceInAreas
  <2> QED BY <2>2, SameSpacePromises
<1>2. Sp!SpaceInv /\ (part = "swap" => SwapPart!ListExact) => FramesExact
  BY <1>1 DEF FramesExact
<1> QED BY <1>2, SpacesBegin, SpacesStep, SwapListStaysExact, PTL DEF PartsSpec

\* Processes have memory of their own: what one reads is what it wrote last, what fork()
\* gave it or what its program's file holds, whatever the others do and whatever goes out
\* to the swap area and comes back (pmm.c, copy_range; vmm.c, dup_mmap, exit_mmap and
\* do_pgfault; proc.c, load_icode; swap.c, swap_in and swap_out).
THEOREM MemoryIsKept == PartsSpec => ImplementsMemory
<1>1. PartsSpec => SpacePart!Memory!Spec
  BY SpacesBegin, SpacesStep, PTL DEF PartsSpec, SpacePart!Memory!Spec
<1>2. PartsSpec => [][SpacePart!OnlyStores]_(SpacePart!spaceVars)
  BY SpacesBegin, SpacesStep, PTL DEF PartsSpec
<1>3. PartsSpec => SpacePart!ImplementsMemory
  BY <1>1, <1>2 DEF SpacePart!ImplementsMemory
<1> QED BY <1>3, SwapKeepsContents DEF ImplementsMemory

-----------------------------------------------------------------------------
(* Areas, and the calls that check them. *)

\* The user memory of VmaList.
Vm == INSTANCE AreaProofs WITH
  NV <- UserSize, Kinds <- {R, W, S}, PB <- PageBytes, MaxCopy <- MaxString,
  F <- SpaceFrames, Procs <- SpaceProcs

\* AreaPart and Vm have the same user memory,
LEMMA SameAreaConstantsOK == AreaPart!ConstantsOK <=> Vm!ConstantsOK
  BY Zenon DEF AreaPart!ConstantsOK, Vm!ConstantsOK, AreaPart!Flags, Vm!Flags

\* the same beginning,
LEMMA SameAreaInit == AreaPart!Init <=> Vm!Init
  BY Zenon DEF AreaPart!Init, Vm!Init, AreaPart!NoArea, Vm!NoArea

\* the same lookup,
LEMMA SameFindVma ==
  ASSUME NEW l, NEW c, NEW a
  PROVE  AreaPart!FindVma(l, c, a) = Vm!FindVma(l, c, a)
  BY Zenon DEF AreaPart!FindVma, Vm!FindVma, AreaPart!Covers, Vm!Covers, AreaPart!Min, Vm!Min

\* the same place of a new area,
LEMMA SameInsert ==
  ASSUME NEW l, NEW area
  PROVE  /\ AreaPart!InsertVma(l, area) = Vm!InsertVma(l, area)
         /\ AreaPart!InsertAsserts(l, area) <=> Vm!InsertAsserts(l, area)
<1>1. AreaPart!PlaceOf(l, area) = Vm!PlaceOf(l, area)
  BY Zenon DEF AreaPart!PlaceOf, Vm!PlaceOf, AreaPart!Min, Vm!Min
<1>2. \A i : AreaPart!InsertAt(l, i, area) = Vm!InsertAt(l, i, area)
  BY Zenon DEF AreaPart!InsertAt, Vm!InsertAt
<1> QED BY <1>1, <1>2, Zenon
        DEF AreaPart!InsertVma, Vm!InsertVma, AreaPart!InsertAsserts, Vm!InsertAsserts

\* the same answer of mm_map(),
LEMMA SameMap ==
  ASSUME NEW l, NEW c, NEW area
  PROVE  AreaPart!MmMap(l, c, area) = Vm!MmMap(l, c, area)
<1>1. AreaPart!FindVma(l, c, area.start) = Vm!FindVma(l, c, area.start)
  BY SameFindVma
<1>2. AreaPart!InsertAsserts(l, area) <=> Vm!InsertAsserts(l, area)
  BY SameInsert
<1> QED BY <1>1, <1>2, Zenon DEF AreaPart!MmMap, Vm!MmMap

\* the same walk of user_mem_check(),
LEMMA SameWalk ==
  ASSUME NEW l, NEW c, NEW lo, NEW hi, NEW write
  PROVE  /\ AreaPart!UserMemCheck(l, c, lo, hi, write) <=> Vm!UserMemCheck(l, c, lo, hi, write)
         /\ AreaPart!CacheAfterCheck(l, c, lo, hi, write)
              = Vm!CacheAfterCheck(l, c, lo, hi, write)
  BY Zenon DEF AreaPart!UserMemCheck, Vm!UserMemCheck, AreaPart!CacheAfterCheck,
     Vm!CacheAfterCheck, AreaPart!StepPasses, Vm!StepPasses, AreaPart!FindVma, Vm!FindVma,
     AreaPart!Covers, Vm!Covers, AreaPart!Min, Vm!Min

\* the same copy of a list,
LEMMA SameDuplicate == AreaPart!Duplicate <=> Vm!Duplicate
  BY Zenon DEF AreaPart!Duplicate, Vm!Duplicate, AreaPart!FoldLeft, Vm!FoldLeft,
     AreaPart!MapThenFoldSet, Vm!MapThenFoldSet, AreaPart!Max, Vm!Max, AreaPart!Reverse,
     Vm!Reverse, AreaPart!InsertVma, Vm!InsertVma, AreaPart!PlaceOf, Vm!PlaceOf,
     AreaPart!InsertAt, Vm!InsertAt, AreaPart!Min, Vm!Min, AreaPart!NoArea, Vm!NoArea

\* and the same calls.
LEMMA SameAreaNext == AreaPart!Next <=> Vm!Next
<1>1. \A area : AreaPart!Map(area) <=> Vm!Map(area)
  BY SameMap, SameInsert, SameFindVma, Zenon
     DEF AreaPart!Map, Vm!Map, AreaPart!CacheAfter, Vm!CacheAfter
<1>2. \A a : AreaPart!Lookup(a) <=> Vm!Lookup(a)
  BY SameFindVma, Zenon DEF AreaPart!Lookup, Vm!Lookup, AreaPart!CacheAfter, Vm!CacheAfter
<1>3. ASSUME NEW lo, NEW hi, NEW write
      PROVE  AreaPart!Check(lo, hi, write) <=> Vm!Check(lo, hi, write)
  <2>1. AreaPart!CacheAfterCheck(areas, cache, lo, hi, write)
          = Vm!CacheAfterCheck(areas, cache, lo, hi, write)
    BY SameWalk
  <2> QED BY <2>1, Zenon DEF AreaPart!Check, Vm!Check
<1> QED BY <1>1, <1>2, <1>3, SameDuplicate, Zenon
        DEF AreaPart!Next, Vm!Next, AreaPart!Requests, Vm!Requests

\* A string is copied from what is checked in the same way.
LEMMA SameCopy ==
  ASSUME NEW l, NEW c, NEW src, NEW maxn, NEW len
  PROVE  AreaPart!CopyString(l, c, PageBytes, src, maxn, len)
           = Vm!CopyString(l, c, PageBytes, src, maxn, len)
  BY Zenon DEF AreaPart!CopyString, Vm!CopyString, AreaPart!UserMemCheck, Vm!UserMemCheck,
     AreaPart!StepPasses, Vm!StepPasses, AreaPart!FindVma, Vm!FindVma, AreaPart!Covers,
     Vm!Covers, AreaPart!Min, Vm!Min

\* The lookups are exact for both, or for none.
LEMMA SameLookupsExact ==
  ASSUME Vm!LookupsExact
  PROVE  AreaPart!LookupsExact
<1>1. AreaPart!AreasSorted(areas, cache)
  BY Zenon DEF Vm!LookupsExact, AreaPart!AreasSorted, Vm!AreasSorted, AreaPart!NoArea, Vm!NoArea
<1>2. ASSUME NEW a \in 0 .. UserSize - 1
      PROVE  LET i == AreaPart!FindVma(areas, cache, a)
             IN  IF i = 0 THEN \A j \in DOMAIN areas : ~ AreaPart!Covers(areas[j], a)
                 ELSE AreaPart!Covers(areas[i], a)
  BY SameFindVma, Zenon DEF Vm!LookupsExact, AreaPart!Covers, Vm!Covers
<1>3. ASSUME NEW area \in AreaPart!Requests
      PROVE  (AreaPart!MmMap(areas, cache, area) = "mapped")
               = (\A j \in DOMAIN areas :
                    area.end <= areas[j].start \/ areas[j].end <= area.start)
  <2>1. area \in Vm!Requests
    BY Zenon DEF AreaPart!Requests, Vm!Requests
  <2>2. AreaPart!MmMap(areas, cache, area) = Vm!MmMap(areas, cache, area)
    BY SameMap
  <2> QED BY <2>1, <2>2, Zenon DEF Vm!LookupsExact
<1>4. ASSUME NEW lo \in 0 .. UserSize - 1, NEW write \in BOOLEAN, NEW hi \in lo + 1 .. UserSize
      PROVE  AreaPart!UserMemCheck(areas, cache, lo, hi, write)
               = AreaPart!Usable(areas, lo, hi, write)
  <2>1. Vm!UserMemCheck(areas, cache, lo, hi, write) = Vm!Usable(areas, lo, hi, write)
    BY Zenon DEF Vm!LookupsExact
  <2>2. AreaPart!UserMemCheck(areas, cache, lo, hi, write)
          <=> Vm!UserMemCheck(areas, cache, lo, hi, write)
    BY SameWalk
  <2>3. AreaPart!Usable(areas, lo, hi, write) = Vm!Usable(areas, lo, hi, write)
    BY Zenon DEF AreaPart!Usable, Vm!Usable, AreaPart!Covers, Vm!Covers
  <2>4. AreaPart!UserMemCheck(areas, cache, lo, hi, write) \in BOOLEAN
        /\ Vm!UserMemCheck(areas, cache, lo, hi, write) \in BOOLEAN
    BY DEF AreaPart!UserMemCheck, Vm!UserMemCheck
  <2> QED BY <2>1, <2>2, <2>3, <2>4
<1>5. ASSUME NEW src \in 0 .. UserSize * PageBytes - 1, NEW maxn \in 1 .. MaxString,
             NEW len \in 0 .. MaxString
      PROVE  AreaPart!CopyString(areas, cache, PageBytes, src, maxn, len)
               = AreaPart!Copyable(areas, PageBytes, src, maxn, len)
  <2>1. Vm!CopyString(areas, cache, PageBytes, src, maxn, len)
          = Vm!Copyable(areas, PageBytes, src, maxn, len)
    BY Zenon DEF Vm!LookupsExact
  <2>2. AreaPart!Copyable(areas, PageBytes, src, maxn, len)
          = Vm!Copyable(areas, PageBytes, src, maxn, len)
    BY Zenon DEF AreaPart!Copyable, Vm!Copyable, AreaPart!Usable, Vm!Usable, AreaPart!Covers,
       Vm!Covers
  <2> QED BY <2>1, <2>2, SameCopy
<1> QED BY <1>1, <1>2, <1>3, <1>4, <1>5, Zenon DEF AreaPart!LookupsExact

\* IoPart and Vm have the same user memory,
LEMMA SameIoConstantsOK == IoPart!ConstantsOK <=> Vm!Io!ConstantsOK
  BY Zenon DEF IoPart!ConstantsOK, Vm!Io!ConstantsOK, IoPart!Areas, Vm!Io!Areas, IoPart!Flags,
     Vm!Io!Flags, IoPart!AreasSorted, Vm!Io!AreasSorted, IoPart!NoArea, Vm!Io!NoArea

\* the same beginning,
LEMMA SameIoInit == IoPart!Init <=> Vm!Io!Init
  BY Zenon DEF IoPart!Init, Vm!Io!Init, IoPart!Addresses, Vm!Io!Addresses, IoPart!Fresh,
     Vm!Io!Fresh, IoPart!NoCall, Vm!Io!NoCall

\* the same check of a range of bytes,
LEMMA SameReaches ==
  ASSUME NEW lo, NEW len, NEW write
  PROVE  IoPart!Reaches(lo, len, write) <=> Vm!Io!Reaches(lo, len, write)
  BY Zenon DEF IoPart!Reaches, Vm!Io!Reaches, IoPart!UserMemCheck, Vm!Io!UserMemCheck,
     IoPart!StepPasses, Vm!Io!StepPasses, IoPart!FindVma, Vm!Io!FindVma, IoPart!Covers,
     Vm!Io!Covers, IoPart!Min, Vm!Io!Min, IoPart!NoArea, Vm!Io!NoArea

\* the same pieces,
LEMMA SameRequest ==
  /\ IoPart!Request = Vm!Io!Request /\ IoPart!Target = Vm!Io!Target
  /\ \A c : IoPart!Turned(c) = Vm!Io!Turned(c)
  /\ \A c, n : IoPart!Advanced(c, n) = Vm!Io!Advanced(c, n)
  BY Zenon DEF IoPart!Request, Vm!Io!Request, IoPart!Target, Vm!Io!Target, IoPart!Turned,
     Vm!Io!Turned, IoPart!Advanced, Vm!Io!Advanced, IoPart!Min, Vm!Io!Min

\* the same steps,
LEMMA SameIoNext == IoPart!Next <=> Vm!Io!Next
<1>1. IoPart!Addresses = Vm!Io!Addresses
  BY Zenon DEF IoPart!Addresses, Vm!Io!Addresses
<1>2. \A op, base, len : IoPart!Begin(op, base, len) <=> Vm!Io!Begin(op, base, len)
  BY Zenon DEF IoPart!Begin, Vm!Io!Begin
<1>3. IoPart!ReadPiece <=> Vm!Io!ReadPiece
  BY Zenon DEF IoPart!ReadPiece, Vm!Io!ReadPiece, IoPart!Request, Vm!Io!Request, IoPart!Min,
     Vm!Io!Min, IoPart!Max, Vm!Io!Max
<1>4. IoPart!CopyOut <=> Vm!Io!CopyOut
  BY <1>1, SameRequest, SameReaches, Zenon DEF IoPart!CopyOut, Vm!Io!CopyOut
<1>5. IoPart!WritePiece <=> Vm!Io!WritePiece
  BY Zenon DEF IoPart!WritePiece, Vm!Io!WritePiece, IoPart!Request, Vm!Io!Request,
     IoPart!Target, Vm!Io!Target, IoPart!Turned, Vm!Io!Turned, IoPart!Advanced,
     Vm!Io!Advanced, IoPart!Reaches, Vm!Io!Reaches, IoPart!UserMemCheck, Vm!Io!UserMemCheck,
     IoPart!StepPasses, Vm!Io!StepPasses, IoPart!FindVma, Vm!Io!FindVma, IoPart!Covers,
     Vm!Io!Covers, IoPart!NoArea, Vm!Io!NoArea, IoPart!Min, Vm!Io!Min, IoPart!Max, Vm!Io!Max
<1>6. IoPart!Other <=> Vm!Io!Other
  BY Zenon DEF IoPart!Other, Vm!Io!Other
<1> QED BY <1>1, <1>2, <1>3, <1>4, <1>5, <1>6, Zenon DEF IoPart!Next, Vm!Io!Next

\* and the same promise.
LEMMA SameTransfersExact == IoPart!TransfersExact <=> Vm!Io!TransfersExact
  BY SameRequest, Zenon DEF IoPart!TransfersExact, Vm!Io!TransfersExact, IoPart!Addresses,
     Vm!Io!Addresses, IoPart!Usable, Vm!Io!Usable, IoPart!Covers, Vm!Io!Covers, IoPart!Fresh,
     Vm!Io!Fresh

\* What the invariants of these two components are while they move.
AreaMoves == part = "areas" => Vm!ListInv
IoMoves == part = "io" => Vm!IoInv

\* A step of the areas, or none.
LEMMA AreaSteps ==
  ASSUME AreaMoves, [PartsNext]_partsVars
  PROVE  AreaMoves'
<1> SUFFICES ASSUME part' = "areas" PROVE Vm!ListInv'
  BY DEF AreaMoves
<1>1. Vm!ConstantsOK
  BY MCPartsAssumption, SameAreaConstantsOK
<1>2. part' = part
  BY DEF PartsNext, partsVars
<1>3. Vm!ListInv
  BY <1>2 DEF AreaMoves
<1>4. CASE UNCHANGED partsVars
  <2>1. UNCHANGED Vm!vars
    BY <1>4 DEF partsVars, Memories, areaVars, Vm!vars
  <2> QED BY <1>1, <1>3, <2>1, Vm!CallKeeps
<1>5. CASE PartsNext
  <2>1. AreaPart!Next
    BY <1>2, <1>5 DEF PartsNext
  <2> QED BY <1>1, <1>3, <2>1, SameAreaNext, Vm!CallKeeps
<1> QED BY <1>4, <1>5

\* A step of read() or write(), or none.
LEMMA IoSteps ==
  ASSUME IoMoves, [PartsNext]_partsVars
  PROVE  IoMoves'
<1> SUFFICES ASSUME part' = "io" PROVE Vm!IoInv'
  BY DEF IoMoves
<1>1. Vm!Io!ConstantsOK
  BY MCPartsAssumption, SameIoConstantsOK
<1>2. part' = part
  BY DEF PartsNext, partsVars
<1>3. Vm!IoInv
  BY <1>2 DEF IoMoves
<1>4. CASE UNCHANGED partsVars
  <2>1. UNCHANGED Vm!Io!vars
    BY <1>4 DEF partsVars, Files, ioVars, Vm!Io!vars
  <2> QED BY <1>1, <1>3, <2>1, Vm!IoKept
<1>5. CASE PartsNext
  <2>1. IoPart!Next
    BY <1>2, <1>5 DEF PartsNext
  <2> QED BY <1>1, <1>3, <2>1, SameIoNext, Vm!IoKept
<1> QED BY <1>4, <1>5

\* What is looked up, mapped, checked and copied is what the areas say, whatever
\* mmap_cache holds, for user memory of any size (vmm.c, find_vma, mm_map,
\* user_mem_check, copy_string).
THEOREM LookupsStayExact == PartsSpec => []LookupsExact
<1>1. PartsInit => AreaMoves
  <2> SUFFICES ASSUME PartsInit PROVE Vm!ListInv
    BY DEF AreaMoves
  <2>1. AreaPart!Init
    BY DEF PartsInit
  <2> QED BY <2>1, MCPartsAssumption, SameAreaConstantsOK, SameAreaInit, Vm!StartsSorted
<1>2. AreaMoves => LookupsExact
  <2> SUFFICES ASSUME AreaMoves, part = "areas" PROVE AreaPart!LookupsExact
    BY DEF LookupsExact
  <2>1. Vm!ListInv /\ Vm!ConstantsOK
    BY MCPartsAssumption, SameAreaConstantsOK DEF AreaMoves
  <2> QED BY <2>1, SameLookupsExact, Vm!ListInvExact
<1> QED BY <1>1, <1>2, AreaSteps, PTL DEF PartsSpec

\* A call of read() or write() that returns has moved the bytes it counts, in order and
\* without a gap, for user memory, buffers and files of any size (sysfile.c,
\* sysfile_read, sysfile_write).
THEOREM TransfersStayExact == PartsSpec => []TransfersExact
<1>1. PartsInit => IoMoves
  <2> SUFFICES ASSUME PartsInit, part = "io" PROVE Vm!IoInv
    BY DEF IoMoves
  <2>1. IoPart!Init
    BY DEF PartsInit
  <2> QED BY <2>1, MCPartsAssumption, SameIoConstantsOK, SameIoInit, Vm!IoStarts
<1>2. IoMoves => TransfersExact
  <2> SUFFICES ASSUME IoMoves, part = "io" PROVE IoPart!TransfersExact
    BY DEF TransfersExact
  <2>1. Vm!IoInv /\ Vm!Io!ConstantsOK
    BY MCPartsAssumption, SameIoConstantsOK DEF IoMoves
  <2> QED BY <2>1, SameTransfersExact, Vm!IoInvExact
<1> QED BY <1>1, <1>2, IoSteps, PTL DEF PartsSpec
=============================================================================
