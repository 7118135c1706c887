----------------------------- MODULE SyncProofs -----------------------------
(***************************************************************************)
(* Proof, for every number of philosophers, that sem.c and monitor.c give  *)
(* one thread at a time the right to be in the critical section, that who  *)
(* returns from cond_wait() finds its condition, and that both groups of   *)
(* check_sync.c implement Dining.                                          *)
(*                                                                         *)
(* The wait queues are sequences.  DownEffect and UpEffect turn what       *)
(* down() and up() do to them into sets of waiting threads once; the rest  *)
(* of the proof is about those sets.                                       *)
(***************************************************************************)
EXTENDS MCSync, SequenceTheorems, TLAPS

Sem == INSTANCE Semaphores

\* The threads that sleep in the wait queue of each semaphore.
waiting == [s \in Sems |-> {queue[s][k] : k \in DOMAIN queue[s]}]

\* What holds of the semaphores whoever uses them.
SemOK == Sem!SemTypeOK /\ Sem!WaitersExact

Modes == {"thinking", "hungry", "eating"}

-----------------------------------------------------------------------------
\* The first group.  Between its up() for a neighbour and the neighbour's down()
\* the unit of s[i] says that i eats; MutexExact says who may change that.
SemPcs == {"think", "take", "hungry", "test", "taken", "await", "eat",
           "put", "full", "testLeft", "testRight", "leave", "quit"}

\* What the label of a philosopher says of its state and its semaphore.
SemLocal(i) ==
  /\ pc[i] \in {"think", "take", "hungry", "testLeft", "testRight", "leave", "quit"}
       => state[i] = "thinking"
  /\ pc[i] = "test" => state[i] = "hungry"
  /\ pc[i] \in {"taken", "await"} => state[i] \in {"hungry", "eating"}
  /\ pc[i] = "eat" => state[i] = IF i \in asleep THEN "hungry" ELSE "eating"
  /\ pc[i] \in {"put", "full"} => state[i] = "eating"
  /\ value[SemTest!S(i)] = IF pc[i] \in {"taken", "await"} /\ state[i] = "eating"
                           THEN 1 ELSE 0

\* What the queue a philosopher waits in says of its label.
SemPlaces ==
  \A s \in Sems : \A i \in waiting[s] :
    \/ s = SemTest!Mutex /\ pc[i] \in {"hungry", "full"}
    \/ s = SemTest!S(i) /\ pc[i] = "eat"

SemTypes ==
  /\ state \in [Threads -> Modes]
  /\ iter \in [Threads -> 0 .. TIMES]
  /\ pc \in [Threads -> SemPcs]

SemInv ==
  /\ SemTypes
  /\ SemPlaces
  /\ SemTest!MutexExact
  /\ \A i \in Threads : SemLocal(i)

-----------------------------------------------------------------------------
\* The second group.  At most one thread waits as a signaller: whom it woke only
\* leaves the monitor, and up(next) comes before up(mutex) (MonSignals).
MonPcs == {"think", "take", "hungry", "test", "decide", "wait", "waited", "taken", "eat",
           "put", "full", "testLeft", "testRight", "leave", "quit", "signalled", "resumed"}

MonTypes ==
  /\ state \in [Threads -> Modes]
  /\ iter \in [Threads -> 0 .. TIMES]
  /\ ret \in [Threads -> {"none", "testRight", "leave"}]
  /\ pc \in [Threads -> MonPcs]
  /\ nextCount \in Nat
  /\ count \in [Conds -> Nat]

\* What the label of a philosopher says of its state, its condition variable and
\* the two counters.
MonLocal(i) ==
  /\ pc[i] \in {"think", "take", "hungry", "testLeft", "testRight", "leave", "quit",
                "signalled", "resumed"} => state[i] = "thinking"
  /\ pc[i] = "test" => state[i] = "hungry"
  /\ pc[i] \in {"decide", "wait"} => state[i] \in {"hungry", "eating"}
  /\ pc[i] = "waited" => state[i] = IF i \in asleep THEN "hungry" ELSE "eating"
  /\ pc[i] \in {"taken", "eat", "put", "full"} => state[i] = "eating"
  /\ value[MonTest!Cv(i)] = IF pc[i] = "wait" /\ state[i] = "eating" THEN 1 ELSE 0
  /\ count[i] = IF pc[i] \in {"wait", "waited"} THEN 1 ELSE 0
  /\ ret[i] # "none" <=> pc[i] \in {"signalled", "resumed"}

\* What the queue a philosopher waits in says of its label.
MonPlaces ==
  \A s \in Sems : \A i \in waiting[s] :
    \/ s = MonTest!Mutex /\ pc[i] \in {"hungry", "full"}
    \/ s = MonTest!NextSem /\ pc[i] = "resumed"
    \/ s = MonTest!Cv(i) /\ pc[i] = "waited"

\* Who is in cond_signal() behind its up().
Signallers == {i \in Threads : pc[i] \in {"signalled", "resumed"}}

MonSignals ==
  /\ \A i, j \in Signallers : i = j
  /\ nextCount = IF Signallers = {} THEN 0 ELSE 1
  /\ Signallers # {} =>
       /\ value[MonTest!Mutex] = 0
       /\ \A i \in MonTest!Active : pc[i] \in {"waited", "taken", "resumed"}
  /\ value[MonTest!NextSem] > 0 => \E i \in Signallers : pc[i] = "signalled"

MonInv ==
  /\ MonTypes
  /\ MonPlaces
  /\ MonSignals
  /\ MonTest!OneInside
  /\ \A i \in Threads : MonLocal(i)

-----------------------------------------------------------------------------
\* The inductive invariant.
Inv ==
  /\ version \in {"semaphore", "condvar"}
  /\ SemOK
  /\ version = "semaphore" => SemInv
  /\ version = "condvar" => MonInv

-----------------------------------------------------------------------------
\* LEFT and RIGHT are philosophers, and others.
LEMMA Neighbours ==
  ASSUME NEW i \in Threads
  PROVE  /\ (i + N - 1) % N \in Threads /\ (i + N - 1) % N # i
         /\ (i + 1) % N \in Threads /\ (i + 1) % N # i
  BY MCSyncAssumption DEF Threads, SemTest!ConstantsOK

\* What the wait queues are, seen as sets.
LEMMA SleepersWait ==
  ASSUME SemOK
  PROVE  /\ value \in [Sems -> Nat] /\ asleep \subseteq Threads
         /\ asleep = UNION {waiting[s] : s \in Sems}
         /\ \A s, r \in Sems : \A i \in waiting[s] : i \in waiting[r] => s = r
         /\ \A s \in Sems : value[s] > 0 => waiting[s] = {}
<1> USE DEF SemOK, Sem!SemTypeOK, Sem!WaitersExact, waiting
<1>1. asleep = UNION {waiting[s] : s \in Sems}
  OBVIOUS
<1>2. \A s, r \in Sems : \A i \in waiting[s] : i \in waiting[r] => s = r
  OBVIOUS
<1>3. ASSUME NEW s \in Sems, value[s] > 0 PROVE waiting[s] = {}
  <2>1. queue[s] = <<>>
    BY <1>3
  <2> QED BY <2>1
<1> QED BY <1>1, <1>2, <1>3

\* down() takes a unit, or the thread falls asleep in that queue.
Takes(s) ==
  /\ value[s] > 0 /\ value' = [value EXCEPT ![s] = @ - 1]
  /\ asleep' = asleep /\ waiting' = waiting

Sleeps(t, s) ==
  /\ value[s] = 0 /\ value' = value
  /\ asleep' = asleep \cup {t} /\ waiting' = [waiting EXCEPT ![s] = @ \cup {t}]

\* up() adds a unit, or one thread of that queue wakes and has it.
Adds(s) ==
  /\ waiting[s] = {} /\ value' = [value EXCEPT ![s] = @ + 1]
  /\ asleep' = asleep /\ waiting' = waiting

Wakes(t, s) ==
  /\ t \in waiting[s] /\ value' = value
  /\ asleep' = asleep \ {t} /\ waiting' = [waiting EXCEPT ![s] = @ \ {t}]

\* down() keeps the queues exact and has one of the two effects.
LEMMA DownEffect ==
  ASSUME SemOK, NEW t \in Threads, NEW s \in Sems, t \notin asleep, Sem!Down(t, s)
  PROVE  SemOK' /\ (Takes(s) \/ Sleeps(t, s))
<1>1. CASE /\ value[s] > 0
           /\ value' = [value EXCEPT ![s] = @ - 1]
           /\ UNCHANGED <<queue, asleep>>
  <2>1. Takes(s)
    BY <1>1 DEF Takes, waiting
  <2>2. SemOK'
    BY <1>1 DEF SemOK, Sem!SemTypeOK, Sem!WaitersExact
  <2> QED BY <2>1, <2>2
<1>2. CASE /\ value[s] = 0
           /\ queue' = [queue EXCEPT ![s] = Append(@, t)]
           /\ asleep' = asleep \cup {t}
           /\ UNCHANGED value
  <2>1. /\ value \in [Sems -> Nat] /\ queue \in [Sems -> Seq(Threads)]
        /\ asleep \in SUBSET Threads
    BY DEF SemOK, Sem!SemTypeOK
  <2>2. /\ queue' \in [Sems -> Seq(Threads)] /\ queue'[s] = Append(queue[s], t)
        /\ \A r \in Sems : r # s => queue'[r] = queue[r]
    BY <1>2, <2>1
  <2>3. /\ Len(queue[s]) \in Nat /\ DOMAIN queue[s] = 1 .. Len(queue[s])
        /\ DOMAIN queue'[s] = 1 .. Len(queue[s]) + 1
        /\ queue'[s][Len(queue[s]) + 1] = t
        /\ \A k \in 1 .. Len(queue[s]) : queue'[s][k] = queue[s][k]
    BY <2>1, <2>2
  <2>4. \A r \in Sems : \A k \in DOMAIN queue[r] : queue[r][k] # t
    BY DEF SemOK, Sem!WaitersExact
  <2>5. waiting'[s] = waiting[s] \cup {t}
    <3>1. waiting[s] = {queue[s][k] : k \in 1 .. Len(queue[s])}
      BY <2>3 DEF waiting
    <3>2. waiting'[s] = {queue'[s][k] : k \in 1 .. Len(queue[s]) + 1}
      BY <2>3 DEF waiting
    <3>3. ASSUME NEW x \in waiting'[s] PROVE x \in waiting[s] \cup {t}
      BY <3>1, <3>2, <3>3, <2>3
    <3>4. ASSUME NEW x \in waiting[s] \cup {t} PROVE x \in waiting'[s]
      BY <3>1, <3>2, <3>4, <2>3
    <3> QED BY <3>3, <3>4
  <2>6. \A r \in Sems : r # s => waiting'[r] = waiting[r]
    BY <2>2 DEF waiting
  <2>7. waiting' = [waiting EXCEPT ![s] = @ \cup {t}]
    <3>1. waiting = [r \in Sems |-> waiting[r]] /\ waiting' = [r \in Sems |-> waiting'[r]]
      BY DEF waiting
    <3> QED BY <3>1, <2>5, <2>6
  <2>8. Sleeps(t, s)
    BY <1>2, <2>7 DEF Sleeps
  <2>9. asleep' = UNION {waiting'[r] : r \in Sems}
    BY <1>2, <2>5, <2>6, SleepersWait
  <2>10. \A r1, r2 \in Sems : \A k1 \in DOMAIN queue'[r1], k2 \in DOMAIN queue'[r2] :
           queue'[r1][k1] = queue'[r2][k2] => r1 = r2 /\ k1 = k2
    <3>1. \A r \in Sems : \A k \in DOMAIN queue'[r] :
            \/ k \in DOMAIN queue[r] /\ queue'[r][k] = queue[r][k]
            \/ r = s /\ k = Len(queue[s]) + 1 /\ queue'[r][k] = t
      BY <2>2, <2>3
    <3> QED BY <3>1, <2>4 DEF SemOK, Sem!WaitersExact
  <2>11. \A r \in Sems : value'[r] > 0 => queue'[r] = <<>>
    BY <1>2, <2>2 DEF SemOK, Sem!WaitersExact
  <2>12. Sem!WaitersExact'
    BY <2>9, <2>10, <2>11 DEF Sem!WaitersExact, waiting
  <2>13. Sem!SemTypeOK'
    BY <1>2, <2>1, <2>2 DEF Sem!SemTypeOK
  <2> QED BY <2>8, <2>12, <2>13 DEF SemOK
<1> QED BY <1>1, <1>2 DEF Sem!Down

\* up() keeps the queues exact and has one of the two effects.
LEMMA UpEffect ==
  ASSUME SemOK, NEW s \in Sems, Sem!Up(s)
  PROVE  SemOK' /\ (Adds(s) \/ \E t \in Threads : Wakes(t, s))
<1>1. CASE /\ queue[s] = <<>>
           /\ value' = [value EXCEPT ![s] = @ + 1]
           /\ UNCHANGED <<queue, asleep>>
  <2>1. Adds(s)
    BY <1>1 DEF Adds, waiting
  <2>2. SemOK'
    BY <1>1 DEF SemOK, Sem!SemTypeOK, Sem!WaitersExact
  <2> QED BY <2>1, <2>2
<1>2. CASE /\ queue[s] # <<>>
           /\ queue' = [queue EXCEPT ![s] = Tail(@)]
           /\ asleep' = asleep \ {Head(queue[s])}
           /\ UNCHANGED value
  <2>1. /\ value \in [Sems -> Nat] /\ queue \in [Sems -> Seq(Threads)]
        /\ asleep \in SUBSET Threads
    BY DEF SemOK, Sem!SemTypeOK
  <2>2. /\ queue' \in [Sems -> Seq(Threads)] /\ queue'[s] = Tail(queue[s])
        /\ \A r \in Sems : r # s => queue'[r] = queue[r]
    BY <1>2, <2>1
  <2>3. /\ Len(queue[s]) \in Nat \ {0} /\ DOMAIN queue[s] = 1 .. Len(queue[s])
        /\ DOMAIN queue'[s] = 1 .. Len(queue[s]) - 1
        /\ \A k \in 1 .. Len(queue[s]) - 1 : queue'[s][k] = queue[s][k + 1]
    BY <1>2, <2>1, <2>2
  <2>4. PICK t \in Threads : t = Head(queue[s]) /\ t = queue[s][1]
    BY <2>1, <2>3
  <2>5. \A r \in Sems : \A k \in DOMAIN queue[r] : queue[r][k] = t => r = s /\ k = 1
    BY <2>3, <2>4 DEF SemOK, Sem!WaitersExact
  <2>6. waiting'[s] = waiting[s] \ {t} /\ t \in waiting[s]
    <3>1. waiting[s] = {queue[s][k] : k \in 1 .. Len(queue[s])}
      BY <2>3 DEF waiting
    <3>2. waiting'[s] = {queue'[s][k] : k \in 1 .. Len(queue[s]) - 1}
      BY <2>3 DEF waiting
    <3>3. ASSUME NEW x \in waiting'[s] PROVE x \in waiting[s] \ {t}
      <4>1. PICK k \in 1 .. Len(queue[s]) - 1 : x = queue'[s][k]
        BY <3>2, <3>3
      <4>2. k + 1 \in 1 .. Len(queue[s]) /\ k + 1 # 1 /\ x = queue[s][k + 1]
        BY <4>1, <2>3
      <4> QED BY <4>2, <3>1, <2>3, <2>5
    <3>4. ASSUME NEW x \in waiting[s], x # t PROVE x \in waiting'[s]
      <4>1. PICK k \in 1 .. Len(queue[s]) : x = queue[s][k]
        BY <3>1, <3>4
      <4>2. k # 1 /\ k - 1 \in 1 .. Len(queue[s]) - 1 /\ x = queue'[s][k - 1]
        BY <4>1, <3>4, <2>3, <2>4
      <4> QED BY <4>2, <3>2
    <3>5. t \in waiting[s]
      BY <3>1, <2>3, <2>4
    <3> QED BY <3>3, <3>4, <3>5
  <2>7. \A r \in Sems : r # s => waiting'[r] = waiting[r]
    BY <2>2 DEF waiting
  <2>8. waiting' = [waiting EXCEPT ![s] = @ \ {t}]
    <3>1. waiting = [r \in Sems |-> waiting[r]] /\ waiting' = [r \in Sems |-> waiting'[r]]
      BY DEF waiting
    <3> QED BY <3>1, <2>6, <2>7
  <2>9. Wakes(t, s)
    BY <1>2, <2>4, <2>6, <2>8 DEF Wakes
  <2>10. asleep' = UNION {waiting'[r] : r \in Sems}
    <3>1. \A r \in Sems : r # s => t \notin waiting[r]
      BY <2>6, SleepersWait
    <3> QED BY <2>9, <2>6, <2>7, <3>1, SleepersWait DEF Wakes
  <2>11. \A r1, r2 \in Sems : \A k1 \in DOMAIN queue'[r1], k2 \in DOMAIN queue'[r2] :
           queue'[r1][k1] = queue'[r2][k2] => r1 = r2 /\ k1 = k2
    <3>1. \A r \in Sems : \A k \in DOMAIN queue'[r] :
            \/ r # s /\ k \in DOMAIN queue[r] /\ queue'[r][k] = queue[r][k]
            \/ /\ r = s /\ k \in Int /\ k + 1 \in DOMAIN queue[s]
               /\ queue'[r][k] = queue[s][k + 1]
      BY <2>2, <2>3
    <3>2. \A k1, k2 \in Int : k1 + 1 = k2 + 1 => k1 = k2
      OBVIOUS
    <3> QED BY <3>1, <3>2 DEF SemOK, Sem!WaitersExact
  <2>12. \A r \in Sems : value'[r] > 0 => queue'[r] = <<>>
    BY <1>2, <2>1, <2>2 DEF SemOK, Sem!WaitersExact
  <2>13. Sem!WaitersExact'
    BY <2>10, <2>11, <2>12 DEF Sem!WaitersExact, waiting
  <2>14. Sem!SemTypeOK'
    BY <1>2, <2>1, <2>2 DEF Sem!SemTypeOK
  <2> QED BY <2>9, <2>13, <2>14 DEF SemOK
<1> QED BY <1>1, <1>2 DEF Sem!Up

-----------------------------------------------------------------------------
\* The semaphores of the first group are different ones.
LEMMA SemNames ==
  /\ SemTest!Mutex \in Sems
  /\ \A i \in Threads : SemTest!S(i) \in Sems /\ SemTest!S(i) # SemTest!Mutex
  /\ \A i, j \in Threads : SemTest!S(i) = SemTest!S(j) => i = j
  BY DEF SemTest!Mutex, SemTest!S, Threads, Sems

\* A thread asleep is in a queue its pc tells.
LEMMA SemSleepers ==
  ASSUME SemOK, SemInv, NEW i \in asleep
  PROVE  \/ i \in waiting[SemTest!Mutex] /\ pc[i] \in {"hungry", "full"}
         \/ i \in waiting[SemTest!S(i)] /\ pc[i] = "eat"
  BY SleepersWait DEF SemInv, SemPlaces

\* Steps without a semaphore operation.
LEMMA SemPlain ==
  ASSUME SemOK, SemInv, NEW i \in Threads,
         SemTest!Think(i) \/ SemTest!TakeHungry(i) \/ SemTest!Eat(i) \/ SemTest!PutFull(i)
  PROVE  SemOK' /\ SemInv' /\ [MonTest!Table!Next]_state
<1> USE DEF SemTest!Think, SemTest!TakeHungry, SemTest!Eat, SemTest!PutFull,
            SemTest!Goes, SemTest!semVars, Modes
<1>1. /\ value' = value /\ queue' = queue /\ asleep' = asleep /\ waiting' = waiting
  BY DEF waiting
<1>2. SemOK'
  BY <1>1 DEF SemOK, Sem!SemTypeOK, Sem!WaitersExact
<1>3. SemTypes'
  <2>1. TIMES \in Nat /\ SemTypes
    BY MCSyncAssumption DEF SemTest!ConstantsOK, SemInv
  <2>2. pc' \in [Threads -> SemPcs] /\ state' \in [Threads -> Modes]
    BY <2>1 DEF SemTypes, SemPcs
  <2>3. iter' \in [Threads -> 0 .. TIMES]
    BY <2>1 DEF SemTypes
  <2> QED BY <2>2, <2>3 DEF SemTypes
<1>4. SemPlaces'
  BY <1>1, SleepersWait DEF SemInv, SemTypes, SemPlaces
<1>5. SemTest!MutexExact'
  <2>1. SemTest!Inside' = SemTest!Inside
    BY <1>1 DEF SemInv, SemTypes, SemTest!Inside, SemTest!Phil, Threads
  <2> QED BY <1>1, <2>1 DEF SemInv, SemTest!MutexExact
<1>6. ASSUME NEW j \in Threads PROVE SemLocal(j)'
  BY <1>1 DEF SemInv, SemTypes, SemLocal
<1>7. [MonTest!Table!Next]_state
  BY <1>1 DEF SemInv, SemTypes, SemLocal, Threads, MonTest!Table!Next, MonTest!Table!Phil,
              MonTest!Table!GetsHungry, MonTest!Table!StopsEating
<1> QED BY <1>2, <1>3, <1>4, <1>5, <1>6, <1>7 DEF SemInv

\* Who enters the critical section or waits for its forks.
LEMMA SemDowns ==
  ASSUME SemOK, SemInv, NEW i \in Threads,
         SemTest!TakeEnter(i) \/ SemTest!TakeAwait(i) \/ SemTest!PutEnter(i)
  PROVE  SemOK' /\ SemInv' /\ state' = state
<1> USE DEF Modes
<1>1. PICK s \in Sems, m \in SemPcs :
        /\ i \notin asleep /\ pc' = [pc EXCEPT ![i] = m]
        /\ SemTest!Down(i, s) /\ state' = state /\ iter' = iter
        /\ \/ s = SemTest!Mutex /\ pc[i] = "take" /\ m = "hungry"
           \/ s = SemTest!Mutex /\ pc[i] = "put" /\ m = "full"
           \/ s = SemTest!S(i) /\ pc[i] = "await" /\ m = "eat"
  BY SemNames DEF SemTest!TakeEnter, SemTest!TakeAwait, SemTest!PutEnter, SemTest!Goes, SemPcs
<1>2. Sem!Down(i, s)
  BY <1>1 DEF SemTest!Down, Sem!Down
<1>3. SemOK' /\ (Takes(s) \/ Sleeps(i, s))
  BY <1>1, <1>2, DownEffect
<1>4. SemTypes'
  BY <1>1 DEF SemInv, SemTypes
<1>5. waiting \in [Sems -> SUBSET Threads] /\ value \in [Sems -> Nat]
      /\ \A r \in Sems : i \notin waiting[r]
  BY <1>1, SleepersWait DEF waiting
<1>6. SemPlaces'
  BY <1>1, <1>3, <1>5 DEF SemInv, SemTypes, SemPlaces, Takes, Sleeps
<1>7. SemTest!MutexExact'
  <2>1. CASE Sleeps(i, s) \/ s = SemTest!S(i)
    <3>1. SemTest!Inside' = SemTest!Inside
      BY <1>1, <1>3, <2>1, SemNames
      DEF SemInv, SemTypes, SemTest!Inside, SemTest!Phil, Threads, Takes, Sleeps
    <3>2. value'[SemTest!Mutex] = value[SemTest!Mutex]
      BY <1>1, <1>3, <1>5, <2>1, SemNames DEF Takes, Sleeps
    <3> QED BY <3>1, <3>2 DEF SemInv, SemTest!MutexExact
  <2>2. CASE Takes(s) /\ s = SemTest!Mutex
    <3>1. value[s] = 1 /\ SemTest!Inside = {}
      BY <2>2, <1>5 DEF SemInv, SemTest!MutexExact, Takes
    <3>2. SemTest!Inside' = {i} /\ value'[s] = 0
      BY <1>1, <1>5, <2>2, <3>1, SemNames
      DEF SemInv, SemTypes, SemTest!Inside, SemTest!Phil, Threads, Takes
    <3> QED BY <2>2, <3>2 DEF SemTest!MutexExact
  <2> QED BY <1>1, <1>3, <2>1, <2>2
<1>8. ASSUME NEW j \in Threads PROVE SemLocal(j)'
  BY <1>1, <1>3, <1>5, SemNames DEF SemInv, SemTypes, SemLocal, Takes, Sleeps
<1> QED BY <1>1, <1>3, <1>4, <1>6, <1>7, <1>8 DEF SemInv

\* up(mutex) lets one in that waits, or leaves the mutex free.
LEMMA SemLeaves ==
  ASSUME SemOK, SemInv, NEW i \in Threads, SemTest!TakeLeave(i) \/ SemTest!PutLeave(i)
  PROVE  SemOK' /\ SemInv' /\ state' = state
<1> USE DEF Modes
<1>1. PICK m \in SemPcs :
        /\ i \notin asleep /\ pc' = [pc EXCEPT ![i] = m]
        /\ SemTest!Up(SemTest!Mutex) /\ state' = state /\ iter' = iter
        /\ \/ pc[i] = "taken" /\ m = "await"
           \/ pc[i] = "leave" /\ m = "think"
  BY DEF SemTest!TakeLeave, SemTest!PutLeave, SemTest!Goes, SemPcs
<1> DEFINE s == SemTest!Mutex
<1>2. Sem!Up(s) /\ s \in Sems
  BY <1>1, SemNames DEF SemTest!Up, Sem!Up
<1>3. SemOK' /\ (Adds(s) \/ \E t \in Threads : Wakes(t, s))
  BY <1>2, UpEffect
<1>4. SemTypes'
  BY <1>1 DEF SemInv, SemTypes
<1>5. waiting \in [Sems -> SUBSET Threads] /\ value \in [Sems -> Nat]
      /\ \A r \in Sems : i \notin waiting[r]
  BY <1>1, SleepersWait DEF waiting
<1>6. SemPlaces'
  BY <1>1, <1>2, <1>3, <1>5 DEF SemInv, SemTypes, SemPlaces, Adds, Wakes
<1>7. i \in SemTest!Inside /\ value[s] = 0 /\ \A j \in SemTest!Inside : j = i
  BY <1>1 DEF SemInv, SemTest!MutexExact, SemTest!Inside, SemTest!Phil, Threads
<1>8. SemTest!MutexExact'
  <2>1. CASE Adds(s)
    BY <1>1, <1>2, <1>5, <1>7, <2>1
    DEF SemInv, SemTypes, SemTest!MutexExact, SemTest!Inside, SemTest!Phil, Threads, Adds
  <2>2. ASSUME NEW t \in Threads, Wakes(t, s) PROVE SemTest!MutexExact'
    <3>1. pc[t] \in {"hungry", "full"} /\ t # i
      BY <1>1, <1>2, <2>2, SemNames DEF SemInv, SemPlaces, Wakes
    <3>2. SemTest!Inside' = {t}
      BY <1>1, <1>7, <2>2, <3>1
      DEF SemInv, SemTypes, SemTest!Inside, SemTest!Phil, Threads, Wakes
    <3> QED BY <1>7, <2>2, <3>2 DEF SemTest!MutexExact, Wakes
  <2> QED BY <1>3, <2>1, <2>2
<1>9. ASSUME NEW j \in Threads PROVE SemLocal(j)'
  BY <1>1, <1>2, <1>3, <1>5, SemNames, SleepersWait
  DEF SemInv, SemTypes, SemPlaces, SemLocal, Adds, Wakes
<1> QED BY <1>1, <1>3, <1>4, <1>6, <1>8, <1>9 DEF SemInv

\* phi_test_sema(): only a hungry philosopher that does not run there itself gets
\* to eat, and its semaphore gets the one unit it waits for.
LEMMA SemTests ==
  ASSUME SemOK, SemInv, NEW i \in Threads,
         SemTest!TakeTest(i) \/ SemTest!PutTestLeft(i) \/ SemTest!PutTestRight(i)
  PROVE  SemOK' /\ SemInv' /\ [MonTest!Table!Next]_state
<1> USE DEF Modes
<1>1. PICK j \in Threads, m \in SemPcs :
        /\ i \notin asleep /\ pc' = [pc EXCEPT ![i] = m]
        /\ SemTest!Test(j) /\ iter' = iter
        /\ \/ pc[i] = "test" /\ m = "taken" /\ j = i
           \/ pc[i] = "testLeft" /\ m = "testRight" /\ j # i
           \/ pc[i] = "testRight" /\ m = "leave" /\ j # i
  BY Neighbours DEF SemTest!TakeTest, SemTest!PutTestLeft, SemTest!PutTestRight, SemTest!Goes,
     SemPcs, SemTest!Left, SemTest!Right
<1> DEFINE s == SemTest!S(j)
<1>2. SemTypes'
  BY <1>1 DEF SemInv, SemTypes, SemTest!Test
<1>3. waiting \in [Sems -> SUBSET Threads] /\ value \in [Sems -> Nat] /\ s \in Sems
      /\ \A r \in Sems : i \notin waiting[r]
  BY <1>1, SleepersWait, SemNames DEF waiting
<1>4. i \in SemTest!Inside /\ \A k \in SemTest!Inside : k = i
  BY <1>1 DEF SemInv, SemTest!MutexExact, SemTest!Inside, SemTest!Phil, Threads
<1>5. CASE ~SemTest!MayEat(j) /\ UNCHANGED <<state, SemTest!semVars>>
  <2>1. /\ value' = value /\ queue' = queue /\ asleep' = asleep /\ waiting' = waiting
    BY <1>5 DEF SemTest!semVars, waiting
  <2>2. SemOK'
    BY <2>1 DEF SemOK, Sem!SemTypeOK, Sem!WaitersExact
  <2>3. SemPlaces'
    BY <1>1, <1>3, <2>1 DEF SemInv, SemTypes, SemPlaces
  <2>4. SemTest!MutexExact'
    BY <1>1, <2>1 DEF SemInv, SemTypes, SemTest!MutexExact, SemTest!Inside, SemTest!Phil, Threads
  <2>5. ASSUME NEW k \in Threads PROVE SemLocal(k)'
    BY <1>1, <1>5, <2>1 DEF SemInv, SemTypes, SemLocal
  <2> QED BY <1>2, <1>5, <2>2, <2>3, <2>4, <2>5 DEF SemInv
<1>6. CASE SemTest!MayEat(j) /\ state' = [state EXCEPT ![j] = "eating"] /\ SemTest!Up(s)
  <2>1. SemOK' /\ (Adds(s) \/ \E t \in Threads : Wakes(t, s))
    BY <1>3, <1>6, UpEffect DEF SemTest!Up, Sem!Up
  <2>2. SemPlaces'
    BY <1>1, <1>3, <2>1 DEF SemInv, SemTypes, SemPlaces, Adds, Wakes
  <2>3. j # i /\ pc[j] = "test" => FALSE
    BY <1>4, SemSleepers DEF SemTest!Inside, SemTest!Phil, Threads
  <2>4. state[j] = "hungry"
    BY <1>6 DEF SemTest!MayEat
  <2>5. SemTest!MutexExact'
    BY <1>1, <1>3, <2>1, SemNames, SMTT(30)
    DEF SemInv, SemTypes, SemPlaces, SemTest!MutexExact, SemTest!Inside, SemTest!Phil, Threads,
        Adds, Wakes
  <2>6. ASSUME NEW k \in Threads PROVE SemLocal(k)'
    <3>1. CASE k = j
      <4>1. \A t \in Threads : Wakes(t, s) => t = j /\ pc[j] = "eat" /\ j \in asleep
        BY <1>3, SemNames, SleepersWait DEF SemInv, SemPlaces, Wakes
      <4>2. pc[j] = "eat" => j \in waiting[s]
        BY <2>4, SemSleepers DEF SemInv, SemLocal
      <4>3. \/ Adds(s) /\ pc[j] \in {"test", "taken", "await"}
            \/ Wakes(j, s) /\ pc[j] = "eat"
        BY <2>1, <2>4, <4>1, <4>2 DEF SemInv, SemTypes, SemLocal, SemPcs, Adds
      <4>4. value[s] = 0 /\ state'[j] = "eating"
        BY <1>6, <2>4 DEF SemInv, SemTypes, SemLocal
      <4>5. CASE Adds(s) /\ pc[j] \in {"test", "taken", "await"}
        <5>1. pc'[j] \in {"taken", "await"} /\ value'[s] = 1
          BY <1>1, <1>3, <2>3, <4>1, <4>4, <4>5 DEF SemInv, SemTypes, Adds
        <5> QED BY <3>1, <4>4, <5>1 DEF SemLocal
      <4>6. CASE Wakes(j, s) /\ pc[j] = "eat"
        <5>1. pc'[j] = "eat" /\ value'[s] = 0 /\ j \notin asleep'
          BY <1>1, <4>4, <4>6 DEF SemInv, SemTypes, Wakes
        <5> QED BY <3>1, <4>4, <5>1 DEF SemLocal
      <4> QED BY <4>3, <4>5, <4>6
    <3>2. CASE k # j
      BY <1>1, <1>3, <1>6, <2>1, <3>2, SemNames, SleepersWait
      DEF SemInv, SemTypes, SemPlaces, SemLocal, Adds, Wakes
    <3> QED BY <3>1, <3>2
  <2>7. MonTest!Table!Next
    BY <1>6 DEF SemTest!MayEat, SemTest!Left, SemTest!Right, Threads, MonTest!Table!Next,
       MonTest!Table!StartsEating, MonTest!Table!Phil, MonTest!Table!Left, MonTest!Table!Right
  <2> QED BY <1>2, <2>1, <2>2, <2>5, <2>6, <2>7 DEF SemInv
<1> QED BY <1>1, <1>5, <1>6 DEF SemTest!Test

\* Every step of the first group keeps the invariant and is one of Dining.
LEMMA SemStep ==
  ASSUME SemOK, SemInv, NEW i \in Threads, SemTest!Step(i)
  PROVE  SemOK' /\ SemInv' /\ [MonTest!Table!Next]_state
  BY SemPlain, SemDowns, SemLeaves, SemTests DEF SemTest!Step

-----------------------------------------------------------------------------
\* The semaphores of the monitor are different ones.
LEMMA MonNames ==
  /\ MonTest!Mutex \in Sems /\ MonTest!NextSem \in Sems
  /\ MonTest!Mutex # MonTest!NextSem
  /\ \A i \in Threads : /\ MonTest!Cv(i) \in Sems
                        /\ MonTest!Cv(i) # MonTest!Mutex /\ MonTest!Cv(i) # MonTest!NextSem
  /\ \A i, j \in Threads : MonTest!Cv(i) = MonTest!Cv(j) => i = j
  BY DEF MonTest!Mutex, MonTest!NextSem, MonTest!Cv, Threads, Sems

\* A thread asleep is in a queue its pc tells.
LEMMA MonSleepers ==
  ASSUME SemOK, MonInv, NEW i \in asleep
  PROVE  \/ i \in waiting[MonTest!Mutex] /\ pc[i] \in {"hungry", "full"}
         \/ i \in waiting[MonTest!NextSem] /\ pc[i] = "resumed"
         \/ i \in waiting[MonTest!Cv(i)] /\ pc[i] = "waited"
  BY SleepersWait DEF MonInv, MonPlaces

\* The labels at which a thread that runs is in the monitor.
ActivePcs == {"hungry", "test", "decide", "resumed", "waited", "taken",
              "full", "testLeft", "testRight", "leave"}

\* Active in terms of the labels, now and after a step.
LEMMA WhoIsActive ==
  /\ MonTest!Active = {i \in Threads \ asleep : pc[i] \in ActivePcs}
  /\ MonTest!Active' = {i \in Threads \ asleep' : pc'[i] \in ActivePcs}
  BY DEF MonTest!Active, MonTest!Phil, Threads, ActivePcs

\* i goes on to label m.
GoesTo(i, m) == i \in Threads /\ i \notin asleep /\ m \in MonPcs /\ pc' = [pc EXCEPT ![i] = m]

\* A step without an up() or a down() that does not leave or enter the monitor.
LEMMA MonQuiet ==
  ASSUME SemOK, MonInv, NEW i, NEW m, GoesTo(i, m), UNCHANGED MonTest!semVars,
         pc[i] \in ActivePcs <=> m \in ActivePcs
  PROVE  /\ SemOK' /\ MonPlaces' /\ MonTest!OneInside'
         /\ MonTest!Active' = MonTest!Active
         /\ value' = value /\ asleep' = asleep /\ waiting' = waiting
<1>1. /\ value' = value /\ queue' = queue /\ asleep' = asleep /\ waiting' = waiting
  BY DEF waiting, MonTest!semVars
<1>2. SemOK'
  BY <1>1 DEF SemOK, Sem!SemTypeOK, Sem!WaitersExact
<1>3. MonPlaces'
  BY <1>1, SleepersWait DEF MonInv, MonTypes, MonPlaces, GoesTo
<1>4. MonTest!Active' = MonTest!Active
  <2>1. {j \in Threads \ asleep' : pc'[j] \in ActivePcs}
           = {j \in Threads \ asleep : pc[j] \in ActivePcs}
    BY <1>1 DEF MonInv, MonTypes, GoesTo
  <2> QED BY <2>1, WhoIsActive
<1>5. MonTest!OneInside'
  BY <1>1, <1>4 DEF MonInv, MonTest!OneInside, MonTest!Granted
<1> QED BY <1>1, <1>2, <1>3, <1>4, <1>5

\* A down() by a thread outside the monitor gives it the right to be inside, or
\* it sleeps until it has it.
LEMMA MonTakesOver ==
  ASSUME SemOK, MonInv, NEW i, NEW m, NEW s \in Sems, GoesTo(i, m), MonTest!Down(i, s),
         pc[i] \notin ActivePcs,
         \/ s = MonTest!Mutex /\ m \in {"hungry", "full"}
         \/ s = MonTest!NextSem /\ m = "resumed"
         \/ s = MonTest!Cv(i) /\ m = "waited"
  PROVE  /\ SemOK' /\ MonPlaces' /\ MonTest!OneInside'
         /\ \/ Takes(s) /\ value[s] = 1 /\ MonTest!Active = {} /\ MonTest!Active' = {i}
               /\ \A r \in Sems : value'[r] = 0
            \/ Sleeps(i, s) /\ MonTest!Active' = MonTest!Active
<1>1. SemOK' /\ (Takes(s) \/ Sleeps(i, s))
  BY DownEffect DEF MonTest!Down, Sem!Down, GoesTo
<1>2. /\ waiting \in [Sems -> SUBSET Threads] /\ value \in [Sems -> Nat]
      /\ \A r \in Sems : i \notin waiting[r]
  BY SleepersWait DEF waiting, GoesTo
<1>3. MonPlaces'
  BY <1>1, <1>2 DEF MonInv, MonTypes, MonPlaces, GoesTo, Takes, Sleeps
<1>4. m \in ActivePcs
  BY DEF ActivePcs
<1>5. CASE Takes(s)
  <2>1. value[s] = 1 /\ MonTest!Active = {} /\ \A r \in Sems : value[r] # 0 => r = s
    BY <1>2, <1>5 DEF MonInv, MonTest!OneInside, MonTest!Granted, Takes
  <2>2. {j \in Threads \ asleep' : pc'[j] \in ActivePcs} = {i}
    BY <1>4, <1>5, <2>1, WhoIsActive DEF Takes, MonInv, MonTypes, GoesTo
  <2>3. MonTest!Active' = {i}
    BY <2>2, WhoIsActive
  <2>4. \A r \in Sems : value'[r] = 0
    BY <1>2, <1>5, <2>1 DEF Takes
  <2>5. MonTest!OneInside'
    BY <2>3, <2>4 DEF MonTest!OneInside, MonTest!Granted
  <2> QED BY <1>1, <1>3, <1>5, <2>1, <2>3, <2>4, <2>5
<1>6. CASE Sleeps(i, s)
  <2>1. {j \in Threads \ asleep' : pc'[j] \in ActivePcs}
          = {j \in Threads \ asleep : pc[j] \in ActivePcs}
    BY <1>6 DEF Sleeps, MonInv, MonTypes, GoesTo
  <2>2. MonTest!Active' = MonTest!Active
    BY <2>1, WhoIsActive
  <2>3. MonTest!OneInside'
    BY <1>6, <2>2 DEF MonInv, MonTest!OneInside, MonTest!Granted, Sleeps
  <2> QED BY <1>1, <1>3, <1>6, <2>2, <2>3
<1> QED BY <1>1, <1>5, <1>6

\* An up() by the thread inside, which goes out, hands the right to be inside to
\* the thread it wakes, or leaves it with the semaphore.
LEMMA MonHandsOn ==
  ASSUME SemOK, MonInv, NEW i, NEW m, NEW s \in Sems, GoesTo(i, m), MonTest!Up(s),
         pc[i] \in ActivePcs, m \notin ActivePcs
  PROVE  /\ SemOK' /\ MonPlaces' /\ MonTest!OneInside'
         /\ \A r \in Sems : value[r] = 0
         /\ \A j \in Threads \ {i} : j \notin asleep => pc[j] \notin ActivePcs
         /\ \/ Adds(s) /\ MonTest!Active' = {}
            \/ \E t \in Threads : /\ Wakes(t, s) /\ t # i /\ t \in asleep
                                  /\ MonTest!Active' = {t}
<1>1. SemOK' /\ (Adds(s) \/ \E t \in Threads : Wakes(t, s))
  BY UpEffect DEF MonTest!Up, Sem!Up
<1>2. /\ waiting \in [Sems -> SUBSET Threads] /\ value \in [Sems -> Nat]
      /\ \A r \in Sems : i \notin waiting[r]
  BY SleepersWait DEF waiting, GoesTo
<1>3. MonPlaces'
  BY <1>1, <1>2 DEF MonInv, MonTypes, MonPlaces, GoesTo, Adds, Wakes
<1>4. i \in MonTest!Active
  BY WhoIsActive DEF GoesTo
<1>5. \A j \in Threads \ {i} : j \notin asleep => pc[j] \notin ActivePcs
  BY <1>4, WhoIsActive DEF MonInv, MonTest!OneInside
<1>6. \A r \in Sems : value[r] = 0
  BY <1>2, <1>4 DEF MonInv, MonTest!OneInside, MonTest!Granted
<1>7. CASE Adds(s)
  <2>1. {j \in Threads \ asleep' : pc'[j] \in ActivePcs} = {}
    BY <1>5, <1>7 DEF Adds, MonInv, MonTypes, GoesTo
  <2>2. MonTest!Active' = {}
    BY <2>1, WhoIsActive
  <2>3. \A r \in Sems : value'[r] = IF r = s THEN 1 ELSE 0
    BY <1>2, <1>6, <1>7 DEF Adds
  <2>4. MonTest!OneInside'
    BY <2>2, <2>3 DEF MonTest!OneInside, MonTest!Granted
  <2> QED BY <1>1, <1>3, <1>5, <1>6, <1>7, <2>2, <2>4
<1>8. ASSUME NEW t \in Threads, Wakes(t, s)
      PROVE  MonTest!OneInside' /\ t # i /\ t \in asleep /\ MonTest!Active' = {t}
  <2>1. t # i /\ t \in asleep /\ pc[t] \in ActivePcs
    BY <1>2, <1>8, SleepersWait DEF Wakes, MonInv, MonPlaces, ActivePcs
  <2>2. {j \in Threads \ asleep' : pc'[j] \in ActivePcs} = {t}
    BY <1>5, <1>8, <2>1 DEF Wakes, MonInv, MonTypes, GoesTo
  <2>3. MonTest!Active' = {t}
    BY <2>2, WhoIsActive
  <2>4. MonTest!OneInside'
    BY <1>6, <1>8, <2>3 DEF Wakes, MonTest!OneInside, MonTest!Granted
  <2> QED BY <2>1, <2>3, <2>4
<1> QED BY <1>1, <1>3, <1>5, <1>6, <1>7, <1>8

\* Steps that leave the semaphores, the counters and the monitor as they are.
LEMMA MonPlain ==
  ASSUME SemOK, MonInv, NEW i \in Threads,
         \/ MonTest!Think(i) \/ MonTest!TakeHungry(i) \/ MonTest!Eat(i) \/ MonTest!PutFull(i)
         \/ MonTest!TakeDecide(i) /\ state[i] # "hungry"
  PROVE  SemOK' /\ MonInv' /\ [MonTest!Table!Next]_state
<1> USE DEF MonTest!Think, MonTest!TakeHungry, MonTest!Eat, MonTest!PutFull, MonTest!TakeDecide,
            MonTest!Goes, MonTest!monitorVars, MonTest!semVars
<1>1. PICK m \in MonPcs : GoesTo(i, m) /\ (pc[i] \in ActivePcs <=> m \in ActivePcs)
  BY DEF GoesTo, MonPcs, ActivePcs
<1>2. UNCHANGED <<value, queue, asleep>> /\ UNCHANGED <<nextCount, count, ret>>
  OBVIOUS
<1>3. /\ SemOK' /\ MonPlaces' /\ MonTest!OneInside' /\ MonTest!Active' = MonTest!Active
      /\ value' = value /\ asleep' = asleep
  BY <1>1, <1>2, MonQuiet
<1>4. MonTypes'
  <2>1. TIMES \in Nat /\ MonTypes
    BY MCSyncAssumption DEF SemTest!ConstantsOK, MonInv
  <2>2. pc' \in [Threads -> MonPcs] /\ state' \in [Threads -> Modes]
    BY <2>1 DEF MonTypes, MonPcs, Modes
  <2>3. iter' \in [Threads -> 0 .. TIMES]
    BY <2>1 DEF MonTypes
  <2> QED BY <1>2, <2>1, <2>2, <2>3 DEF MonTypes
<1>5. MonSignals'
  <2>1. Signallers' = Signallers
    BY <1>1 DEF MonInv, MonTypes, Signallers, GoesTo
  <2>2. \A j \in Threads : pc[j] \in {"waited", "taken", "resumed", "signalled"} => pc'[j] = pc[j]
    BY DEF MonInv, MonTypes
  <2>3. MonTest!Active \subseteq Threads
    BY WhoIsActive
  <2> QED BY <1>2, <1>3, <2>1, <2>2, <2>3 DEF MonInv, MonSignals, Signallers
<1>6. ASSUME NEW j \in Threads PROVE MonLocal(j)'
  BY <1>2, <1>3 DEF MonInv, MonTypes, MonLocal, Modes
<1>7. [MonTest!Table!Next]_state
  BY <1>3 DEF MonInv, MonTypes, MonLocal, Modes, Threads, MonTest!Table!Next, MonTest!Table!Phil,
              MonTest!Table!GetsHungry, MonTest!Table!StopsEating
<1> QED BY <1>3, <1>4, <1>5, <1>6, <1>7 DEF MonInv

\* phi_test_condvar() of a philosopher that may not eat or does not wait.
LEMMA MonTestsNobody ==
  ASSUME SemOK, MonInv, NEW i \in Threads, NEW j \in Threads, NEW m \in MonPcs,
         GoesTo(i, m), UNCHANGED <<MonTest!monitorVars, ret, iter>>,
         \/ pc[i] = "test" /\ m = "decide" /\ j = i
         \/ pc[i] = "testLeft" /\ m = "testRight" /\ j # i
         \/ pc[i] = "testRight" /\ m = "leave" /\ j # i,
         \/ ~MonTest!MayEat(j) /\ state' = state
         \/ MonTest!MayEat(j) /\ state' = [state EXCEPT ![j] = "eating"] /\ count[j] = 0
  PROVE  SemOK' /\ MonInv'
<1>1. pc[i] \in ActivePcs /\ m \in ActivePcs
  BY DEF ActivePcs
<1>2. UNCHANGED <<value, queue, asleep>> /\ UNCHANGED <<nextCount, count, ret, iter>>
  BY DEF MonTest!monitorVars, MonTest!semVars
<1>3. /\ SemOK' /\ MonPlaces' /\ MonTest!OneInside' /\ MonTest!Active' = MonTest!Active
      /\ value' = value /\ asleep' = asleep
  BY <1>1, <1>2, MonQuiet DEF MonTest!semVars
<1>4. MonTypes'
  BY <1>2 DEF MonInv, MonTypes, GoesTo, Modes
<1>5. MonSignals'
  <2>1. Signallers' = Signallers
    BY DEF MonInv, MonTypes, Signallers, GoesTo
  <2>2. \A k \in Threads : pc[k] \in {"waited", "taken", "resumed", "signalled"} => pc'[k] = pc[k]
    BY DEF MonInv, MonTypes, GoesTo
  <2>3. MonTest!Active \subseteq Threads
    BY WhoIsActive
  <2> QED BY <1>2, <1>3, <2>1, <2>2, <2>3 DEF MonInv, MonSignals, Signallers
<1>6. state'[j] # state[j] => /\ state[j] = "hungry" /\ state'[j] = "eating" /\ count[j] = 0
  BY DEF MonInv, MonTypes, MonTest!MayEat
<1>7. \A k \in Threads : k # j => state'[k] = state[k]
  BY DEF MonInv, MonTypes
<1>8. j # i /\ pc[j] \in {"test", "decide"} => j \in asleep
  BY <1>1, WhoIsActive DEF MonInv, MonTest!OneInside, ActivePcs, GoesTo
<1>9. pc[j] \in {"test", "decide"} => j \notin asleep
  BY MonSleepers
<1>10. ASSUME NEW k \in Threads PROVE MonLocal(k)'
  BY <1>2, <1>3, <1>6, <1>7, <1>8, <1>9 DEF MonInv, MonTypes, MonLocal, Modes, GoesTo
<1> QED BY <1>3, <1>4, <1>5, <1>10 DEF MonInv

\* phi_test_condvar() of a neighbour that waits: cond_signal() up to down(next).
LEMMA MonTestsWaiter ==
  ASSUME SemOK, MonInv, NEW i \in Threads, NEW j \in Threads, NEW m \in {"testRight", "leave"},
         GoesTo(i, "signalled"), ret' = [ret EXCEPT ![i] = m], iter' = iter,
         pc[i] \in {"testLeft", "testRight"}, j # i,
         MonTest!MayEat(j), state' = [state EXCEPT ![j] = "eating"], MonTest!Signal(j)
  PROVE  SemOK' /\ MonInv'
<1> DEFINE s == MonTest!Cv(j)
<1>1. /\ s \in Sems /\ s # MonTest!Mutex /\ s # MonTest!NextSem
      /\ MonTest!Mutex \in Sems /\ MonTest!NextSem \in Sems
      /\ \A k \in Threads : k # j => MonTest!Cv(k) # s /\ MonTest!Cv(k) \in Sems
  BY MonNames
<1> HIDE DEF s
<1>2. /\ pc[i] \in ActivePcs /\ "signalled" \notin ActivePcs
  BY DEF ActivePcs
<1>3. /\ MonTest!Up(s) /\ nextCount' = nextCount + 1 /\ count' = count /\ count[j] > 0
      /\ state[j] = "hungry"
  BY DEF MonTest!Signal, s, MonTest!MayEat
<1>4. /\ SemOK' /\ MonPlaces' /\ MonTest!OneInside'
      /\ \A r \in Sems : value[r] = 0
      /\ \/ Adds(s) /\ MonTest!Active' = {}
         \/ \E t \in Threads : Wakes(t, s) /\ t # i /\ t \in asleep /\ MonTest!Active' = {t}
  BY <1>1, <1>2, <1>3, MonHandsOn
<1>5. MonTypes'
  BY <1>3 DEF MonInv, MonTypes, GoesTo, Modes
<1>6. i \in MonTest!Active
  BY <1>2, WhoIsActive DEF GoesTo
<1>7. Signallers = {} /\ nextCount = 0
  BY <1>6 DEF MonInv, MonSignals
<1>8. Signallers' = {i} /\ nextCount' = 1 /\ pc'[i] = "signalled"
  BY <1>3, <1>7 DEF MonInv, MonTypes, Signallers, GoesTo
<1>9. pc[j] \in {"wait", "waited"} /\ (pc[j] = "waited" => j \in asleep)
  BY <1>3 DEF MonInv, MonTypes, MonLocal
<1>10. \A t \in Threads : Wakes(t, s) => t = j /\ pc[j] = "waited"
  BY <1>1, MonNames DEF MonInv, MonPlaces, Wakes, s
<1>11. pc[j] = "waited" => j \in waiting[s]
  BY <1>9, MonSleepers DEF s
<1>12. \/ Adds(s) /\ pc[j] = "wait" /\ MonTest!Active' = {}
       \/ Wakes(j, s) /\ pc[j] = "waited" /\ MonTest!Active' = {j}
  BY <1>4, <1>9, <1>10, <1>11 DEF Adds
<1>13. /\ \A k \in Threads : k # i => pc'[k] = pc[k]
       /\ \A k \in Threads : k # j => state'[k] = state[k]
       /\ state'[j] = "eating"
       /\ \A k \in Threads : k # j => (k \in asleep' <=> k \in asleep)
       /\ \A r \in Sems : r # s => value'[r] = value[r]
  BY <1>12, SleepersWait DEF MonInv, MonTypes, GoesTo, Adds, Wakes
<1>14. MonSignals'
  BY <1>1, <1>4, <1>8, <1>12, <1>13 DEF MonSignals
<1>15. value'[s] = (IF pc[j] = "wait" THEN 1 ELSE 0) /\ (pc[j] = "waited" => j \notin asleep')
  BY <1>1, <1>4, <1>12, SleepersWait DEF Adds, Wakes
<1>16. ASSUME NEW k \in Threads PROVE MonLocal(k)'
  <2>1. CASE k = j
    BY <1>3, <1>9, <1>13, <1>15, <2>1 DEF MonInv, MonTypes, MonLocal, s
  <2>2. CASE k = i
    <3>1. state'[i] = "thinking"
      BY <1>13 DEF MonInv, MonLocal
    <3>2. pc'[i] = "signalled" /\ ret'[i] # "none" /\ count'[i] = 0
      BY <1>3, <1>8 DEF MonInv, MonTypes, MonLocal
    <3>3. value'[MonTest!Cv(i)] = 0
      BY <1>1, <1>4, <1>13
    <3> QED BY <2>2, <3>1, <3>2, <3>3 DEF MonLocal
  <2>3. CASE k # j /\ k # i
    BY <1>1, <1>3, <1>13, <2>3 DEF MonInv, MonTypes, MonLocal
  <2> QED BY <2>1, <2>2, <2>3
<1> QED BY <1>4, <1>5, <1>14, <1>16 DEF MonInv

\* phi_test_condvar() by a philosopher for itself or for a neighbour.
LEMMA MonTests ==
  ASSUME SemOK, MonInv, NEW i \in Threads,
         MonTest!TakeTest(i) \/ MonTest!PutTestLeft(i) \/ MonTest!PutTestRight(i)
  PROVE  SemOK' /\ MonInv' /\ [MonTest!Table!Next]_state
<1>1. PICK j \in Threads, l \in MonPcs, m \in {"decide", "testRight", "leave"} :
        /\ MonTest!Test(i, j, l, m)
        /\ \/ l = "test" /\ m = "decide" /\ j = i
           \/ l = "testLeft" /\ m = "testRight" /\ j # i
           \/ l = "testRight" /\ m = "leave" /\ j # i
  BY Neighbours DEF MonTest!TakeTest, MonTest!PutTestLeft, MonTest!PutTestRight, MonPcs,
     MonTest!Left, MonTest!Right
<1>2. pc[i] = l /\ i \notin asleep /\ iter' = iter
  BY <1>1 DEF MonTest!Test, MonTest!Goes
<1>3. ASSUME MonTest!Goes(i, l, m), UNCHANGED <<MonTest!monitorVars, ret>>,
             \/ ~MonTest!MayEat(j) /\ state' = state
             \/ MonTest!MayEat(j) /\ state' = [state EXCEPT ![j] = "eating"] /\ count[j] = 0
      PROVE  SemOK' /\ MonInv'
  <2>1. GoesTo(i, m)
    BY <1>1, <1>3 DEF MonTest!Goes, GoesTo, MonPcs
  <2>2. UNCHANGED <<MonTest!monitorVars, ret, iter>> /\ m \in MonPcs
    BY <1>2, <1>3 DEF MonPcs
  <2>3. \/ pc[i] = "test" /\ m = "decide" /\ j = i
        \/ pc[i] = "testLeft" /\ m = "testRight" /\ j # i
        \/ pc[i] = "testRight" /\ m = "leave" /\ j # i
    BY <1>1, <1>2
  <2> QED BY <1>3, <2>1, <2>2, <2>3, MonTestsNobody
<1>4. ASSUME MonTest!MayEat(j), state' = [state EXCEPT ![j] = "eating"],
             MonTest!Signal(j), MonTest!Goes(i, l, "signalled"), ret' = [ret EXCEPT ![i] = m]
      PROVE  SemOK' /\ MonInv'
  <2>1. GoesTo(i, "signalled")
    BY <1>4 DEF MonTest!Goes, GoesTo, MonPcs
  <2>2. l # "test"
    BY <1>1, <1>2, <1>4 DEF MonTest!Signal, MonInv, MonLocal
  <2>3. m \in {"testRight", "leave"} /\ pc[i] \in {"testLeft", "testRight"} /\ j # i
    BY <1>1, <1>2, <2>2
  <2> QED BY <1>2, <1>4, <2>1, <2>3, MonTestsWaiter
<1>5. [MonTest!Table!Next]_state
  <2>1. \/ state' = state
        \/ MonTest!MayEat(j) /\ state' = [state EXCEPT ![j] = "eating"]
    BY <1>1 DEF MonTest!Test
  <2> QED BY <2>1 DEF MonTest!MayEat, MonTest!Left, MonTest!Right, Threads, MonTest!Table!Next,
       MonTest!Table!StartsEating, MonTest!Table!Phil, MonTest!Table!Left, MonTest!Table!Right
<1>6. SemOK' /\ MonInv'
  BY <1>1, <1>3, <1>4 DEF MonTest!Test
<1> QED BY <1>5, <1>6

\* Who enters the monitor, waits as a signaller or waits for the condition.
LEMMA MonDowns ==
  ASSUME SemOK, MonInv, NEW i \in Threads,
         \/ MonTest!TakeEnter(i) \/ MonTest!PutEnter(i)
         \/ MonTest!Goes(i, "signalled", "resumed") /\ MonTest!SignalWaits(i)
              /\ UNCHANGED <<state, iter, ret>>
         \/ MonTest!Goes(i, "wait", "waited") /\ MonTest!WaitBlocks(i, i)
              /\ UNCHANGED <<state, iter, ret>>
  PROVE  SemOK' /\ MonInv' /\ state' = state
<1>1. PICK s \in Sems, m \in MonPcs :
        /\ GoesTo(i, m) /\ MonTest!Down(i, s)
        /\ \/ s = MonTest!Mutex /\ pc[i] = "take" /\ m = "hungry"
           \/ s = MonTest!Mutex /\ pc[i] = "put" /\ m = "full"
           \/ s = MonTest!NextSem /\ pc[i] = "signalled" /\ m = "resumed"
           \/ s = MonTest!Cv(i) /\ pc[i] = "wait" /\ m = "waited"
  BY MonNames DEF MonTest!TakeEnter, MonTest!PutEnter, MonTest!Enter, MonTest!SignalWaits,
     MonTest!WaitBlocks, MonTest!Goes, GoesTo, MonPcs
<1>2. UNCHANGED <<state, iter, ret, nextCount, count>>
  BY DEF MonTest!TakeEnter, MonTest!PutEnter, MonTest!Enter, MonTest!SignalWaits,
     MonTest!WaitBlocks
<1>3. /\ SemOK' /\ MonPlaces' /\ MonTest!OneInside'
      /\ \/ Takes(s) /\ value[s] = 1 /\ MonTest!Active = {} /\ MonTest!Active' = {i}
            /\ \A r \in Sems : value'[r] = 0
         \/ Sleeps(i, s) /\ MonTest!Active' = MonTest!Active
  <2>1. pc[i] \notin ActivePcs
    BY <1>1 DEF ActivePcs
  <2>2. \/ s = MonTest!Mutex /\ m \in {"hungry", "full"}
        \/ s = MonTest!NextSem /\ m = "resumed"
        \/ s = MonTest!Cv(i) /\ m = "waited"
    BY <1>1
  <2> QED BY <1>1, <2>1, <2>2, MonTakesOver
<1>4. MonTypes'
  BY <1>1, <1>2 DEF MonInv, MonTypes, GoesTo
<1>5. /\ \A j \in Threads : j # i => pc'[j] = pc[j]
      /\ pc'[i] = m /\ value \in [Sems -> Nat]
  BY <1>1, SleepersWait DEF MonInv, MonTypes, GoesTo
<1>6. Signallers' = Signallers
  BY <1>1, <1>5 DEF Signallers
<1>7. MonSignals'
  <2>1. CASE Takes(s) /\ value[s] = 1 /\ MonTest!Active' = {i} /\ \A r \in Sems : value'[r] = 0
    <3>1. Signallers # {} => m \in {"waited", "resumed"}
      BY <1>1, <2>1 DEF MonInv, MonSignals
    <3> QED BY <1>2, <1>5, <1>6, <2>1, <3>1, MonNames DEF MonInv, MonSignals
  <2>2. CASE Sleeps(i, s) /\ MonTest!Active' = MonTest!Active
    <3>1. i \notin MonTest!Active /\ MonTest!Active \subseteq Threads
      BY <1>1, WhoIsActive DEF ActivePcs
    <3>2. value' = value
      BY <2>2 DEF Sleeps
    <3>3. value[MonTest!NextSem] > 0 => s # MonTest!NextSem
      BY <2>2 DEF Sleeps
    <3>4. value[MonTest!NextSem] > 0 => \E j \in Signallers : pc'[j] = "signalled"
      BY <1>1, <1>5, <3>3 DEF MonInv, MonSignals, Signallers
    <3> QED BY <1>2, <1>5, <1>6, <2>2, <3>1, <3>2, <3>4 DEF MonInv, MonSignals
  <2> QED BY <1>3, <2>1, <2>2
<1>8. ASSUME NEW j \in Threads PROVE MonLocal(j)'
  <2>1. /\ \A k \in Threads : k # i => (k \in asleep' <=> k \in asleep)
        /\ state' = state /\ count' = count /\ ret' = ret
    BY <1>2, <1>3 DEF Takes, Sleeps
  <2>2. CASE j # i
    <3>1. value'[MonTest!Cv(j)] = value[MonTest!Cv(j)]
      BY <1>1, <1>3, <1>5, <2>2, MonNames DEF Takes, Sleeps
    <3> QED BY <1>5, <2>1, <2>2, <3>1 DEF MonInv, MonLocal
  <2>3. CASE j = i /\ s # MonTest!Cv(i)
    <3>1. value'[MonTest!Cv(i)] = value[MonTest!Cv(i)]
      BY <1>3, <1>5, <2>3, MonNames DEF Takes, Sleeps
    <3> QED BY <1>1, <1>5, <2>1, <2>3, <3>1 DEF MonInv, MonLocal
  <2>4. CASE j = i /\ s = MonTest!Cv(i)
    <3>1. /\ pc[i] = "wait" /\ m = "waited" /\ i \notin asleep
      BY <1>1, <2>4, MonNames DEF GoesTo
    <3>2. \/ value[s] = 1 /\ value'[s] = 0 /\ i \notin asleep'
          \/ value[s] = 0 /\ value'[s] = 0 /\ i \in asleep'
      BY <1>3, <3>1 DEF Takes, Sleeps
    <3>3. state[i] \in {"hungry", "eating"}
      BY <3>1 DEF MonInv, MonLocal
    <3>4. value[s] = IF state[i] = "eating" THEN 1 ELSE 0
      BY <2>4, <3>1 DEF MonInv, MonLocal
    <3> QED BY <1>5, <2>1, <2>4, <3>1, <3>2, <3>3, <3>4 DEF MonInv, MonLocal
  <2> QED BY <2>2, <2>3, <2>4
<1> QED BY <1>2, <1>3, <1>4, <1>7, <1>8 DEF MonInv

\* Who leaves the monitor or goes to wait: a signaller goes on first.
LEMMA MonLeaves ==
  ASSUME SemOK, MonInv, NEW i \in Threads,
         \/ MonTest!TakeLeave(i) \/ MonTest!PutLeave(i)
         \/ MonTest!TakeDecide(i) /\ state[i] = "hungry"
  PROVE  SemOK' /\ MonInv' /\ state' = state
<1>1. PICK m \in MonPcs :
        /\ GoesTo(i, m) /\ MonTest!Release
        /\ nextCount' = nextCount /\ state' = state /\ iter' = iter /\ ret' = ret
        /\ \/ pc[i] = "taken" /\ m = "eat" /\ count' = count
           \/ pc[i] = "leave" /\ m = "think" /\ count' = count
           \/ /\ pc[i] = "decide" /\ m = "wait" /\ state[i] = "hungry"
              /\ count' = [count EXCEPT ![i] = @ + 1]
  BY DEF MonTest!TakeLeave, MonTest!PutLeave, MonTest!Leave, MonTest!TakeDecide, MonTest!Wait,
     MonTest!Goes, GoesTo, MonPcs
<1>2. PICK s \in Sems :
        /\ MonTest!Up(s)
        /\ \/ nextCount > 0 /\ s = MonTest!NextSem
           \/ ~(nextCount > 0) /\ s = MonTest!Mutex
  BY <1>1, MonNames DEF MonTest!Release
<1>3. pc[i] \in ActivePcs /\ m \notin ActivePcs
  BY <1>1 DEF ActivePcs
<1>4. /\ SemOK' /\ MonPlaces' /\ MonTest!OneInside'
      /\ \A r \in Sems : value[r] = 0
      /\ \A j \in Threads \ {i} : j \notin asleep => pc[j] \notin ActivePcs
      /\ \/ Adds(s) /\ MonTest!Active' = {}
         \/ \E t \in Threads : Wakes(t, s) /\ t # i /\ t \in asleep /\ MonTest!Active' = {t}
  BY <1>1, <1>2, <1>3, MonHandsOn
<1>5. MonTypes'
  BY <1>1, MCSyncAssumption DEF MonInv, MonTypes, GoesTo, Conds
<1>6. /\ \A j \in Threads : j # i => pc'[j] = pc[j]
      /\ pc'[i] = m /\ value \in [Sems -> Nat]
  BY <1>1, SleepersWait DEF MonInv, MonTypes, GoesTo
<1>7. Signallers' = Signallers
  BY <1>1, <1>6 DEF Signallers
<1>8. MonSignals'
  <2>1. CASE Signallers = {}
    <3>1. s = MonTest!Mutex /\ nextCount = 0
      BY <1>2, <2>1 DEF MonInv, MonSignals
    <3>2. value'[MonTest!NextSem] = 0
      BY <1>4, <1>6, <3>1, MonNames DEF Adds, Wakes
    <3> QED BY <1>1, <1>7, <2>1, <3>1, <3>2 DEF MonSignals
  <2>2. CASE Signallers # {}
    <3>1. s = MonTest!NextSem /\ nextCount = 1
      BY <1>2, <2>2 DEF MonInv, MonSignals
    <3>2. value'[MonTest!Mutex] = 0
      BY <1>4, <1>6, <3>1, MonNames DEF Adds, Wakes
    <3>3. \A j \in MonTest!Active' : pc'[j] = "resumed"
      BY <1>4, <1>6, <3>1, MonNames DEF MonInv, MonPlaces, Wakes
    <3>4. value'[MonTest!NextSem] > 0 => Adds(s)
      BY <1>4, <3>1 DEF Wakes
    <3>5. \A j \in Signallers : pc[j] = "resumed" => j \in waiting[s]
      <4> SUFFICES ASSUME NEW j \in Signallers, pc[j] = "resumed" PROVE j \in waiting[s]
        OBVIOUS
      <4>1. j \in Threads \ {i} /\ pc[j] \in ActivePcs
        BY <1>1 DEF Signallers, ActivePcs
      <4>2. j \in asleep
        BY <1>4, <4>1
      <4> QED BY <3>1, <4>2, MonSleepers
    <3>6. value'[MonTest!NextSem] > 0 => \E j \in Signallers : pc'[j] = "signalled"
      <4>1. Adds(s) => \A j \in Signallers : pc[j] = "signalled"
        BY <3>5 DEF Adds, Signallers
      <4>2. \A j \in Signallers : pc'[j] = pc[j]
        BY <1>1, <1>6 DEF Signallers
      <4> QED BY <2>2, <3>4, <4>1, <4>2
    <3> QED BY <1>1, <1>7, <2>2, <3>1, <3>2, <3>3, <3>6 DEF MonInv, MonSignals
  <2> QED BY <2>1, <2>2
<1>9. ASSUME NEW j \in Threads PROVE MonLocal(j)'
  <2>1. value'[MonTest!Cv(j)] = 0
    BY <1>2, <1>4, <1>6, MonNames DEF Adds, Wakes
  <2>2. value[MonTest!Cv(j)] = 0
    BY <1>4, MonNames
  <2>3. CASE j # i
    <3>1. (j \in asleep' <=> j \in asleep) \/ pc[j] \in {"resumed", "hungry", "full"}
      BY <1>2, <1>4, <1>6, MonNames DEF MonInv, MonPlaces, Adds, Wakes
    <3>2. count'[j] = count[j] /\ ret'[j] = ret[j] /\ state'[j] = state[j]
      BY <1>1, <2>3 DEF MonInv, MonTypes, Conds
    <3> QED BY <1>6, <2>1, <2>2, <2>3, <3>1, <3>2 DEF MonInv, MonLocal
  <2>4. CASE j = i
    <3>1. ret'[i] = ret[i] /\ state'[i] = state[i] /\ i \notin asleep
      BY <1>1 DEF GoesTo
    <3>2. count'[i] = IF m = "wait" THEN 1 ELSE 0
      BY <1>1 DEF MonInv, MonTypes, MonLocal, Conds
    <3> QED BY <1>1, <1>6, <2>1, <2>4, <3>1, <3>2 DEF MonInv, MonLocal
  <2> QED BY <2>3, <2>4
<1> QED BY <1>1, <1>4, <1>5, <1>8, <1>9 DEF MonInv

\* The end of cond_signal() and of cond_wait().
LEMMA MonReturns ==
  ASSUME SemOK, MonInv, NEW i \in Threads,
         \/ /\ MonTest!Goes(i, "resumed", ret[i]) /\ MonTest!SignalEnds
            /\ ret' = [ret EXCEPT ![i] = "none"] /\ UNCHANGED <<state, iter>>
         \/ /\ MonTest!Goes(i, "waited", "taken") /\ MonTest!WaitEnds(i)
            /\ UNCHANGED <<state, iter, ret>>
  PROVE  SemOK' /\ MonInv' /\ state' = state
<1>1. PICK m \in MonPcs :
        /\ GoesTo(i, m) /\ UNCHANGED MonTest!semVars /\ state' = state /\ iter' = iter
        /\ \/ /\ pc[i] = "resumed" /\ m = ret[i] /\ m \in {"testRight", "leave"}
              /\ nextCount' = nextCount - 1 /\ count' = count
              /\ ret' = [ret EXCEPT ![i] = "none"]
           \/ /\ pc[i] = "waited" /\ m = "taken" /\ nextCount' = nextCount
              /\ count' = [count EXCEPT ![i] = @ - 1] /\ ret' = ret
  BY DEF MonTest!SignalEnds, MonTest!WaitEnds, MonTest!Goes, GoesTo, MonPcs, MonInv, MonTypes,
     MonLocal
<1>2. pc[i] \in ActivePcs /\ m \in ActivePcs
  BY <1>1 DEF ActivePcs
<1>3. /\ SemOK' /\ MonPlaces' /\ MonTest!OneInside' /\ MonTest!Active' = MonTest!Active
      /\ value' = value /\ asleep' = asleep
  BY <1>1, <1>2, MonQuiet
<1>4. /\ \A j \in Threads : j # i => pc'[j] = pc[j]
      /\ pc'[i] = m
  BY <1>1 DEF MonInv, MonTypes, GoesTo
<1>5. \A j \in MonTest!Active : j = i
  BY <1>1, <1>2, WhoIsActive DEF MonInv, MonTest!OneInside, GoesTo
<1>6. value[MonTest!NextSem] = 0
  <2>1. i \in MonTest!Active
    BY <1>1, <1>2, WhoIsActive DEF GoesTo
  <2>2. value \in [Sems -> Nat]
    BY SleepersWait
  <2> QED BY <2>1, <2>2, MonNames DEF MonInv, MonTest!OneInside, MonTest!Granted
<1>7. CASE pc[i] = "resumed"
  <2>1. Signallers = {i} /\ nextCount = 1
    BY <1>7 DEF MonInv, MonSignals, Signallers
  <2>2. Signallers' = {} /\ nextCount' = 0
    BY <1>1, <1>4, <1>7, <2>1 DEF Signallers
  <2>3. MonSignals'
    BY <1>3, <1>6, <2>2 DEF MonSignals
  <2>4. MonTypes'
    BY <1>1, <1>7, <2>2 DEF MonInv, MonTypes, GoesTo
  <2>5. ASSUME NEW j \in Threads PROVE MonLocal(j)'
    BY <1>1, <1>3, <1>4, <1>7 DEF MonInv, MonTypes, MonLocal
  <2> QED BY <1>1, <1>3, <2>3, <2>4, <2>5 DEF MonInv
<1>8. CASE pc[i] = "waited"
  <2>1. Signallers' = Signallers
    BY <1>1, <1>4, <1>8 DEF Signallers
  <2>2. MonSignals'
    BY <1>1, <1>3, <1>4, <1>5, <1>6, <1>8, <2>1 DEF MonInv, MonSignals
  <2>3. count[i] = 1 /\ count' = [count EXCEPT ![i] = 0]
    BY <1>1, <1>8 DEF MonInv, MonLocal
  <2>4. MonTypes'
    BY <1>1, <1>8, <2>3 DEF MonInv, MonTypes, GoesTo
  <2>5. ASSUME NEW j \in Threads PROVE MonLocal(j)'
    BY <1>1, <1>3, <1>4, <1>8, <2>3 DEF MonInv, MonTypes, MonLocal, Conds, GoesTo
  <2> QED BY <1>1, <1>3, <2>2, <2>4, <2>5 DEF MonInv
<1> QED BY <1>1, <1>7, <1>8

\* Every step of the second group keeps the invariant and is one of Dining.
LEMMA MonStep ==
  ASSUME SemOK, MonInv, NEW i \in Threads, MonTest!Step(i)
  PROVE  SemOK' /\ MonInv' /\ [MonTest!Table!Next]_state
  BY MonPlain, MonTests, MonDowns, MonLeaves, MonReturns
  DEF MonTest!Step, MonTest!TakeWaits, MonTest!Signalled

-----------------------------------------------------------------------------
\* Both groups start in the invariant, with everybody thinking.
LEMMA InitHolds == Init => Inv /\ MonTest!Table!Init
<1> SUFFICES ASSUME Init PROVE Inv /\ MonTest!Table!Init
  OBVIOUS
<1> USE MCSyncAssumption DEF Init, SemTest!ConstantsOK
<1>1. CASE version = "semaphore" /\ SemTest!Init
  <2> USE <1>1 DEF SemTest!Init, SemTest!SemInit
  <2>1. SemOK
    BY DEF SemOK, Sem!SemTypeOK, Sem!WaitersExact
  <2>2. SemTypes /\ MonTest!Table!Init
    BY DEF SemTypes, SemPcs, Modes, Threads, SemTest!Phil, MonTest!Table!Init, MonTest!Table!Phil
  <2>3. SemPlaces
    BY DEF SemPlaces, waiting
  <2>4. SemTest!MutexExact
    BY SemNames DEF SemTest!MutexExact, SemTest!Inside
  <2>5. ASSUME NEW i \in Threads PROVE SemLocal(i)
    BY SemNames DEF SemLocal, SemTest!Phil, Threads
  <2> QED BY <2>1, <2>2, <2>3, <2>4, <2>5 DEF Inv, SemInv
<1>2. CASE version = "condvar" /\ MonTest!Init
  <2> USE <1>2 DEF MonTest!Init, MonTest!MonitorInit, MonTest!SemInit
  <2>1. SemOK
    BY DEF SemOK, Sem!SemTypeOK, Sem!WaitersExact
  <2>2. MonTypes /\ MonTest!Table!Init
    BY DEF MonTypes, MonPcs, Modes, Threads, Conds, MonTest!Phil, MonTest!Table!Init,
           MonTest!Table!Phil
  <2>3. MonPlaces
    BY DEF MonPlaces, waiting
  <2>4. MonTest!OneInside
    BY MonNames DEF MonTest!OneInside, MonTest!Active, MonTest!Granted
  <2>5. MonSignals
    BY MonNames DEF MonSignals, Signallers, MonTest!Phil, Threads
  <2>6. ASSUME NEW i \in Threads PROVE MonLocal(i)
    BY MonNames DEF MonLocal, MonTest!Phil, Threads, Conds
  <2> QED BY <2>1, <2>2, <2>3, <2>4, <2>5, <2>6 DEF Inv, MonInv
<1> QED BY <1>1, <1>2

\* A step of either group.
LEMMA StepKeeps ==
  Inv /\ [\E i \in Threads : Step(i)]_vars => Inv' /\ [MonTest!Table!Next]_state
<1> SUFFICES ASSUME Inv, [\E i \in Threads : Step(i)]_vars
             PROVE  Inv' /\ [MonTest!Table!Next]_state
  OBVIOUS
<1>1. ASSUME NEW i \in Threads, Step(i) PROVE Inv' /\ [MonTest!Table!Next]_state
  <2>1. CASE version = "condvar" /\ MonTest!Step(i)
    BY <1>1, <2>1, MonStep DEF Inv, Step
  <2>2. CASE version = "semaphore" /\ SemTest!Step(i)
    BY <1>1, <2>2, SemStep DEF Inv, Step
  <2> QED BY <1>1, <2>1, <2>2 DEF Step
<1>2. CASE UNCHANGED vars
  <2>1. /\ version' = version /\ value' = value /\ queue' = queue /\ asleep' = asleep
        /\ nextCount' = nextCount /\ count' = count
        /\ state' = state /\ iter' = iter /\ ret' = ret /\ pc' = pc
    BY <1>2 DEF vars, MonTest!vars, MonTest!monitorVars, MonTest!semVars
  <2>2. waiting' = waiting
    BY <2>1 DEF waiting
  <2>3. SemOK'
    BY <2>1 DEF Inv, SemOK, Sem!SemTypeOK, Sem!WaitersExact
  <2>4. version = "semaphore" => SemInv'
    BY <2>1, <2>2 DEF Inv, SemInv, SemTypes, SemPlaces, SemLocal, SemTest!MutexExact,
                      SemTest!Inside
  <2>5. version = "condvar" => MonInv'
    BY <2>1, <2>2 DEF Inv, MonInv, MonTypes, MonPlaces, MonLocal, MonSignals, Signallers,
                      MonTest!OneInside, MonTest!Active, MonTest!Granted
  <2> QED BY <2>1, <2>3, <2>4, <2>5 DEF Inv
<1> QED BY <1>1, <1>2

\* The invariant holds in every behaviour of check_sync().
THEOREM InvHolds == Spec => []Inv
  BY InitHolds, StepKeeps, PTL DEF Spec

\* sem.c and monitor.c: no unit of a semaphore is lost or made, and one thread at
\* a time is in the critical section or the monitor, also across signals.
THEOREM OneAtATime == Spec => []InsideExact
<1>1. Inv => InsideExact
  BY DEF Inv, SemOK, SemInv, MonInv, InsideExact, SemTest!WaitersExact, Sem!WaitersExact
<1> QED BY <1>1, InvHolds, PTL

\* monitor.c: who returns from cond_wait() finds the condition it waited for.
THEOREM HoareRule == Spec => []ConditionHolds
<1>1. Inv => ConditionHolds
  BY DEF Inv, MonInv, MonLocal, ConditionHolds, MonTest!ConditionHolds, MonTest!Phil, Threads
<1> QED BY <1>1, InvHolds, PTL

\* check_sync.c: each group is an implementation of Dining: no two neighbours eat
\* at the same time, whatever the number of philosophers.
THEOREM NeighboursNeverEat == Spec => ImplementsDining
  BY InitHolds, StepKeeps, InvHolds, PTL
  DEF Spec, ImplementsDining, MonTest!ImplementsDining, MonTest!Table!Spec
=============================================================================
