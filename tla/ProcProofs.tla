----------------------------- MODULE ProcProofs -----------------------------
(***************************************************************************)
(* Proofs, for any number of processes and any bounds, that the invariants *)
(* of Proc hold in every reachable state.  Inv is inductive as it stands:  *)
(* each of its parts needs some of the others.  Most parts speak of one    *)
(* process at a time (Local); ParentLives and NoMissedExit relate two.     *)
(***************************************************************************)
EXTENDS Proc, FiniteSetTheorems, TLAPS

Inv ==
  /\ TypeOK
  /\ RunPoolExact
  /\ RunningIsRunnable
  /\ WaitStateExact
  /\ PlaceExact
  /\ TimerOwner
  /\ NoMissedKey
  /\ ParentLives
  /\ NoMissedExit
  /\ NrProcessExact

\* The part of the invariant that speaks of process p alone.
Local(p) == Pooled(p) /\ Waits(p) /\ Placed(p) /\ Timed(p) /\ Keyed(p)

\* What ProcAssumption says of the kinds of processes.
LEMMA ConstFacts ==
  /\ Idle \in Procs /\ InitProc \in Procs /\ Idle # InitProc /\ NoProc \notin Procs
  /\ Users \subseteq Procs /\ KThreads \subseteq Procs
  /\ Idle \notin Users \cup KThreads /\ InitProc \notin Users \cup KThreads
  /\ Users \cap KThreads = {}
  BY ProcAssumption

\* The invariant, process by process.
LEMMA InvParts ==
  Inv <=> /\ TypeOK /\ RunningIsRunnable /\ ParentLives /\ NoMissedExit
          /\ NrProcessExact
          /\ \A p \in Procs : Local(p)
  BY DEF Inv, Local, RunPoolExact, WaitStateExact, PlaceExact, TimerOwner,
         NoMissedKey

\* The process that runs is runnable, and so has no wait state.
LEMMA Running ==
  ASSUME Inv, ~switching
  PROVE  /\ current \in Procs /\ state[current] = "RUNNABLE"
         /\ waitState[current] = "NONE" /\ runq[current] = 0
  BY InvParts
     DEF TypeOK, SchedTypeOK, RunningIsRunnable, Local, Waits, Pooled

\* A step that changes no family tie, starts, frees and kills nobody, and puts
\* nobody to sleep in do_wait() keeps ParentLives, NoMissedExit and
\* NrProcessExact.
LEMMA KinFrame ==
  ASSUME ParentLives, NoMissedExit, NrProcessExact,
         parent' = parent, nrProcess' = nrProcess,
         \A p \in Procs : /\ state'[p] = "UNUSED" <=> state[p] = "UNUSED"
                          /\ state'[p] = "ZOMBIE" <=> state[p] = "ZOMBIE"
                          /\ waitState'[p] = "WT_CHILD" =>
                               waitState[p] = "WT_CHILD" /\ target'[p] = target[p]
  PROVE  ParentLives' /\ NoMissedExit' /\ NrProcessExact'
<1>1. Alive' = Alive /\ Zombies' = Zombies
  BY DEF Alive, Zombies
<1>2. ParentLives'
  BY <1>1 DEF ParentLives, Alive
<1>3. NoMissedExit'
  BY <1>1 DEF NoMissedExit, Awaited, Kids
<1>4. NrProcessExact'
  BY <1>1 DEF NrProcessExact
<1> QED BY <1>2, <1>3, <1>4

\* The processes are finitely many, so a new one counts for one.
LEMMA CountAdd ==
  ASSUME NEW S \in SUBSET Procs, NEW c \in Procs \ S
  PROVE  Cardinality(S \cup {c}) = Cardinality(S) + 1
  BY ProcAssumption, FS_Subset, FS_AddElement

\* Likewise, one that is freed counts for one.
LEMMA CountRemove ==
  ASSUME NEW S \in SUBSET Procs, NEW c \in S
  PROVE  Cardinality(S \ {c}) = Cardinality(S) - 1
  BY ProcAssumption, FS_Subset, FS_RemoveElement

-----------------------------------------------------------------------------
\* The state that proc_init() leaves behind satisfies the invariant.
LEMMA InitInv == Init => Inv
<1> SUFFICES ASSUME Init PROVE Inv
  OBVIOUS
<1>1. TypeOK
  <2>1. SchedTypeOK
    BY ConstFacts DEF Init, SchedTypeOK, ProcState, WaitState
  <2>2. ticks \in 0 .. TICK_NUM - 1 /\ chars \in 0 .. STDIN_BUFSIZE
    BY ProcAssumption DEF Init
  <2>3. /\ parent \in [Procs -> Procs \cup {NoProc}]
        /\ pc \in [Procs -> Label]
        /\ wakeFlags \in [Procs -> {"WT_INTERRUPTED", "WT_KBD"}]
    BY ConstFacts DEF Init, Label
  <2> QED BY <2>1, <2>2, <2>3 DEF Init, TypeOK
<1>2. \A p \in Procs : Local(p)
  BY ConstFacts, ProcAssumption DEF Init, Local, Pooled, Waits, Placed, Timed, Keyed
<1>3. RunningIsRunnable /\ ParentLives /\ NoMissedExit
  BY ConstFacts DEF Init, RunningIsRunnable, ParentLives, NoMissedExit, Alive
<1>4. NrProcessExact
  <2>1. Alive = {Idle} \cup {InitProc}
    BY ConstFacts DEF Init, Alive
  <2>2. Cardinality({Idle}) = 1
    BY FS_Singleton
  <2>3. Cardinality(Alive) = 2
    BY <2>1, <2>2, ConstFacts, CountAdd
  <2> QED BY <2>3 DEF Init, NrProcessExact
<1> QED BY <1>1, <1>2, <1>3, <1>4, InvParts

\* schedule() gives the CPU to a runnable process.
LEMMA SwitchKeepsInv ==
  ASSUME Inv, NEW next \in Procs, SwitchTo(next)
  PROVE  Inv'
<1> USE DEF SwitchTo, ScheduleTo, Ready, procVars
<1>1. PoolWithCurrent \in [Procs -> Nat]
  BY DEF Inv, TypeOK, SchedTypeOK, PoolWithCurrent
<1>2. TypeOK'
  <2>1. runq' \in [Procs -> Nat]
    BY <1>1
  <2> QED BY <2>1 DEF Inv, TypeOK, SchedTypeOK
<1>3. \A p \in Procs : PoolWithCurrent[p] =
        IF state[p] = "RUNNABLE" /\ p # Idle THEN 1 ELSE 0
  BY DEF Inv, TypeOK, SchedTypeOK, RunPoolExact, Pooled, PoolWithCurrent
<1>4. state[next] = "RUNNABLE"
  BY <1>3 DEF Inv, PlaceExact, Placed
<1>5. RunPoolExact'
  BY <1>1, <1>3, <1>4 DEF RunPoolExact, Pooled
<1>6. WaitStateExact' /\ PlaceExact' /\ TimerOwner' /\ NoMissedKey'
  BY DEF Inv, WaitStateExact, Waits, PlaceExact, Placed, TimerOwner, Timed,
         NoMissedKey, Keyed
<1>7. ParentLives' /\ NoMissedExit' /\ NrProcessExact'
  BY KinFrame DEF Inv
<1>8. RunningIsRunnable'
  BY <1>4 DEF RunningIsRunnable
<1> QED BY <1>2, <1>5, <1>6, <1>7, <1>8 DEF Inv

-----------------------------------------------------------------------------
(* The parts of proc.c several handlers share. *)

\* do_fork() by a process that goes on at label l.
LEMMA ForkKeepsInv ==
  ASSUME Inv, ~switching, NEW c \in Users \cup KThreads, DoFork(c), NEW l,
         \/ current \in Users /\ l = "trapexit"
         \/ current = InitProc /\ l \in {"boot", "reap"},
         pc[current] \notin {"sleep", "kbd"},
         pc' = [pc EXCEPT ![current] = l, ![c] = "user"],
         UNCHANGED <<needResched, current, switching, exiting, target, timer,
                     kbdq, wakeFlags, chars, ticks, halted>>
  PROVE  Inv'
<1>1. /\ current \in Procs /\ state[current] = "RUNNABLE" /\ waitState[current] = "NONE"
      /\ c \in Procs /\ state[c] = "UNUSED" /\ c # current
      /\ c # Idle /\ c # InitProc
  BY Running, ConstFacts DEF DoFork
<1>2. /\ state' = [state EXCEPT ![c] = "RUNNABLE"]
      /\ waitState' = [waitState EXCEPT ![c] = "NONE"]
      /\ runq' = [runq EXCEPT ![c] = @ + 1]
  BY <1>1 DEF Inv, TypeOK, SchedTypeOK, DoFork, Wakeup, WakeState, WakeWait,
              WakePool, Roused
<1>3. parent' = [parent EXCEPT ![c] = current] /\ nrProcess' = nrProcess + 1
  BY DEF DoFork, SetLinks
<1>4. TypeOK'
  <2>1. /\ state' \in [Procs -> ProcState] /\ waitState' \in [Procs -> WaitState]
        /\ runq' \in [Procs -> Nat]
    <3>1. /\ state \in [Procs -> ProcState] /\ waitState \in [Procs -> WaitState]
          /\ runq \in [Procs -> Nat]
      BY DEF Inv, TypeOK, SchedTypeOK
    <3>2. "RUNNABLE" \in ProcState /\ "NONE" \in WaitState
      BY DEF ProcState, WaitState
    <3> QED BY <1>1, <1>2, <3>1, <3>2
  <2>2. pc' \in [Procs -> Label] /\ parent' \in [Procs -> Procs \cup {NoProc}]
    BY <1>1, <1>3 DEF Inv, TypeOK, Label
  <2>3. nrProcess' \in Int
    <3>1. nrProcess \in Int
      BY DEF Inv, TypeOK
    <3> QED BY <1>3, <3>1
  <2> QED BY <2>1, <2>2, <2>3 DEF Inv, TypeOK, SchedTypeOK
<1>5. \A p \in Procs : Local(p)'
  <2> SUFFICES ASSUME NEW p \in Procs
               PROVE  Local(p)'
    OBVIOUS
  <2>1. Local(p)
    BY InvParts
  <2>2. /\ pc'[p] = IF p = c THEN "user" ELSE IF p = current THEN l ELSE pc[p]
        /\ parent'[p] = IF p = c THEN current ELSE parent[p]
    BY <1>1, <1>3 DEF Inv, TypeOK
  <2>3. CASE p = c
    <3>1. /\ state'[c] = "RUNNABLE" /\ waitState'[c] = "NONE"
          /\ runq'[c] = runq[c] + 1 /\ runq[c] = 0
      BY <1>1, <1>2, <2>1, <2>3 DEF Inv, TypeOK, SchedTypeOK, Local, Pooled
    <3>2. Pooled(c)' /\ Waits(c)'
      BY <1>1, <3>1 DEF Pooled, Waits
    <3>3. Placed(c)'
      BY <1>1, <2>2, <2>3, <3>1, ConstFacts DEF Placed
    <3>4. Timed(c)' /\ Keyed(c)'
      BY <1>1, <2>1, <2>3, <3>1 DEF Local, Placed, Timed, Keyed
    <3> QED BY <2>3, <3>2, <3>3, <3>4 DEF Local
  <2>4. CASE p # c
    BY <1>1, <1>2, <2>1, <2>2, <2>4, ConstFacts
       DEF Inv, TypeOK, SchedTypeOK, Local, Pooled, Waits, Placed, Timed, Keyed
  <2> QED BY <2>3, <2>4
<1>6. ParentLives'
  BY <1>1, <1>2, <1>3 DEF Inv, TypeOK, SchedTypeOK, ParentLives, Alive
<1>7. NoMissedExit'
  BY <1>1, <1>2, <1>3
     DEF Inv, TypeOK, SchedTypeOK, NoMissedExit, Awaited, Kids, Alive, Zombies
<1>8. RunningIsRunnable'
  BY <1>1, <1>2 DEF Inv, TypeOK, SchedTypeOK, RunningIsRunnable
<1>9. NrProcessExact'
  <2>1. Alive' = Alive \cup {c} /\ c \in Procs \ Alive /\ Alive \in SUBSET Procs
    BY <1>1, <1>2 DEF Inv, TypeOK, SchedTypeOK, Alive
  <2>2. Cardinality(Alive \cup {c}) = Cardinality(Alive) + 1
    BY <2>1, CountAdd
  <2> QED BY <1>3, <2>1, <2>2 DEF Inv, NrProcessExact
<1> QED BY <1>4, <1>5, <1>6, <1>7, <1>8, <1>9
        DEF Inv, Local, RunPoolExact, WaitStateExact, PlaceExact, TimerOwner,
            NoMissedKey

\* do_exit(): its parent wakes, and initproc when it inherits a zombie.
LEMMA ExitKeepsInv ==
  ASSUME Inv, ~switching, DoExit, current \in Users \cup KThreads,
         pc[current] \notin {"sleep", "kbd"}
  PROVE  Inv'
<1> DEFINE woken == ExitWakes
<1>1. \A q \in Procs :
        q \in woken <=> /\ waitState[q] = "WT_CHILD"
                        /\ \/ q = parent[current]
                           \/ q = InitProc /\ Kids(current) \cap Zombies # {}
  BY DEF ExitWakes
<1>2. /\ parent' = [c \in Procs |-> IF c \in Kids(current) THEN InitProc ELSE parent[c]]
      /\ pc' = [pc EXCEPT ![current] = "dead"]
      /\ switching' = TRUE
      /\ UNCHANGED <<needResched, current, exiting, target, timer, kbdq,
                     wakeFlags, chars, ticks, nrProcess, halted>>
  BY DEF DoExit, HandOver
<1>3. /\ current \in Procs /\ state[current] = "RUNNABLE"
      /\ waitState[current] = "NONE"
      /\ current # Idle /\ current # InitProc
  BY Running, ConstFacts
<1>4. Wakeup([state EXCEPT ![current] = "ZOMBIE"], waitState, runq, woken)
  BY DEF DoExit
<1> HIDE DEF woken
<1>5. \A p \in Procs : p \in woken =>
        state[p] = "SLEEPING" /\ waitState[p] = "WT_CHILD" /\ p # current
  BY <1>1, <1>3 DEF Inv, WaitStateExact, Waits
<1>6. /\ state' = [p \in Procs |-> IF p \in woken THEN "RUNNABLE"
                                   ELSE IF p = current THEN "ZOMBIE" ELSE state[p]]
      /\ waitState' = [p \in Procs |-> IF p \in woken THEN "NONE" ELSE waitState[p]]
      /\ runq' = [p \in Procs |-> IF p \in woken \ {Idle} THEN runq[p] + 1 ELSE runq[p]]
  BY <1>3, <1>4, <1>5
     DEF Inv, TypeOK, SchedTypeOK, Wakeup, WakeState, WakeWait, WakePool, Roused
<1>7. TypeOK'
  <2>1. state' \in [Procs -> ProcState]
    BY <1>6 DEF Inv, TypeOK, SchedTypeOK, ProcState
  <2>2. waitState' \in [Procs -> WaitState]
    BY <1>6 DEF Inv, TypeOK, SchedTypeOK, WaitState
  <2>3. runq' \in [Procs -> Nat]
    <3>1. runq \in [Procs -> Nat]
      BY DEF Inv, TypeOK, SchedTypeOK
    <3> QED BY <1>6, <3>1
  <2> QED BY <1>2, <1>3, <2>1, <2>2, <2>3, ConstFacts
          DEF Inv, TypeOK, SchedTypeOK, Label
<1>8. \A p \in Procs : Local(p)'
  <2> SUFFICES ASSUME NEW p \in Procs
               PROVE  Local(p)'
    OBVIOUS
  <2>1. Local(p)
    BY InvParts
  <2>2. /\ parent'[p] = IF p \in Kids(current) THEN InitProc ELSE parent[p]
        /\ pc'[p] = IF p = current THEN "dead" ELSE pc[p]
    BY <1>2 DEF Inv, TypeOK
  <2>3. p \in Kids(current) => p # Idle /\ p # InitProc
    BY <1>3, <2>1, ConstFacts DEF Kids, Local, Placed
  <2> USE DEF Local, Pooled, Waits, Placed, Timed, Keyed
  <2>4. CASE p \in woken
    BY <1>2, <1>3, <1>5, <1>6, <2>1, <2>2, <2>3, <2>4
  <2>5. CASE p = current
    BY <1>2, <1>3, <1>5, <1>6, <2>1, <2>2, <2>3, <2>5
  <2>6. CASE p # current /\ p \notin woken
    BY <1>2, <1>3, <1>6, <2>1, <2>2, <2>3, <2>6
  <2> QED BY <2>4, <2>5, <2>6
<1>9. ParentLives'
  <2> SUFFICES ASSUME NEW p \in Procs, state'[p] # "UNUSED", p # Idle
               PROVE  parent'[p] \in Alive' /\ state'[parent'[p]] # "ZOMBIE"
    BY DEF ParentLives, Alive
  <2>1. state[p] # "UNUSED"
    BY <1>3, <1>5, <1>6
  <2>2. parent[p] \in Procs /\ state[parent[p]] \notin {"UNUSED", "ZOMBIE"}
    BY <2>1 DEF Inv, ParentLives, Alive
  <2>3. state[InitProc] \notin {"UNUSED", "ZOMBIE"}
    BY ConstFacts DEF Inv, PlaceExact, Placed
  <2>4. CASE parent[p] = current
    BY <2>1, <2>3, <2>4, <1>2, <1>3, <1>5, <1>6, ConstFacts DEF Alive, Kids
  <2>5. CASE parent[p] # current
    BY <2>1, <2>2, <2>5, <1>2, <1>3, <1>5, <1>6, ConstFacts DEF Alive, Kids
  <2> QED BY <2>4, <2>5
<1>10. NoMissedExit'
  <2> SUFFICES ASSUME NEW p \in Procs, waitState'[p] = "WT_CHILD",
                      NEW z \in Procs, z \in Awaited(p, target[p])',
                      state'[z] = "ZOMBIE"
               PROVE  FALSE
    BY <1>2 DEF NoMissedExit, Zombies
  <2>1. p \notin woken /\ waitState[p] = "WT_CHILD"
    BY <1>6
  <2>2. CASE z = current
    BY <2>1, <2>2, <1>1, <1>2, <1>3, <1>6
       DEF Inv, PlaceExact, Placed, Awaited, Kids, Alive
  <2>3. CASE z # current
    <3>1. state[z] = "ZOMBIE"
      BY <2>3, <1>6
    <3>2. CASE z \in Kids(current)
      BY <3>1, <3>2, <2>1, <1>1, <1>2 DEF Awaited, Kids, Zombies
    <3>3. CASE z \notin Kids(current)
      BY <3>1, <3>3, <2>1, <1>2, <1>6
         DEF Inv, NoMissedExit, Alive, Kids, Awaited, Zombies
    <3> QED BY <3>2, <3>3
  <2> QED BY <2>2, <2>3
<1>11. NrProcessExact'
  <2>1. Alive' = Alive
    BY <1>3, <1>5, <1>6 DEF Alive
  <2> QED BY <1>2, <2>1 DEF Inv, NrProcessExact
<1> QED BY <1>2, <1>7, <1>8, <1>9, <1>10, <1>11
        DEF Inv, RunningIsRunnable, Local, RunPoolExact, WaitStateExact,
            PlaceExact, TimerOwner, NoMissedKey

\* do_wait() that finds no child.
LEMMA WaitFailsKeepsInv ==
  ASSUME Inv, ~switching, NEW pid, current \in Users, pc[current] \in {"user", "wait"},
         WaitFails(pid, "trapexit")
  PROVE  Inv'
<1>1. current \in Procs /\ state[current] = "RUNNABLE" /\ waitState[current] = "NONE"
  BY Running
<1>2. /\ pc' = [pc EXCEPT ![current] = "trapexit"]
      /\ target' = [target EXCEPT ![current] = NoProc]
      /\ UNCHANGED <<schedVars, parent, exiting, timer, kbdq, wakeFlags, chars,
                     ticks, nrProcess, halted>>
  BY DEF WaitFails
<1> USE DEF schedVars
<1>3. TypeOK'
  BY <1>1, <1>2 DEF Inv, TypeOK, SchedTypeOK, Label
<1>4. \A p \in Procs : Local(p)'
  <2> SUFFICES ASSUME NEW p \in Procs
               PROVE  Local(p)'
    OBVIOUS
  <2>1. Local(p)
    BY InvParts
  <2>2. pc'[p] = IF p = current THEN "trapexit" ELSE pc[p]
    BY <1>2 DEF Inv, TypeOK
  <2> QED BY <1>1, <1>2, <2>1, <2>2, ConstFacts
          DEF Local, Pooled, Waits, Placed, Timed, Keyed
<1>5. ParentLives' /\ NoMissedExit' /\ NrProcessExact'
  BY <1>1, <1>2, KinFrame DEF Inv, TypeOK
<1> QED BY <1>2, <1>3, <1>4, <1>5
        DEF Inv, RunningIsRunnable, Local, RunPoolExact, WaitStateExact,
            PlaceExact, TimerOwner, NoMissedKey

\* do_wait() that frees a zombie.
LEMMA WaitReapsKeepsInv ==
  ASSUME Inv, ~switching, NEW pid, NEW l, NEW b \in BOOLEAN, WaitReaps(pid, l, b),
         \/ current \in Users /\ l = "trapexit"
         \/ current = InitProc /\ l = "reap",
         pc[current] \notin {"sleep", "kbd"}
  PROVE  Inv'
<1>1. current \in Procs /\ state[current] = "RUNNABLE" /\ waitState[current] = "NONE"
  BY Running
<1>2. PICK z \in Awaited(current, pid) \cap Zombies :
        /\ state' = [state EXCEPT ![z] = "UNUSED"]
        /\ parent' = [parent EXCEPT ![z] = NoProc]
        /\ exiting' = [exiting EXCEPT ![z] = FALSE]
        /\ nrProcess' = nrProcess - 1
        /\ pc' = [pc EXCEPT ![z] = "none", ![current] = l]
        /\ target' = [target EXCEPT ![current] = NoProc]
        /\ switching' = b
        /\ UNCHANGED <<waitState, runq, needResched, current, timer, kbdq,
                       wakeFlags, chars, ticks, halted>>
  BY DEF WaitReaps, RemoveLinks
<1>3. /\ z \in Procs /\ state[z] = "ZOMBIE" /\ parent[z] = current
      /\ z # current /\ z # Idle /\ z # InitProc
  BY <1>1, <1>2, ConstFacts
     DEF Inv, PlaceExact, Placed, Zombies, Awaited, Kids
<1>4. TypeOK'
  <2>1. state' \in [Procs -> ProcState]
    BY <1>2 DEF Inv, TypeOK, SchedTypeOK, ProcState
  <2>4. nrProcess' \in Int
    <3>1. nrProcess \in Int
      BY DEF Inv, TypeOK
    <3> QED BY <1>2, <3>1
  <2>2. pc' \in [Procs -> Label]
    BY <1>1, <1>2, <1>3 DEF Inv, TypeOK, Label
  <2>3. parent' \in [Procs -> Procs \cup {NoProc}]
    BY <1>2 DEF Inv, TypeOK
  <2> QED BY <1>2, <2>1, <2>2, <2>3, <2>4 DEF Inv, TypeOK, SchedTypeOK
<1>5. \A p \in Procs : Local(p)'
  <2> SUFFICES ASSUME NEW p \in Procs
               PROVE  Local(p)'
    OBVIOUS
  <2>1. Local(p)
    BY InvParts
  <2>2. /\ pc'[p] = IF p = current THEN l ELSE IF p = z THEN "none" ELSE pc[p]
        /\ parent'[p] = IF p = z THEN NoProc ELSE parent[p]
        /\ state'[p] = IF p = z THEN "UNUSED" ELSE state[p]
    BY <1>1, <1>2, <1>3 DEF Inv, TypeOK, SchedTypeOK
  <2> USE DEF Local, Pooled, Waits, Placed, Timed, Keyed
  <2>3. CASE p = z
    BY <1>2, <1>3, <2>1, <2>2, <2>3, ConstFacts
  <2>4. CASE p # z
    BY <1>1, <1>2, <2>1, <2>2, <2>4, ConstFacts
  <2> QED BY <2>3, <2>4
<1>6. ParentLives'
  <2> SUFFICES ASSUME NEW p \in Procs, state'[p] # "UNUSED", p # Idle
               PROVE  parent'[p] \in Alive' /\ state'[parent'[p]] # "ZOMBIE"
    BY DEF ParentLives, Alive
  <2>1. p # z /\ state[p] # "UNUSED"
    BY <1>2, <1>3 DEF Inv, TypeOK, SchedTypeOK
  <2>2. /\ parent[p] \in Procs /\ parent[p] # z
        /\ state[parent[p]] \notin {"UNUSED", "ZOMBIE"}
    BY <1>3, <2>1 DEF Inv, ParentLives, Alive
  <2>3. parent'[p] = parent[p] /\ state'[parent[p]] = state[parent[p]]
    BY <1>2, <2>1, <2>2 DEF Inv, TypeOK, SchedTypeOK
  <2> QED BY <2>2, <2>3 DEF Alive
<1>7. NoMissedExit'
  BY <1>1, <1>2, <1>3, ConstFacts, ZenonT(30)
     DEF Inv, TypeOK, SchedTypeOK, NoMissedExit, Awaited, Kids, Alive, Zombies
<1>8. NrProcessExact'
  <2>1. Alive' = Alive \ {z} /\ z \in Alive /\ Alive \in SUBSET Procs
    BY <1>1, <1>2, <1>3 DEF Inv, TypeOK, SchedTypeOK, Alive
  <2>2. Cardinality(Alive \ {z}) = Cardinality(Alive) - 1
    BY <2>1, CountRemove
  <2> QED BY <1>2, <2>1, <2>2 DEF Inv, NrProcessExact
<1>9. RunningIsRunnable'
  BY <1>1, <1>2, <1>3 DEF RunningIsRunnable
<1> QED BY <1>4, <1>5, <1>6, <1>7, <1>8, <1>9
        DEF Inv, Local, RunPoolExact, WaitStateExact,
            PlaceExact, TimerOwner, NoMissedKey

\* do_wait() that goes to sleep: no child it waits for is a zombie now.
LEMMA WaitSleepsKeepsInv ==
  ASSUME Inv, ~switching, NEW pid \in Procs \cup {NoProc}, WaitSleeps(pid),
         current \in Users \cup {InitProc}, pc[current] \notin {"sleep", "kbd"}
  PROVE  Inv'
<1>1. /\ current \in Procs /\ state[current] = "RUNNABLE"
      /\ waitState[current] = "NONE" /\ runq[current] = 0 /\ current # Idle
  BY Running, ConstFacts
<1>2. /\ state' = [state EXCEPT ![current] = "SLEEPING"]
      /\ waitState' = [waitState EXCEPT ![current] = "WT_CHILD"]
      /\ pc' = [pc EXCEPT ![current] = "wait"]
      /\ target' = [target EXCEPT ![current] = pid]
      /\ switching' = TRUE
      /\ UNCHANGED <<needResched, runq, current, parent, exiting, timer, kbdq,
                     wakeFlags, chars, ticks, nrProcess, halted>>
      /\ Awaited(current, pid) \cap Zombies = {}
  BY DEF WaitSleeps, Block
<1>3. TypeOK'
  <2>1. state' \in [Procs -> ProcState] /\ waitState' \in [Procs -> WaitState]
    BY <1>2 DEF Inv, TypeOK, SchedTypeOK, ProcState, WaitState, Interruptible
  <2>2. pc' \in [Procs -> Label] /\ target' \in [Procs -> Procs \cup {NoProc}]
    BY <1>2 DEF Inv, TypeOK, Label
  <2> QED BY <1>2, <2>1, <2>2 DEF Inv, TypeOK, SchedTypeOK
<1>4. \A p \in Procs : Local(p)'
  <2> SUFFICES ASSUME NEW p \in Procs
               PROVE  Local(p)'
    OBVIOUS
  <2>1. Local(p)
    BY InvParts
  <2>2. /\ pc'[p] = IF p = current THEN "wait" ELSE pc[p]
        /\ state'[p] = IF p = current THEN "SLEEPING" ELSE state[p]
        /\ waitState'[p] = IF p = current THEN "WT_CHILD" ELSE waitState[p]
    BY <1>2 DEF Inv, TypeOK, SchedTypeOK
  <2> QED BY <1>1, <1>2, <2>1, <2>2, ConstFacts
          DEF Local, Pooled, Waits, Placed, Timed, Keyed
<1>5. Alive' = Alive /\ Zombies' = Zombies
  BY <1>1, <1>2 DEF Inv, TypeOK, SchedTypeOK, Alive, Zombies
<1>6. ParentLives' /\ NrProcessExact'
  <2>1. \A p \in Procs : state'[p] = "ZOMBIE" => state[p] = "ZOMBIE"
    BY <1>2 DEF Inv, TypeOK, SchedTypeOK
  <2> QED BY <1>2, <1>5, <2>1
          DEF Inv, ParentLives, NrProcessExact, Alive
<1>7. NoMissedExit'
  <2> SUFFICES ASSUME NEW p \in Procs, waitState'[p] = "WT_CHILD",
                      NEW z \in Zombies', z \in Awaited(p, target[p])'
               PROVE  FALSE
    BY DEF NoMissedExit
  <2>1. z \in Zombies /\ z \in Awaited(p, target'[p])
    BY <1>2, <1>5 DEF Awaited, Kids
  <2>2. CASE p = current
    BY <1>2, <2>1, <2>2 DEF Inv, TypeOK
  <2>3. CASE p # current
    BY <1>2, <2>1, <2>3 DEF Inv, TypeOK, SchedTypeOK, NoMissedExit
  <2> QED BY <2>2, <2>3
<1> QED BY <1>2, <1>3, <1>4, <1>6, <1>7
        DEF Inv, RunningIsRunnable, Local, RunPoolExact, WaitStateExact,
            PlaceExact, TimerOwner, NoMissedKey

\* do_wait() as a system call, or again after a wakeup.
LEMMA DoWaitKeepsInv ==
  ASSUME Inv, ~switching, NEW pid \in Procs \cup {NoProc}, DoWait(pid),
         current \in Users, pc[current] \in {"user", "wait"}
  PROVE  Inv'
  BY WaitFailsKeepsInv, WaitReapsKeepsInv, WaitSleepsKeepsInv DEF DoWait

\* do_sleep().
LEMMA SleepKeepsInv ==
  ASSUME Inv, ~switching, NEW t \in Nat \ {0}, DoSleep(t),
         current \in Users \cup KThreads, pc[current] = "user"
  PROVE  Inv'
<1>1. /\ current \in Procs /\ state[current] = "RUNNABLE"
      /\ waitState[current] = "NONE" /\ runq[current] = 0
      /\ current # Idle /\ current # InitProc
  BY Running, ConstFacts
<1>2. /\ state' = [state EXCEPT ![current] = "SLEEPING"]
      /\ waitState' = [waitState EXCEPT ![current] = "WT_TIMER"]
      /\ pc' = [pc EXCEPT ![current] = "sleep"]
      /\ timer' = [timer EXCEPT ![current] = t]
      /\ switching' = TRUE
      /\ UNCHANGED <<needResched, runq, current, parent, exiting, target, kbdq,
                     wakeFlags, chars, ticks, nrProcess, halted>>
  BY DEF DoSleep, Block
<1>3. TypeOK'
  <2>1. state' \in [Procs -> ProcState] /\ waitState' \in [Procs -> WaitState]
    BY <1>2 DEF Inv, TypeOK, SchedTypeOK, ProcState, WaitState, Interruptible
  <2>2. pc' \in [Procs -> Label] /\ timer' \in [Procs -> Nat]
    BY <1>2 DEF Inv, TypeOK, Label
  <2> QED BY <1>2, <2>1, <2>2 DEF Inv, TypeOK, SchedTypeOK
<1>4. \A p \in Procs : Local(p)'
  <2> SUFFICES ASSUME NEW p \in Procs
               PROVE  Local(p)'
    OBVIOUS
  <2>1. Local(p)
    BY InvParts
  <2>2. /\ pc'[p] = IF p = current THEN "sleep" ELSE pc[p]
        /\ state'[p] = IF p = current THEN "SLEEPING" ELSE state[p]
        /\ waitState'[p] = IF p = current THEN "WT_TIMER" ELSE waitState[p]
        /\ timer'[p] = IF p = current THEN t ELSE timer[p]
    BY <1>2 DEF Inv, TypeOK, SchedTypeOK
  <2> QED BY <1>1, <1>2, <2>1, <2>2, ConstFacts
          DEF Local, Pooled, Waits, Placed, Timed, Keyed
<1>5. ParentLives' /\ NoMissedExit' /\ NrProcessExact'
  BY <1>1, <1>2, KinFrame DEF Inv, TypeOK, SchedTypeOK
<1> QED BY <1>2, <1>3, <1>4, <1>5
        DEF Inv, RunningIsRunnable, Local, RunPoolExact, WaitStateExact,
            PlaceExact, TimerOwner, NoMissedKey

-----------------------------------------------------------------------------
(* Steps that wake nobody, and steps that wake sleepers. *)

\* The current process goes on at label l, and leaves the timer list and the
\* wait queue of stdin when it leaves do_sleep() and dev_stdin_read().
LEMMA MoveKeepsInv ==
  ASSUME Inv, ~switching, NEW l \in Label,
         pc' = [pc EXCEPT ![current] = l],
         \/ l = pc[current]
         \/ current \in Users /\ l \in {"user", "trapexit"}
         \/ current \in KThreads /\ l = "user"
         \/ current = InitProc /\ l = "reap",
         UNCHANGED <<state, waitState, runq, current, parent, target, wakeFlags,
                     ticks, nrProcess>>,
         needResched' \in [Procs -> BOOLEAN], exiting' \in [Procs -> BOOLEAN],
         switching' \in BOOLEAN,
         halted' \in {"no", "init_main returned", "initproc exit"},
         chars' \in 0 .. STDIN_BUFSIZE, chars = 0 => chars' = 0,
         timer' \in [Procs -> Nat],
         \A p \in Procs : timer'[p] > 0 =>
           timer[p] > 0 /\ (p = current /\ pc[p] = "sleep" => l = "sleep"),
         \A p \in Procs : p # current => timer'[p] = timer[p],
         \/ kbdq' = kbdq /\ (pc[current] = "kbd" => l = "kbd")
         \/ kbdq' = kbdq \ {current}
  PROVE  Inv'
<1>1. current \in Procs /\ state[current] = "RUNNABLE" /\ waitState[current] = "NONE"
  BY Running
<1>2. TypeOK'
  <2>1. kbdq' \in SUBSET Procs
    BY DEF Inv, TypeOK
  <2> QED BY <2>1 DEF Inv, TypeOK, SchedTypeOK
<1>3. \A p \in Procs : Local(p)'
  <2> SUFFICES ASSUME NEW p \in Procs
               PROVE  Local(p)'
    OBVIOUS
  <2>1. Local(p)
    BY InvParts
  <2>2. pc'[p] = IF p = current THEN l ELSE pc[p]
    BY DEF Inv, TypeOK
  <2>3. Pooled(p)' /\ Waits(p)'
    BY <2>1 DEF Local, Pooled, Waits
  <2>4. Placed(p)'
    BY <1>1, <2>1, <2>2, ConstFacts DEF Local, Placed
  <2>5. Timed(p)'
    <3>1. timer'[p] \in Nat /\ timer[p] \in Nat
      BY DEF Inv, TypeOK
    <3>2. CASE p = current
      <4>1. waitState'[p] = "NONE"
        BY <1>1, <3>2
      <4>2. timer'[p] > 0 => pc[p] = "sleep" /\ l = "sleep"
        <5> SUFFICES ASSUME timer'[p] > 0
                     PROVE  pc[p] = "sleep" /\ l = "sleep"
          OBVIOUS
        <5>1. timer[p] > 0
          OBVIOUS
        <5>2. pc[p] = "sleep"
          BY <2>1, <5>1 DEF Local, Timed
        <5> QED BY <3>2, <5>2
      <4> QED BY <2>2, <3>2, <4>1, <4>2 DEF Timed
    <3>3. CASE p # current
      BY <2>1, <2>2, <3>1, <3>3 DEF Local, Timed
    <3> QED BY <3>2, <3>3
  <2>6. Keyed(p)'
    BY <1>1, <2>1, <2>2 DEF Local, Keyed
  <2> QED BY <2>3, <2>4, <2>5, <2>6 DEF Local
<1>4. ParentLives' /\ NoMissedExit' /\ NrProcessExact'
  BY KinFrame DEF Inv
<1> QED BY <1>1, <1>2, <1>3, <1>4
        DEF Inv, RunningIsRunnable, Local, RunPoolExact, WaitStateExact,
            PlaceExact, TimerOwner, NoMissedKey

\* What wakeup_proc() does to a set of processes none of which is dead.
LEMMA WakeupFacts ==
  ASSUME Inv, NEW STATE S,
         \A p \in Procs : p \in S => state[p] \in {"SLEEPING", "RUNNABLE"},
         Wakeup(state, waitState, runq, S)
  PROVE  /\ state' \in [Procs -> ProcState] /\ waitState' \in [Procs -> WaitState]
         /\ runq' \in [Procs -> Nat]
         /\ \A p \in Procs :
              /\ p \in S /\ state[p] = "SLEEPING" =>
                   /\ state'[p] = "RUNNABLE" /\ waitState'[p] = "NONE"
                   /\ runq'[p] = IF p \in {current, Idle} THEN 0 ELSE 1
              /\ p \notin S \/ state[p] # "SLEEPING" =>
                   /\ state'[p] = state[p] /\ waitState'[p] = waitState[p]
                   /\ runq'[p] = runq[p]
<1>1. \A p \in Procs : state[p] = "SLEEPING" => runq[p] = 0
  BY DEF Inv, RunPoolExact, Pooled
<1>2. /\ state \in [Procs -> ProcState] /\ waitState \in [Procs -> WaitState]
      /\ runq \in [Procs -> Nat]
  BY DEF Inv, TypeOK, SchedTypeOK
<1>3. state' = [p \in Procs |-> IF p \in S /\ state[p] # "RUNNABLE"
                                THEN "RUNNABLE" ELSE state[p]]
  BY DEF Wakeup, WakeState, Roused
<1>4. waitState' = [p \in Procs |-> IF p \in S /\ state[p] # "RUNNABLE"
                                    THEN "NONE" ELSE waitState[p]]
  BY DEF Wakeup, WakeWait, Roused
<1>5. runq' = [p \in Procs |->
                 IF p \in S /\ state[p] # "RUNNABLE" /\ p \notin {current, Idle}
                 THEN runq[p] + 1 ELSE runq[p]]
  BY DEF Wakeup, WakePool, Roused
<1>6. runq' \in [Procs -> Nat]
  BY <1>2, <1>5
<1>7. state' \in [Procs -> ProcState] /\ waitState' \in [Procs -> WaitState]
  BY <1>2, <1>3, <1>4 DEF ProcState, WaitState
<1>8. \A p \in Procs :
        /\ p \in S /\ state[p] = "SLEEPING" =>
             /\ state'[p] = "RUNNABLE" /\ waitState'[p] = "NONE"
             /\ runq'[p] = IF p \in {current, Idle} THEN 0 ELSE 1
        /\ p \notin S \/ state[p] # "SLEEPING" =>
             /\ state'[p] = state[p] /\ waitState'[p] = waitState[p]
             /\ runq'[p] = runq[p]
  BY <1>1, <1>2, <1>3, <1>4, <1>5
<1> QED BY <1>6, <1>7, <1>8

\* do_kill(): a sleep that may be interrupted ends.
LEMMA KillKeepsInv ==
  ASSUME Inv, NEW p, SysKill(p)
  PROVE  Inv'
<1>1. PICK q \in KillTargets \cap Alive :
        /\ exiting' = [exiting EXCEPT ![q] = TRUE]
        /\ Wakeup(state, waitState, runq,
                  IF waitState[q] \in Interruptible THEN {q} ELSE {})
  BY DEF SysKill
<1>2. /\ ~switching /\ p = current /\ current \in Users /\ pc[current] = "user"
      /\ pc' = [pc EXCEPT ![current] = "trapexit"]
      /\ UNCHANGED <<needResched, current, switching, parent, target, timer,
                     kbdq, wakeFlags, chars, ticks, nrProcess, halted>>
  BY DEF SysKill, At
<1>3. current \in Procs /\ state[current] = "RUNNABLE" /\ waitState[current] = "NONE"
  BY <1>2, Running
<1> DEFINE S == IF waitState[q] \in Interruptible THEN {q} ELSE {}
<1>4. \A r \in Procs : r \in S => state[r] \in {"SLEEPING", "RUNNABLE"}
  BY DEF Inv, WaitStateExact, Waits, Interruptible
<1>5. Wakeup(state, waitState, runq, S)
  BY <1>1
<1> HIDE DEF S
<1>6. /\ state' \in [Procs -> ProcState] /\ waitState' \in [Procs -> WaitState]
      /\ runq' \in [Procs -> Nat]
      /\ \A r \in Procs :
           /\ r \in S /\ state[r] = "SLEEPING" =>
                /\ state'[r] = "RUNNABLE" /\ waitState'[r] = "NONE"
                /\ runq'[r] = IF r \in {current, Idle} THEN 0 ELSE 1
           /\ r \notin S \/ state[r] # "SLEEPING" =>
                /\ state'[r] = state[r] /\ waitState'[r] = waitState[r]
                /\ runq'[r] = runq[r]
  BY <1>4, <1>5, WakeupFacts
<1>7. TypeOK'
  <2>1. exiting' \in [Procs -> BOOLEAN] /\ pc' \in [Procs -> Label]
    BY <1>1, <1>2 DEF Inv, TypeOK, Label
  <2> QED BY <1>2, <1>6, <2>1 DEF Inv, TypeOK, SchedTypeOK
<1>8. \A r \in Procs : Local(r)'
  <2> SUFFICES ASSUME NEW r \in Procs
               PROVE  Local(r)'
    OBVIOUS
  <2>1. Local(r)
    BY InvParts
  <2>2. pc'[r] = IF r = current THEN "trapexit" ELSE pc[r]
    BY <1>2 DEF Inv, TypeOK
  <2> USE DEF Local, Pooled, Waits, Placed, Timed, Keyed
  <2>3. CASE r \in S /\ state[r] = "SLEEPING"
    BY <1>2, <1>3, <1>6, <2>1, <2>2, <2>3, ConstFacts
  <2>4. CASE ~(r \in S /\ state[r] = "SLEEPING")
    BY <1>2, <1>3, <1>6, <2>1, <2>2, <2>4, ConstFacts
  <2> QED BY <2>3, <2>4
<1>9. ParentLives' /\ NoMissedExit' /\ NrProcessExact'
  BY <1>2, <1>6, KinFrame DEF Inv
<1> QED BY <1>2, <1>3, <1>6, <1>7, <1>8, <1>9
        DEF Inv, RunningIsRunnable, Local, RunPoolExact, WaitStateExact,
            PlaceExact, TimerOwner, NoMissedKey

\* The timer interrupt: the owners of expired timers wake, and the readers of
\* stdin when a key was pressed.
LEMMA TickKeepsInv ==
  ASSUME Inv, NEW key \in BOOLEAN, NEW sliceOver \in BOOLEAN, Tick(key, sliceOver)
  PROVE  Inv'
<1> DEFINE S == Expired \cup (IF key THEN kbdq ELSE {})
<1>1. /\ needResched' = [needResched EXCEPT ![current] =
                           @ \/ ticks' = 0 \/ sliceOver \/ current = Idle]
      /\ ticks' = (ticks + 1) % TICK_NUM
      /\ timer' = [p \in Procs |-> IF timer[p] > 0 THEN timer[p] - 1 ELSE 0]
      /\ chars' = IF key /\ chars < STDIN_BUFSIZE THEN chars + 1 ELSE chars
      /\ wakeFlags' = [p \in Procs |-> IF key /\ p \in kbdq
                                       THEN "WT_KBD" ELSE wakeFlags[p]]
      /\ kbdq' = IF key THEN {} ELSE kbdq
      /\ Wakeup(state, waitState, runq, S)
      /\ pc' = [pc EXCEPT ![current] = IF current \in Users THEN "trapexit" ELSE @]
      /\ UNCHANGED <<current, switching, parent, exiting, target, nrProcess,
                     halted>>
  BY DEF Tick, CharsAfter
<1>2. /\ current \in Procs
      /\ \/ current \in Kernel
         \/ current \in Users /\ ~switching /\ pc[current] = "user"
  <2>1. current \in Procs
    BY DEF Inv, TypeOK, SchedTypeOK
  <2>2. \/ current \in Kernel
        \/ current \in Users /\ ~switching /\ pc[current] = "user"
    <3>1. InterruptsOn
      BY DEF Tick
    <3> QED BY <3>1 DEF InterruptsOn
  <2> QED BY <2>1, <2>2
<1>3. \A p \in Procs : p \in S <=> timer[p] = 1 \/ (key = TRUE /\ p \in kbdq)
  BY DEF Expired
<1>4. \A p \in Procs : p \in S => state[p] \in {"SLEEPING", "RUNNABLE"}
  <2> SUFFICES ASSUME NEW p \in Procs, p \in S
               PROVE  state[p] \in {"SLEEPING", "RUNNABLE"}
    OBVIOUS
  <2>1. state[p] \in ProcState
    BY DEF Inv, TypeOK, SchedTypeOK
  <2>2. Placed(p) /\ Timed(p) /\ Keyed(p)
    BY DEF Inv, PlaceExact, TimerOwner, NoMissedKey
  <2>3. CASE timer[p] = 1
    BY <2>1, <2>2, <2>3 DEF Placed, Timed, ProcState
  <2>4. CASE p \in kbdq
    BY <2>2, <2>4 DEF Keyed
  <2> QED BY <1>3, <2>3, <2>4
<1> HIDE DEF S
<1>5. /\ state' \in [Procs -> ProcState] /\ waitState' \in [Procs -> WaitState]
      /\ runq' \in [Procs -> Nat]
      /\ \A p \in Procs :
           /\ p \in S /\ state[p] = "SLEEPING" =>
                /\ state'[p] = "RUNNABLE" /\ waitState'[p] = "NONE"
                /\ runq'[p] = IF p \in {current, Idle} THEN 0 ELSE 1
           /\ p \notin S \/ state[p] # "SLEEPING" =>
                /\ state'[p] = state[p] /\ waitState'[p] = waitState[p]
                /\ runq'[p] = runq[p]
  BY <1>1, <1>4, WakeupFacts
<1>6. TypeOK'
  <2>1. ticks' \in 0 .. TICK_NUM - 1
    <3>1. ticks \in 0 .. TICK_NUM - 1 /\ TICK_NUM \in Nat \ {0}
      BY ProcAssumption DEF Inv, TypeOK
    <3>2. ticks' = (ticks + 1) % TICK_NUM
      BY <1>1
    <3> QED BY <3>1, <3>2
  <2>2. chars' \in 0 .. STDIN_BUFSIZE
    <3>1. chars \in 0 .. STDIN_BUFSIZE /\ STDIN_BUFSIZE \in Nat
      BY ProcAssumption DEF Inv, TypeOK
    <3>2. chars' = IF key /\ chars < STDIN_BUFSIZE THEN chars + 1 ELSE chars
      BY <1>1
    <3> QED BY <3>1, <3>2
  <2>3. timer' \in [Procs -> Nat]
    <3>1. timer \in [Procs -> Nat]
      BY DEF Inv, TypeOK
    <3> QED BY <1>1, <3>1
  <2>4. /\ needResched' \in [Procs -> BOOLEAN]
        /\ wakeFlags' \in [Procs -> {"WT_INTERRUPTED", "WT_KBD"}]
        /\ kbdq' \in SUBSET Procs
    BY <1>1, <1>2 DEF Inv, TypeOK, SchedTypeOK
  <2>5. pc' \in [Procs -> Label]
    BY <1>1, <1>2 DEF Inv, TypeOK, Label
  <2> QED BY <1>1, <1>5, <2>1, <2>2, <2>3, <2>4, <2>5
          DEF Inv, TypeOK, SchedTypeOK
<1>7. \A p \in Procs : Local(p)'
  <2> SUFFICES ASSUME NEW p \in Procs
               PROVE  Local(p)'
    OBVIOUS
  <2>1. Local(p)
    BY InvParts
  <2>2. pc'[p] = IF p = current /\ p \in Users THEN "trapexit" ELSE pc[p]
    BY <1>1, <1>2 DEF Inv, TypeOK
  <2>3. p = current /\ p \in Users => pc[p] = "user"
    BY <1>2, ConstFacts DEF Kernel
  <2>4. Pooled(p)' /\ Waits(p)'
    BY <1>1, <1>5, <2>1 DEF Local, Pooled, Waits
  <2>5. Placed(p)'
    BY <1>1, <1>4, <1>5, <2>1, <2>2, <2>3, ConstFacts DEF Local, Placed
  <2>6. Timed(p)'
    <3>1. timer[p] \in Nat /\ timer'[p] = IF timer[p] > 0 THEN timer[p] - 1 ELSE 0
      BY <1>1 DEF Inv, TypeOK
    <3>2. waitState'[p] = waitState[p] \/ waitState'[p] = "NONE"
      BY <1>5
    <3>3. timer[p] = 1 => waitState'[p] # "WT_TIMER"
      BY <1>3, <1>5, <2>1 DEF Local, Waits
    <3> QED BY <2>1, <2>2, <2>3, <3>1, <3>2, <3>3 DEF Local, Timed
  <2>7. Keyed(p)'
    BY <1>1, <1>3, <1>4, <1>5, <2>1, <2>2, <2>3
       DEF Inv, TypeOK, Local, Keyed, Waits
  <2> QED BY <2>4, <2>5, <2>6, <2>7 DEF Local
<1>8. ParentLives' /\ NoMissedExit' /\ NrProcessExact'
  BY <1>1, <1>5, KinFrame DEF Inv
<1>9. RunningIsRunnable'
  BY <1>1, <1>2, <1>5 DEF Inv, RunningIsRunnable
<1> QED BY <1>6, <1>7, <1>8, <1>9
        DEF Inv, Local, RunPoolExact, WaitStateExact, PlaceExact, TimerOwner,
            NoMissedKey

-----------------------------------------------------------------------------
(* The actions, one lemma for each group. *)

\* The loop of dev_stdin_read().
LEMMA StdinReadKeepsInv ==
  ASSUME Inv, ~switching, StdinRead, current \in Users,
         pc[current] \in {"user", "kbd"}
  PROVE  Inv'
<1>1. /\ current \in Procs /\ state[current] = "RUNNABLE"
      /\ waitState[current] = "NONE" /\ runq[current] = 0
      /\ current # Idle /\ current # InitProc
  BY Running, ConstFacts
<1>2. CASE \E n \in 1 .. chars :
             /\ chars' = chars - n
             /\ kbdq' = kbdq \ {current}
             /\ pc' = [pc EXCEPT ![current] = "trapexit"]
             /\ UNCHANGED <<schedVars, parent, exiting, target, timer, wakeFlags,
                            ticks, nrProcess, halted>>
  <2>1. chars \in 0 .. STDIN_BUFSIZE /\ STDIN_BUFSIZE \in Nat
    BY ProcAssumption DEF Inv, TypeOK
  <2>2. chars' \in 0 .. STDIN_BUFSIZE /\ (chars = 0 => chars' = 0)
    BY <1>2, <2>1
  <2>3. /\ needResched' \in [Procs -> BOOLEAN] /\ exiting' \in [Procs -> BOOLEAN]
        /\ switching' \in BOOLEAN
        /\ halted' \in {"no", "init_main returned", "initproc exit"}
    BY <1>2 DEF Inv, TypeOK, SchedTypeOK, schedVars
  <2>4. "trapexit" \in Label
    BY DEF Label
  <2> QED BY <1>2, <2>2, <2>3, <2>4, MoveKeepsInv DEF schedVars, Inv, TypeOK
<1>3. CASE /\ chars' = 0
           /\ kbdq' = kbdq \cup {current}
           /\ wakeFlags' = [wakeFlags EXCEPT ![current] = "WT_INTERRUPTED"]
           /\ Block("WT_KBD", "kbd")
           /\ UNCHANGED <<parent, exiting, target, timer, ticks, nrProcess, halted>>
  <2>1. /\ state' = [state EXCEPT ![current] = "SLEEPING"]
        /\ waitState' = [waitState EXCEPT ![current] = "WT_KBD"]
        /\ pc' = [pc EXCEPT ![current] = "kbd"]
        /\ switching' = TRUE
        /\ UNCHANGED <<needResched, runq, current>>
    BY <1>3 DEF Block
  <2>2. TypeOK'
    <3>1. state' \in [Procs -> ProcState] /\ waitState' \in [Procs -> WaitState]
      BY <2>1 DEF Inv, TypeOK, SchedTypeOK, ProcState, WaitState, Interruptible
    <3>2. pc' \in [Procs -> Label] /\ kbdq' \in SUBSET Procs
      BY <1>1, <1>3, <2>1 DEF Inv, TypeOK, Label
    <3>3. chars' \in 0 .. STDIN_BUFSIZE
      BY <1>3, ProcAssumption
    <3>4. wakeFlags' \in [Procs -> {"WT_INTERRUPTED", "WT_KBD"}]
      BY <1>3 DEF Inv, TypeOK
    <3> QED BY <1>3, <2>1, <3>1, <3>2, <3>3, <3>4 DEF Inv, TypeOK, SchedTypeOK
  <2>3. \A p \in Procs : Local(p)'
    <3> SUFFICES ASSUME NEW p \in Procs
                 PROVE  Local(p)'
      OBVIOUS
    <3>1. Local(p)
      BY InvParts
    <3>2. /\ pc'[p] = IF p = current THEN "kbd" ELSE pc[p]
          /\ state'[p] = IF p = current THEN "SLEEPING" ELSE state[p]
          /\ waitState'[p] = IF p = current THEN "WT_KBD" ELSE waitState[p]
      BY <2>1 DEF Inv, TypeOK, SchedTypeOK
    <3> USE DEF Local, Pooled, Waits, Placed, Timed, Keyed
    <3>3. CASE p = current
      BY <1>1, <1>3, <2>1, <3>1, <3>2, <3>3, ConstFacts
    <3>4. CASE p # current
      BY <1>1, <1>3, <2>1, <3>1, <3>2, <3>4
    <3> QED BY <3>3, <3>4
  <2>4. ParentLives' /\ NoMissedExit' /\ NrProcessExact'
    BY <1>1, <1>3, <2>1, KinFrame DEF Inv, TypeOK, SchedTypeOK
  <2> QED BY <2>1, <2>2, <2>3, <2>4
          DEF Inv, RunningIsRunnable, Local, RunPoolExact, WaitStateExact,
              PlaceExact, TimerOwner, NoMissedKey
<1> QED BY <1>2, <1>3 DEF StdinRead, WaitCurrentDel

\* The system calls.
LEMMA UserKeepsInv ==
  ASSUME Inv, NEW p \in Procs, UserStep(p)
  PROVE  Inv'
<1> USE DEF At
<1>1. CASE SysFork(p)
  <2>1. PICK c \in Users :
          DoFork(c) /\ pc' = [pc EXCEPT ![p] = "trapexit", ![c] = "user"]
    BY <1>1 DEF SysFork
  <2> QED BY <1>1, <2>1, ForkKeepsInv DEF SysFork
<1>2. CASE SysOther(p)
  <2>1. "trapexit" \in Label
    BY DEF Label
  <2> QED BY <1>2, <2>1, MoveKeepsInv
          DEF SysOther, schedVars, Inv, TypeOK, SchedTypeOK
<1>3. CASE SysExit(p)
  BY <1>3, ExitKeepsInv DEF SysExit
<1>4. CASE SysWait(p)
  BY <1>4, DoWaitKeepsInv, ConstFacts DEF SysWait
<1>5. CASE SysKill(p)
  BY <1>5, KillKeepsInv
<1>6. CASE SysYield(p)
  <2>1. "trapexit" \in Label
    BY DEF Label
  <2> QED BY <1>6, <2>1, MoveKeepsInv
          DEF SysYield, Inv, TypeOK, SchedTypeOK
<1>7. CASE SysSleep(p)
  <2>1. PICK t \in 1 .. MaxSleep : DoSleep(t)
    BY <1>7 DEF SysSleep
  <2>2. t \in Nat \ {0}
    BY ProcAssumption
  <2> QED BY <1>7, <2>1, <2>2, SleepKeepsInv DEF SysSleep
<1>8. CASE SysReadStdin(p)
  BY <1>8, StdinReadKeepsInv DEF SysReadStdin
<1> QED BY <1>1, <1>2, <1>3, <1>4, <1>5, <1>6, <1>7, <1>8 DEF UserStep

\* What follows schedule() in the handlers, and the way out of trap().
LEMMA KernelKeepsInv ==
  ASSUME Inv, NEW p \in Procs, KernelStep(p)
  PROVE  Inv'
<1> USE DEF At
<1>1. CASE WaitResumes(p)
  <2>1. target[p] \in Procs \cup {NoProc}
    BY DEF Inv, TypeOK
  <2>2. CASE exiting[p]
    BY <1>1, <2>2, ExitKeepsInv DEF WaitResumes
  <2>3. CASE ~exiting[p]
    BY <1>1, <2>1, <2>3, DoWaitKeepsInv DEF WaitResumes
  <2> QED BY <2>2, <2>3
<1>2. CASE SleepResumes(p)
  <2>1. current = p /\ ~switching /\ p \in Users \cup KThreads
    BY <1>2, ConstFacts, ProcAssumption DEF SleepResumes, Inv, PlaceExact, Placed
  <2>2. "user" \in Label /\ "trapexit" \in Label
    BY DEF Label
  <2>3. /\ timer \in [Procs -> Nat] /\ timer' \in [Procs -> Nat]
        /\ \A q \in Procs : timer'[q] = IF q = p THEN 0 ELSE timer[q]
    BY <1>2 DEF SleepResumes, DelTimer, Inv, TypeOK
  <2>4. /\ \A q \in Procs : timer'[q] > 0 => timer[q] > 0 /\ q # p
        /\ \A q \in Procs : q # p => timer'[q] = timer[q]
    BY <2>3
  <2>5. PICK l \in {"user", "trapexit"} :
          /\ pc' = [pc EXCEPT ![current] = l]
          /\ p \in KThreads => l = "user"
    BY <1>2, <2>1, ConstFacts DEF SleepResumes
  <2>6. UNCHANGED <<schedVars, parent, exiting, target, kbdq, wakeFlags, chars,
                    ticks, nrProcess, halted>>
    BY <1>2 DEF SleepResumes
  <2>7. pc[current] = "sleep"
    BY <1>2 DEF SleepResumes
  <2> QED BY <2>1, <2>2, <2>3, <2>4, <2>5, <2>6, <2>7, MoveKeepsInv
          DEF schedVars, Inv, TypeOK, SchedTypeOK
<1>3. CASE KbdResumes(p)
  <2>1. current = p /\ ~switching /\ p \in Users /\ pc[current] = "kbd"
    BY <1>3, ConstFacts, ProcAssumption DEF KbdResumes, Inv, PlaceExact, Placed
  <2>2. CASE wakeFlags[p] = "WT_KBD"
    BY <1>3, <2>1, <2>2, StdinReadKeepsInv DEF KbdResumes
  <2>3. CASE wakeFlags[p] # "WT_KBD"
    <3>1. "trapexit" \in Label
      BY DEF Label
    <3> QED BY <1>3, <2>1, <2>3, <3>1, MoveKeepsInv
            DEF KbdResumes, WaitCurrentDel, schedVars, Inv, TypeOK, SchedTypeOK
  <2> QED BY <2>2, <2>3
<1>4. CASE TrapExit(p)
  <2>1. current = p /\ ~switching /\ p \in Users /\ pc[current] = "trapexit"
    BY <1>4, ConstFacts, ProcAssumption DEF TrapExit, Inv, PlaceExact, Placed
  <2>2. CASE exiting[p]
    BY <1>4, <2>1, <2>2, ExitKeepsInv DEF TrapExit
  <2>3. CASE ~exiting[p]
    <3>1. "user" \in Label
      BY DEF Label
    <3>2. switching' \in BOOLEAN
      BY <1>4, <2>3 DEF TrapExit, Inv, TypeOK, SchedTypeOK
    <3> QED BY <1>4, <2>1, <2>3, <3>1, <3>2, MoveKeepsInv
            DEF TrapExit, Inv, TypeOK, SchedTypeOK
  <2> QED BY <2>2, <2>3
<1> QED BY <1>1, <1>2, <1>3, <1>4 DEF KernelStep

\* init_main().
LEMMA InitThreadKeepsInv ==
  ASSUME Inv, InitThread
  PROVE  Inv'
<1> USE DEF At
<1>1. CASE InitForks
  <2>1. PICK c \in Users \cup KThreads :
          /\ DoFork(c)
          /\ \E l \in {"boot", "reap"} :
               pc' = [pc EXCEPT ![InitProc] = l, ![c] = "user"]
    BY <1>1 DEF InitForks
  <2>3. PICK l \in {"boot", "reap"} : pc' = [pc EXCEPT ![InitProc] = l, ![c] = "user"]
    BY <2>1
  <2> QED BY <1>1, <2>1, <2>3, ForkKeepsInv DEF InitForks
<1>2. CASE InitReaps
  <2>1. current = InitProc /\ ~switching /\ pc[current] = "reap"
    BY <1>2 DEF InitReaps
  <2>2. CASE WaitReaps(NoProc, "reap", TRUE)
    BY <2>1, <2>2, WaitReapsKeepsInv
  <2>3. CASE WaitSleeps(NoProc)
    BY <2>1, <2>3, WaitSleepsKeepsInv
  <2>4. CASE /\ halted' = "init_main returned"
             /\ UNCHANGED <<schedVars, parent, exiting, pc, target, timer, kbdq,
                            wakeFlags, chars, ticks, nrProcess>>
    <3>1. pc' = [pc EXCEPT ![current] = "reap"] /\ "reap" \in Label
      BY <2>1, <2>4, ConstFacts DEF Inv, TypeOK, Label
    <3> QED BY <2>1, <2>4, <3>1, MoveKeepsInv
            DEF schedVars, Inv, TypeOK, SchedTypeOK
  <2> QED BY <1>2, <2>2, <2>3, <2>4 DEF InitReaps
<1>3. CASE InitResumes
  <2>1. current = InitProc /\ ~switching /\ pc[current] = "wait"
    BY <1>3 DEF InitResumes
  <2>2. CASE exiting[InitProc]
    <3>1. pc' = [pc EXCEPT ![current] = "wait"] /\ "wait" \in Label
      BY <1>3, <2>1, <2>2, ConstFacts, ZenonT(30) DEF InitResumes, Inv, TypeOK, Label
    <3> QED BY <1>3, <2>1, <2>2, <3>1, MoveKeepsInv
            DEF InitResumes, schedVars, Inv, TypeOK, SchedTypeOK
  <2>3. CASE ~exiting[InitProc]
    <3>1. "reap" \in Label
      BY DEF Label
    <3> QED BY <1>3, <2>1, <2>3, <3>1, MoveKeepsInv
            DEF InitResumes, schedVars, Inv, TypeOK, SchedTypeOK
  <2> QED BY <2>2, <2>3
<1> QED BY <1>1, <1>2, <1>3 DEF InitThread

\* The inductive step.
LEMMA NextKeepsInv == Inv /\ [Next]_vars => Inv'
<1> SUFFICES ASSUME Inv, [Next]_vars
             PROVE  Inv'
  OBVIOUS
<1>1. CASE Switch
  BY <1>1, SwitchKeepsInv DEF Switch
<1>2. CASE IdleLoop
  <2>1. pc' = [pc EXCEPT ![current] = "idle"] /\ "idle" \in Label
    BY <1>2, ConstFacts DEF IdleLoop, At, procVars, Inv, TypeOK, Label
  <2> QED BY <1>2, <2>1, MoveKeepsInv
          DEF IdleLoop, At, procVars, Inv, TypeOK, SchedTypeOK
<1>3. CASE InitThread
  BY <1>3, InitThreadKeepsInv
<1>4. CASE TimerInterrupt
  BY <1>4, TickKeepsInv DEF TimerInterrupt
<1>5. ASSUME NEW p \in Procs, KernelStep(p) \/ UserStep(p)
      PROVE  Inv'
  BY <1>5, KernelKeepsInv, UserKeepsInv
<1>6. ASSUME NEW p \in Procs, KThreadStep(p)
      PROVE  Inv'
  <2>1. CASE KThreadSleeps(p)
    <3>1. PICK t \in 1 .. MaxSleep : DoSleep(t)
      BY <2>1 DEF KThreadSleeps
    <3>2. t \in Nat \ {0}
      BY ProcAssumption
    <3> QED BY <2>1, <3>1, <3>2, SleepKeepsInv DEF KThreadSleeps, At
  <2>2. CASE KThreadExits(p)
    BY <2>2, ExitKeepsInv DEF KThreadExits, At
  <2> QED BY <1>6, <2>1, <2>2 DEF KThreadStep
<1>7. CASE UNCHANGED vars
  <2> USE <1>7 DEF vars, schedVars, procVars
  <2>1. TypeOK' /\ RunningIsRunnable'
    BY DEF Inv, TypeOK, SchedTypeOK, RunningIsRunnable
  <2>2. RunPoolExact' /\ WaitStateExact' /\ PlaceExact'
    BY DEF Inv, RunPoolExact, Pooled, WaitStateExact, Waits, PlaceExact, Placed
  <2>3. TimerOwner' /\ NoMissedKey'
    BY DEF Inv, TimerOwner, Timed, NoMissedKey, Keyed
  <2>4. ParentLives' /\ NoMissedExit' /\ NrProcessExact'
    BY KinFrame DEF Inv
  <2> QED BY <2>1, <2>2, <2>3, <2>4 DEF Inv
<1>8. CASE Halted
  BY <1>7, <1>8 DEF Halted
<1> QED BY <1>1, <1>2, <1>3, <1>4, <1>5, <1>6, <1>7, <1>8 DEF Next

-----------------------------------------------------------------------------
\* Inv holds in every reachable state.
THEOREM InvHolds == Spec => []Inv
  BY InitInv, NextKeepsInv, PTL DEF Spec

\* Every variable keeps its type.
THEOREM TypeCorrect == Spec => []TypeOK
<1>1. Inv => TypeOK
  BY DEF Inv
<1> QED BY <1>1, InvHolds, PTL

\* The run pool holds exactly the waiting runnable processes, each once: no
\* wakeup is lost and nobody is enqueued twice (sched.c).
THEOREM RunPoolCorrect == Spec => []RunPoolExact
<1>1. Inv => RunPoolExact
  BY DEF Inv
<1> QED BY <1>1, InvHolds, PTL

\* No sleeping or dead process executes (sched.c, schedule).
THEOREM OnlyRunnableRuns == Spec => []RunningIsRunnable
<1>1. Inv => RunningIsRunnable
  BY DEF Inv
<1> QED BY <1>1, InvHolds, PTL

\* No child's exit is missed by a parent that sleeps in do_wait() (proc.c).
THEOREM NoExitMissed == Spec => []NoMissedExit
<1>1. Inv => NoMissedExit
  BY DEF Inv
<1> QED BY <1>1, InvHolds, PTL

\* proc->parent never dangles (proc.c, do_exit).
THEOREM ParentsLive == Spec => []ParentLives
<1>1. Inv => ParentLives
  BY DEF Inv
<1> QED BY <1>1, InvHolds, PTL

\* Timers belong to sleepers inside do_sleep(), and these have one.
THEOREM TimersOwned == Spec => []TimerOwner
<1>1. Inv => TimerOwner
  BY DEF Inv
<1> QED BY <1>1, InvHolds, PTL

\* A reader of stdin sleeps only while there is nothing to read.
THEOREM NoKeyMissed == Spec => []NoMissedKey
<1>1. Inv => NoMissedKey
  BY DEF Inv
<1> QED BY <1>1, InvHolds, PTL

\* nr_process counts the processes (proc.c, set_links and remove_links).
THEOREM ProcessCount == Spec => []NrProcessExact
<1>1. Inv => NrProcessExact
  BY DEF Inv
<1> QED BY <1>1, InvHolds, PTL

\* A process is freed by do_wait() of its parent and by nothing else.
Freed(p) == state[p] # "UNUSED" /\ state'[p] = "UNUSED"

\* wakeup_proc() frees no slot, whatever states it starts from (sched.c).
LEMMA WakeFreesNobody ==
  ASSUME NEW STATE st, NEW STATE ws, NEW STATE rq, NEW STATE S, Wakeup(st, ws, rq, S),
         \A p \in Procs : st[p] = "UNUSED" => state[p] = "UNUSED"
  PROVE  \A p \in Procs : ~Freed(p)
  BY DEF Wakeup, WakeState, Freed

\* do_wait() frees a zombie child of the current process, which is not in the
\* run pool, and nobody else (proc.c, do_wait).
LEMMA ReapFrees ==
  ASSUME Inv, ~switching, NEW pid, NEW l, NEW b, WaitReaps(pid, l, b),
         NEW p \in Procs, Freed(p)
  PROVE  state[p] = "ZOMBIE" /\ current = parent[p] /\ runq[p] = 0
<1>1. PICK z \in Awaited(current, pid) \cap Zombies :
        state' = [state EXCEPT ![z] = "UNUSED"]
  BY DEF WaitReaps
<1>2. p = z
  BY <1>1 DEF Freed, Inv, TypeOK, SchedTypeOK
<1>3. state[p] = "ZOMBIE" /\ parent[p] = current
  BY <1>1, <1>2 DEF Awaited, Kids, Zombies
<1> QED BY <1>3 DEF Inv, RunPoolExact, Pooled

\* Going to sleep frees no slot (wait.c, wait_current_set).
LEMMA BlockFreesNobody ==
  ASSUME Inv, NEW ws, NEW l, Block(ws, l)
  PROVE  \A p \in Procs : ~Freed(p)
  BY DEF Block, Freed, Inv, TypeOK, SchedTypeOK

\* do_exit() leaves a zombie behind and frees no slot (proc.c, do_exit).
LEMMA ExitFreesNobody ==
  ASSUME Inv, DoExit
  PROVE  \A p \in Procs : ~Freed(p)
<1>1. Wakeup([state EXCEPT ![current] = "ZOMBIE"], waitState, runq, ExitWakes)
  BY DEF DoExit
<1> QED BY <1>1 DEF Wakeup, WakeState, Freed, Inv, TypeOK, SchedTypeOK

\* Only its parent frees a process, after the process left the CPU for good
\* (proc.c, do_wait).
THEOREM ParentReaps == Spec => OnlyParentReaps
<1>1. ASSUME Inv, [Next]_vars, NEW p \in Procs, Freed(p)
      PROVE  state[p] = "ZOMBIE" /\ current = parent[p] /\ runq[p] = 0
  <2> USE DEF At, schedVars, procVars
  <2>1. CASE Switch \/ IdleLoop \/ Halted \/ UNCHANGED vars
    BY <1>1, <2>1
       DEF Switch, SwitchTo, ScheduleTo, IdleLoop, Halted, vars, Freed
  <2>2. CASE InitThread
    <3>1. CASE InitForks
      BY <1>1, <3>1, WakeFreesNobody DEF InitForks, DoFork
    <3>2. CASE InitReaps
      BY <1>1, <3>2, ReapFrees, BlockFreesNobody
         DEF InitReaps, WaitSleeps, Freed
    <3>3. CASE InitResumes
      BY <1>1, <3>3 DEF InitResumes, Freed
    <3> QED BY <2>2, <3>1, <3>2, <3>3 DEF InitThread
  <2>3. CASE TimerInterrupt
    BY <1>1, <2>3, WakeFreesNobody DEF TimerInterrupt, Tick
  <2>4. ASSUME NEW q \in Procs, KernelStep(q)
        PROVE  state[p] = "ZOMBIE" /\ current = parent[p] /\ runq[p] = 0
    <3>1. CASE WaitResumes(q)
      BY <1>1, <3>1, ExitFreesNobody, ReapFrees, BlockFreesNobody
         DEF WaitResumes, DoWait, WaitFails, WaitSleeps, Freed
    <3>2. CASE SleepResumes(q)
      BY <1>1, <3>2 DEF SleepResumes, Freed
    <3>3. CASE KbdResumes(q)
      BY <1>1, <3>3, BlockFreesNobody DEF KbdResumes, StdinRead, Freed
    <3>4. CASE TrapExit(q)
      BY <1>1, <3>4, ExitFreesNobody DEF TrapExit, Freed
    <3> QED BY <2>4, <3>1, <3>2, <3>3, <3>4 DEF KernelStep
  <2>5. ASSUME NEW q \in Procs, UserStep(q)
        PROVE  state[p] = "ZOMBIE" /\ current = parent[p] /\ runq[p] = 0
    <3>1. CASE SysFork(q)
      BY <1>1, <3>1, WakeFreesNobody DEF SysFork, DoFork
    <3>2. CASE SysWait(q)
      BY <1>1, <3>2, ReapFrees, BlockFreesNobody
         DEF SysWait, DoWait, WaitFails, WaitSleeps, Freed
    <3>3. CASE SysKill(q)
      BY <1>1, <3>3, WakeFreesNobody DEF SysKill
    <3>4. CASE SysExit(q)
      BY <1>1, <3>4, ExitFreesNobody DEF SysExit
    <3>5. CASE SysOther(q) \/ SysYield(q)
      BY <1>1, <3>5 DEF SysOther, SysYield, Freed
    <3>6. CASE SysSleep(q) \/ SysReadStdin(q)
      BY <1>1, <3>6, BlockFreesNobody
         DEF SysSleep, DoSleep, SysReadStdin, StdinRead, Freed
    <3> QED BY <2>5, <3>1, <3>2, <3>3, <3>4, <3>5, <3>6 DEF UserStep
  <2>6. ASSUME NEW q \in Procs, KThreadStep(q)
        PROVE  state[p] = "ZOMBIE" /\ current = parent[p] /\ runq[p] = 0
    BY <1>1, <2>6, BlockFreesNobody, ExitFreesNobody
       DEF KThreadStep, KThreadSleeps, KThreadExits, DoSleep
  <2> QED BY <1>1, <2>1, <2>2, <2>3, <2>4, <2>5, <2>6 DEF Next
<1>2. Inv /\ [Next]_vars =>
        [\A p \in Procs :
           state[p] # "UNUSED" /\ state'[p] = "UNUSED" =>
             state[p] = "ZOMBIE" /\ current = parent[p] /\ runq[p] = 0]_vars
  BY <1>1 DEF Freed
<1> QED BY <1>2, InvHolds, PTL DEF Spec, OnlyParentReaps

-----------------------------------------------------------------------------
(***************************************************************************)
(* The assertions at the end of init_main(): when initproc finds no child  *)
(* left to reap, idleproc and initproc are the only processes. That        *)
(* initproc has no child says nothing of its grandchildren; what is needed *)
(* is that every process descends from initproc (Rooted), so that somebody *)
(* alive would have initproc for a parent.                                 *)
(***************************************************************************)
\* Nobody outside idleproc's reach: in every set of processes somebody has a
\* parent outside the set.  A set without such a member is a ring of processes
\* each of whom waits to be reaped by another one.
NoRing ==
  \A S \in SUBSET (Alive \ {Idle}) : S # {} => \E p \in S : parent[p] \notin S

\* idleproc has no child but initproc.
OneChildOfIdle == \A p \in Alive : parent[p] = Idle => p = InitProc

Rooted == NoRing /\ OneChildOfIdle

-----------------------------------------------------------------------------
(* What a step does to the family ties. *)

\* It leaves them alone.
KinKept == Alive' = Alive /\ parent' = parent /\ nrProcess' = nrProcess

\* do_fork(): the current process gets a new child.
KinBorn ==
  \E c \in Procs \ Alive :
    /\ Alive' = Alive \cup {c}
    /\ parent' = [parent EXCEPT ![c] = current]

\* do_exit(): initproc inherits the children of the current process.
KinLeft == Alive' = Alive /\ parent' = HandOver

\* do_wait(): a process is freed.
KinFreed ==
  \E z \in Alive : /\ Alive' = Alive \ {z}
                   /\ parent' = [parent EXCEPT ![z] = NoProc]

KinStep ==
  \/ KinKept
  \/ current \in Alive \ {Idle} /\ KinBorn
  \/ current \in Alive \ {Idle} /\ KinLeft
  \/ KinFreed

\* A step that changes who is allocated nowhere, changes the set of allocated
\* processes not at all.
LEMMA SameAlive ==
  ASSUME \A p \in Procs : state'[p] = "UNUSED" <=> state[p] = "UNUSED"
  PROVE  Alive' = Alive
  BY DEF Alive

\* wakeup_proc() of processes that are allocated allocates nobody (sched.c).
LEMMA WakeAlive ==
  ASSUME NEW STATE st, NEW STATE ws, NEW STATE rq, NEW STATE S, Wakeup(st, ws, rq, S),
         \A p \in Procs : st[p] = "UNUSED" <=> state[p] = "UNUSED",
         \A p \in Procs : p \in S => state[p] # "UNUSED"
  PROVE  Alive' = Alive
<1>1. \A p \in Procs : state'[p] = "UNUSED" <=> state[p] = "UNUSED"
  BY DEF Wakeup, WakeState, Roused
<1> QED BY <1>1, SameAlive

\* The process that runs is allocated.
LEMMA RunnerAlive ==
  ASSUME Inv, ~switching
  PROVE  current \in Alive
  BY Running DEF Alive

\* set_links() of do_fork().
LEMMA ForkKin ==
  ASSUME Inv, ~switching, current # Idle, NEW c \in Users \cup KThreads, DoFork(c)
  PROVE  KinStep
<1>1. c \in Procs /\ state[c] = "UNUSED"
  BY ConstFacts DEF DoFork
<1>2. \A p \in Procs : state'[p] = IF p = c THEN "RUNNABLE" ELSE state[p]
  BY <1>1 DEF DoFork, Wakeup, WakeState, Roused
<1>3. Alive' = Alive \cup {c} /\ c \in Procs \ Alive
  BY <1>1, <1>2 DEF Alive
<1>4. parent' = [parent EXCEPT ![c] = current]
  BY DEF DoFork, SetLinks
<1> QED BY <1>3, <1>4, RunnerAlive DEF KinStep, KinBorn

\* do_exit() allocates and frees nobody, and hands its children over.
LEMMA ExitKin ==
  ASSUME Inv, ~switching, current # Idle, DoExit
  PROVE  KinStep
<1>1. Wakeup([state EXCEPT ![current] = "ZOMBIE"], waitState, runq, ExitWakes)
  BY DEF DoExit
<1>2. current \in Procs /\ state[current] = "RUNNABLE"
  BY Running
<1>3. \A p \in Procs : [state EXCEPT ![current] = "ZOMBIE"][p] = "UNUSED"
                          <=> state[p] = "UNUSED"
  BY <1>2 DEF Inv, TypeOK, SchedTypeOK
<1>4. \A p \in Procs : p \in ExitWakes => state[p] # "UNUSED"
  BY DEF ExitWakes, Inv, WaitStateExact, Waits
<1>5. Alive' = Alive
  BY <1>1, <1>3, <1>4, WakeAlive
<1>6. parent' = HandOver
  BY DEF DoExit
<1> QED BY <1>5, <1>6, RunnerAlive DEF KinStep, KinLeft

\* remove_links() of do_wait().
LEMMA ReapKin ==
  ASSUME Inv, NEW pid, NEW l, NEW b, WaitReaps(pid, l, b)
  PROVE  KinStep
<1>1. PICK z \in Awaited(current, pid) \cap Zombies :
        /\ state' = [state EXCEPT ![z] = "UNUSED"]
        /\ parent' = [parent EXCEPT ![z] = NoProc]
  BY DEF WaitReaps, RemoveLinks
<1>2. z \in Alive
  BY <1>1 DEF Zombies, Alive
<1>3. Alive' = Alive \ {z}
  BY <1>1, <1>2 DEF Alive, Inv, TypeOK, SchedTypeOK
<1> QED BY <1>1, <1>2, <1>3 DEF KinStep, KinFreed

\* Going to sleep.
LEMMA BlockKin ==
  ASSUME Inv, ~switching, NEW ws, NEW l, Block(ws, l),
         parent' = parent, nrProcess' = nrProcess
  PROVE  KinStep
<1>1. state' = [state EXCEPT ![current] = "SLEEPING"]
  BY DEF Block
<1>2. \A p \in Procs : state'[p] = "UNUSED" <=> state[p] = "UNUSED"
  BY <1>1, Running DEF Inv, TypeOK, SchedTypeOK
<1> QED BY <1>2, SameAlive DEF KinStep, KinKept

\* Whatever happens after do_wait() was called.
LEMMA DoWaitKin ==
  ASSUME Inv, ~switching, NEW pid, DoWait(pid)
  PROVE  KinStep
<1>1. CASE WaitFails(pid, "trapexit")
  BY <1>1 DEF WaitFails, schedVars, KinStep, KinKept, Alive
<1>2. CASE WaitReaps(pid, "trapexit", FALSE)
  BY <1>2, ReapKin
<1>3. CASE WaitSleeps(pid)
  BY <1>3, BlockKin DEF WaitSleeps
<1> QED BY <1>1, <1>2, <1>3 DEF DoWait

\* A read of the keyboard.
LEMMA StdinKin ==
  ASSUME Inv, ~switching, StdinRead
  PROVE  KinStep
<1>1. CASE Block("WT_KBD", "kbd") /\ parent' = parent /\ nrProcess' = nrProcess
  BY <1>1, BlockKin
<1>2. CASE UNCHANGED <<state, parent, nrProcess>>
  BY <1>2 DEF KinStep, KinKept, Alive
<1> QED BY <1>1, <1>2 DEF StdinRead, schedVars

\* do_kill() and the timer interrupt wake processes that are allocated.
LEMMA WakersKin ==
  ASSUME Inv, TimerInterrupt \/ \E p \in Procs : SysKill(p)
  PROVE  KinStep
<1>1. CASE TimerInterrupt
  <2>1. PICK key, sliceOver \in BOOLEAN : Tick(key, sliceOver)
    BY <1>1 DEF TimerInterrupt
  <2>2. \A p \in Procs : p \in Expired \cup (IF key THEN kbdq ELSE {})
                           => state[p] # "UNUSED"
    <3>1. \A p \in Procs : pc[p] \in {"sleep", "kbd"} => state[p] # "UNUSED"
      BY DEF Inv, PlaceExact, Placed
    <3>2. \A p \in Procs : timer[p] = 1 => pc[p] = "sleep"
      BY DEF Inv, TimerOwner, Timed
    <3>3. \A p \in Procs : p \in kbdq => pc[p] = "kbd"
      BY DEF Inv, NoMissedKey, Keyed
    <3> QED BY <3>1, <3>2, <3>3 DEF Expired
  <2>3. Wakeup(state, waitState, runq, Expired \cup (IF key THEN kbdq ELSE {}))
    BY <2>1 DEF Tick
  <2>4. Alive' = Alive
    BY <2>2, <2>3, WakeAlive
  <2> QED BY <2>1, <2>4 DEF Tick, KinStep, KinKept
<1>2. ASSUME NEW p \in Procs, SysKill(p)
      PROVE  KinStep
  <2>1. PICK q \in Alive :
          Wakeup(state, waitState, runq,
                 IF waitState[q] \in Interruptible THEN {q} ELSE {})
    BY <1>2 DEF SysKill
  <2>2. \A r \in Procs : r \in (IF waitState[q] \in Interruptible THEN {q} ELSE {})
                           => state[r] # "UNUSED"
    BY <2>1 DEF Alive
  <2>3. Alive' = Alive
    BY <2>1, <2>2, WakeAlive
  <2> QED BY <1>2, <2>3 DEF SysKill, KinStep, KinKept
<1> QED BY <1>1, <1>2

\* Every step changes the family ties in one of the four ways.
LEMMA EveryKinStep == Inv /\ [Next]_vars => KinStep
<1> SUFFICES ASSUME Inv, [Next]_vars PROVE KinStep
  OBVIOUS
<1> USE DEF At
<1>1. CASE UNCHANGED <<state, parent, nrProcess>>
  BY <1>1 DEF KinStep, KinKept, Alive
<1>2. CASE Switch \/ IdleLoop \/ Halted \/ UNCHANGED vars
  BY <1>1, <1>2 DEF Switch, SwitchTo, ScheduleTo, IdleLoop, Halted, vars,
                    schedVars, procVars
<1>3. CASE InitThread
  <2>1. CASE InitForks
    BY <2>1, ForkKin, ConstFacts DEF InitForks
  <2>2. CASE InitReaps
    BY <2>2, <1>1, ReapKin, BlockKin DEF InitReaps, WaitSleeps, schedVars
  <2>3. CASE InitResumes
    BY <2>3, <1>1 DEF InitResumes, schedVars
  <2> QED BY <1>3, <2>1, <2>2, <2>3 DEF InitThread
<1>4. CASE TimerInterrupt
  BY <1>4, WakersKin
<1>5. ASSUME NEW p \in Procs, KernelStep(p)
      PROVE  KinStep
  <2>1. pc[Idle] = "idle"
    BY ConstFacts DEF Inv, PlaceExact, Placed
  <2>2. CASE WaitResumes(p)
    BY <2>1, <2>2, DoWaitKin, ExitKin, ConstFacts DEF WaitResumes
  <2>3. CASE SleepResumes(p)
    BY <2>3, <1>1 DEF SleepResumes, schedVars
  <2>4. CASE KbdResumes(p)
    BY <2>4, <1>1, StdinKin DEF KbdResumes, schedVars
  <2>5. CASE TrapExit(p)
    BY <2>1, <2>5, <1>1, ExitKin DEF TrapExit
  <2> QED BY <1>5, <2>2, <2>3, <2>4, <2>5 DEF KernelStep
<1>6. ASSUME NEW p \in Procs, UserStep(p)
      PROVE  KinStep
  <2>1. CASE SysFork(p)
    BY <2>1, ForkKin, ConstFacts DEF SysFork
  <2>2. CASE SysExit(p)
    BY <2>2, ExitKin, ConstFacts DEF SysExit
  <2>3. CASE SysWait(p)
    BY <2>3, DoWaitKin DEF SysWait
  <2>4. CASE SysKill(p)
    BY <2>4, WakersKin
  <2>5. CASE SysSleep(p)
    BY <2>5, BlockKin DEF SysSleep, DoSleep
  <2>6. CASE SysReadStdin(p)
    BY <2>6, StdinKin DEF SysReadStdin
  <2>7. CASE SysOther(p) \/ SysYield(p)
    BY <2>7, <1>1 DEF SysOther, SysYield, schedVars
  <2> QED BY <1>6, <2>1, <2>2, <2>3, <2>4, <2>5, <2>6, <2>7 DEF UserStep
<1>7. ASSUME NEW p \in Procs, KThreadStep(p)
      PROVE  KinStep
  <2>1. CASE KThreadSleeps(p)
    BY <2>1, BlockKin DEF KThreadSleeps, DoSleep
  <2>2. CASE KThreadExits(p)
    BY <2>2, ExitKin, ConstFacts DEF KThreadExits
  <2> QED BY <1>7, <2>1, <2>2 DEF KThreadStep
<1> QED BY <1>2, <1>3, <1>4, <1>5, <1>6, <1>7 DEF Next

-----------------------------------------------------------------------------
(* The four ways keep everybody's descent from initproc. *)

\* A new process can close no ring: nobody has it for a parent yet.
LEMMA BornRooted ==
  ASSUME Inv, Rooted, current \in Alive \ {Idle}, KinBorn
  PROVE  Rooted'
<1>1. PICK c \in Procs \ Alive : /\ Alive' = Alive \cup {c}
                                 /\ parent' = [parent EXCEPT ![c] = current]
  BY DEF KinBorn
<1>2. \A p \in Procs : parent'[p] = IF p = c THEN current ELSE parent[p]
  BY <1>1 DEF Inv, TypeOK
<1>3. Alive \subseteq Procs /\ c # current
  BY <1>1 DEF Alive
<1>4. \A p \in Alive \ {Idle} : parent[p] # c
  BY <1>1 DEF Inv, ParentLives
<1>5. NoRing'
  <2> SUFFICES ASSUME NEW S \in SUBSET (Alive' \ {Idle}), S # {}
               PROVE  \E p \in S : parent'[p] \notin S
    BY DEF NoRing
  <2>1. CASE S \subseteq {c}
    BY <1>2, <1>3, <2>1
  <2>2. CASE ~(S \subseteq {c})
    <3>1. S \ {c} \in SUBSET (Alive \ {Idle}) /\ S \ {c} # {}
      BY <1>1, <2>2
    <3>2. PICK p \in S \ {c} : parent[p] \notin S \ {c}
      BY <3>1 DEF Rooted, NoRing
    <3>3. parent[p] # c /\ parent'[p] = parent[p]
      BY <1>2, <1>3, <1>4, <3>1, <3>2
    <3> QED BY <3>2, <3>3
  <2> QED BY <2>1, <2>2
<1>6. OneChildOfIdle'
  BY <1>1, <1>2, <1>3 DEF Rooted, OneChildOfIdle
<1> QED BY <1>5, <1>6 DEF Rooted

\* Children that are handed over get initproc for a parent, and the parent of
\* initproc is idleproc.
LEMMA LeftRooted ==
  ASSUME Inv, Rooted, current \in Alive \ {Idle}, KinLeft
  PROVE  Rooted'
<1>1. /\ Alive' = Alive /\ Alive \subseteq Procs
      /\ \A p \in Procs : parent'[p] = IF p \in Kids(current) THEN InitProc
                                       ELSE parent[p]
  BY DEF KinLeft, HandOver, Alive
<1>2. InitProc \in Procs /\ InitProc \notin Kids(current) /\ parent[InitProc] = Idle
  BY ConstFacts DEF Kids, Inv, PlaceExact, Placed
<1>3. NoRing'
  <2> SUFFICES ASSUME NEW S \in SUBSET (Alive \ {Idle}), S # {}
               PROVE  \E p \in S : parent'[p] \notin S
    BY <1>1 DEF NoRing
  <2>1. CASE InitProc \in S
    <3>1. parent'[InitProc] = Idle
      BY <1>1, <1>2
    <3> QED BY <2>1, <3>1
  <2>2. CASE InitProc \notin S
    <3>1. PICK p \in S : parent[p] \notin S
      BY DEF Rooted, NoRing
    <3>2. parent'[p] \in {InitProc, parent[p]}
      BY <1>1, <3>1
    <3> QED BY <2>2, <3>1, <3>2
  <2> QED BY <2>1, <2>2
<1>4. OneChildOfIdle'
  BY <1>1, ConstFacts DEF Rooted, OneChildOfIdle
<1> QED BY <1>3, <1>4 DEF Rooted

\* Freeing a process takes one process away.
LEMMA FreedRooted ==
  ASSUME Inv, Rooted, KinFreed
  PROVE  Rooted'
<1>1. PICK z \in Alive : /\ Alive' = Alive \ {z}
                         /\ parent' = [parent EXCEPT ![z] = NoProc]
  BY DEF KinFreed
<1>2. \A p \in Alive' : p \in Alive /\ parent'[p] = parent[p]
  BY <1>1 DEF Inv, TypeOK, Alive
<1>3. NoRing'
  <2> SUFFICES ASSUME NEW S \in SUBSET (Alive' \ {Idle}), S # {}
               PROVE  \E p \in S : parent'[p] \notin S
    BY DEF NoRing
  <2>1. PICK p \in S : parent[p] \notin S
    BY <1>2 DEF Rooted, NoRing
  <2> QED BY <1>2, <2>1
<1>4. OneChildOfIdle'
  BY <1>2 DEF Rooted, OneChildOfIdle
<1> QED BY <1>3, <1>4 DEF Rooted

\* When nobody is left to reap, nobody is left at all.
LEMMA LastOneLeft ==
  ASSUME Inv, Rooted, Kids(InitProc) = {}
  PROVE  Alive = {Idle, InitProc} /\ nrProcess = 2
<1>1. Idle \in Alive /\ InitProc \in Alive
  <2>1. state[Idle] = "RUNNABLE" /\ pc[InitProc] \in {"boot", "reap", "wait"}
    BY ConstFacts DEF Inv, PlaceExact, Placed
  <2>2. pc[InitProc] = "none" <=> state[InitProc] = "UNUSED"
    BY ConstFacts DEF Inv, PlaceExact, Placed
  <2> QED BY <2>1, <2>2, ConstFacts DEF Alive
<1>2. Alive \ {Idle, InitProc} = {}
  <2> DEFINE others == Alive \ {Idle, InitProc}
  <2> SUFFICES ASSUME others # {} PROVE FALSE
    OBVIOUS
  <2>1. PICK p \in others : parent[p] \notin others
    BY DEF Rooted, NoRing
  <2>2. parent[p] \in Alive
    BY <2>1 DEF Inv, ParentLives
  <2>3. CASE parent[p] = Idle
    BY <2>1, <2>3 DEF Rooted, OneChildOfIdle
  <2>4. CASE parent[p] = InitProc
    BY <2>1, <2>4 DEF Kids
  <2> QED BY <2>1, <2>2, <2>3, <2>4
<1>3. Alive = {Idle} \cup {InitProc}
  BY <1>1, <1>2
<1>4. Cardinality({Idle}) = 1
  BY FS_Singleton
<1>5. Cardinality(Alive) = 2
  BY <1>3, <1>4, ConstFacts, CountAdd
<1> QED BY <1>3, <1>5 DEF Inv, NrProcessExact

-----------------------------------------------------------------------------
\* The kernel stops with "init_main returned" only where initproc finds no
\* child, and once it has stopped nothing changes (proc.c, init_main; panic.c).
LEMMA HowItStops ==
  ASSUME [Next]_vars, halted' = "init_main returned"
  PROVE  \/ halted = "init_main returned" /\ UNCHANGED <<state, nrProcess>>
         \/ Kids(InitProc) = {} /\ UNCHANGED <<state, nrProcess>>
<1> USE DEF At, schedVars, procVars
<1>1. CASE Switch \/ IdleLoop \/ Halted \/ UNCHANGED vars
  BY <1>1 DEF Switch, SwitchTo, IdleLoop, Halted, vars
<1>2. CASE InitForks \/ InitResumes
  BY <1>2 DEF InitForks, InitResumes
<1>3. CASE InitReaps
  BY <1>3 DEF InitReaps, WaitReaps, WaitSleeps
<1>4. CASE TimerInterrupt
  BY <1>4 DEF TimerInterrupt, Tick, InterruptsOn
<1>5. ASSUME NEW p \in Procs, KernelStep(p) \/ UserStep(p) \/ KThreadStep(p)
      PROVE  halted' = halted /\ halted = "no"
  <2>1. DoExit \/ StdinRead => halted' = halted
    BY DEF DoExit, StdinRead
  <2>2. \A pid : DoWait(pid) => halted' = halted
    BY DEF DoWait, WaitFails, WaitReaps, WaitSleeps
  <2>3. \A t : DoSleep(t) => halted' = halted
    BY DEF DoSleep
  <2>4. CASE KernelStep(p)
    BY <2>1, <2>2, <2>4
       DEF KernelStep, WaitResumes, SleepResumes, KbdResumes, TrapExit
  <2>5. CASE UserStep(p)
    BY <2>1, <2>2, <2>3, <2>5
       DEF UserStep, SysFork, SysOther, SysExit, SysWait, SysKill, SysYield,
           SysSleep, SysReadStdin
  <2>6. CASE KThreadStep(p)
    BY <2>1, <2>3, <2>6 DEF KThreadStep, KThreadSleeps, KThreadExits
  <2> QED BY <1>5, <2>4, <2>5, <2>6
<1> QED BY <1>1, <1>2, <1>3, <1>4, <1>5 DEF Next, InitThread

\* The assertions at the end of init_main() hold: when initproc finds no child
\* left, idleproc and initproc are the only processes (proc.c, init_main).
THEOREM ShutdownIsClean == Spec => []CleanShutdown
<1> DEFINE I == Inv /\ Rooted /\ CleanShutdown
<1>1. Init => I
  <2> SUFFICES ASSUME Init PROVE Rooted /\ CleanShutdown
    BY InitInv
  <2>1. /\ Alive = {Idle, InitProc} /\ parent[InitProc] = Idle
        /\ parent[Idle] = NoProc
    BY ConstFacts DEF Init, Alive
  <2>2. NoRing
    BY <2>1, ConstFacts DEF NoRing
  <2>3. OneChildOfIdle
    BY <2>1, ConstFacts DEF OneChildOfIdle
  <2>4. CleanShutdown
    BY DEF Init, CleanShutdown
  <2> QED BY <2>2, <2>3, <2>4 DEF Rooted
<1>2. I /\ [Next]_vars => I'
  <2> SUFFICES ASSUME Inv, Rooted, CleanShutdown, [Next]_vars
               PROVE  I'
    OBVIOUS
  <2>1. Inv'
    BY NextKeepsInv
  <2>2. Rooted'
    <3>1. CASE KinKept
      BY <3>1 DEF KinKept, Rooted, NoRing, OneChildOfIdle
    <3> QED BY <3>1, EveryKinStep, BornRooted, LeftRooted, FreedRooted DEF KinStep
  <2>3. CleanShutdown'
    <3> SUFFICES ASSUME halted' = "init_main returned"
                 PROVE  Alive' = {Idle, InitProc} /\ nrProcess' = 2
      BY DEF CleanShutdown
    <3>1. UNCHANGED <<state, nrProcess>>
      BY HowItStops
    <3>2. Alive' = Alive
      BY <3>1, SameAlive
    <3>3. Alive = {Idle, InitProc} /\ nrProcess = 2
      BY HowItStops, LastOneLeft DEF CleanShutdown
    <3> QED BY <3>1, <3>2, <3>3
  <2> QED BY <2>1, <2>2, <2>3
<1>3. I => CleanShutdown
  OBVIOUS
<1> QED BY <1>1, <1>2, <1>3, PTL DEF Spec

-----------------------------------------------------------------------------
(* Proc implements the contract of do_sleep() that module Timers states: every step of *)
(* the kernel is one of Sleep, Interrupt, Resume and Tick, or changes no sleeper and    *)
(* no timer.                                                                            *)

\* A step that lets nobody in or out of do_sleep(), ends no sleep there and
\* leaves the timers alone is a stutter of Timers.
LEMMA SleepFrame ==
  ASSUME timer' = timer,
         \A p \in Procs :
           /\ pc'[p] = "sleep" <=> pc[p] = "sleep"
           /\ pc[p] = "sleep" => waitState'[p] = waitState[p]
  PROVE  UNCHANGED Sleeping!timersVars
  BY DEF Sleeping!timersVars, SleepPhase

\* wakeup_proc() leaves those alone that it is not called for.
LEMMA WakeupFrame ==
  ASSUME NEW STATE st, NEW STATE rq, NEW STATE S, Wakeup(st, waitState, rq, S)
  PROVE  \A p \in Procs : p \notin S => waitState'[p] = waitState[p]
  BY DEF Wakeup, WakeWait, Roused

\* do_exit() wakes parents in do_wait() only.
LEMMA ExitFrame ==
  ASSUME Inv, current \in Procs, pc[current] # "sleep", DoExit
  PROVE  UNCHANGED Sleeping!timersVars
<1>1. /\ Wakeup([state EXCEPT ![current] = "ZOMBIE"], waitState, runq, ExitWakes)
      /\ pc' = [pc EXCEPT ![current] = "dead"] /\ timer' = timer
  BY DEF DoExit
<1>2. \A p \in Procs : pc[p] = "sleep" => p \notin ExitWakes
  BY DEF ExitWakes, Inv, PlaceExact, Placed
<1>3. \A p \in Procs : pc'[p] = IF p = current THEN "dead" ELSE pc[p]
  BY <1>1 DEF Inv, TypeOK
<1>4. \A p \in Procs : pc[p] = "sleep" => waitState'[p] = waitState[p]
  BY <1>1, <1>2, WakeupFrame
<1> QED BY <1>1, <1>3, <1>4, SleepFrame

\* do_fork() wakes the new process only.
LEMMA ForkFrame ==
  ASSUME Inv, current \in Procs, NEW c \in Procs, NEW l \in Label, l # "sleep",
         pc[current] # "sleep", DoFork(c),
         pc' = [pc EXCEPT ![current] = l, ![c] = "user"], timer' = timer
  PROVE  UNCHANGED Sleeping!timersVars
<1>1. Wakeup(state, waitState, runq, {c}) /\ state[c] = "UNUSED"
  BY DEF DoFork
<1>2. pc[c] = "none"
  BY <1>1 DEF Inv, PlaceExact, Placed
<1>3. \A p \in Procs : pc'[p] = IF p = c THEN "user" ELSE IF p = current THEN l ELSE pc[p]
  BY DEF Inv, TypeOK
<1>4. \A p \in Procs : pc[p] = "sleep" => waitState'[p] = waitState[p]
  BY <1>1, <1>2, WakeupFrame
<1>5. ASSUME NEW p \in Procs
      PROVE  pc'[p] = "sleep" <=> pc[p] = "sleep"
  <2>1. CASE p = c
    <3>1. pc'[p] = "user"
      BY <1>3, <2>1
    <3>2. pc[p] = "none"
      BY <1>2, <2>1
    <3> QED BY <3>1, <3>2
  <2>2. CASE p # c /\ p = current
    BY <1>3, <2>2
  <2>3. CASE p # c /\ p # current
    BY <1>3, <2>3
  <2> QED BY <2>1, <2>2, <2>3
<1> QED BY <1>4, <1>5, SleepFrame

\* do_wait() touches the current process and a zombie.
LEMMA WaitFrame ==
  ASSUME Inv, current \in Procs, pc[current] # "sleep", NEW pid, NEW l, l # "sleep",
         NEW b, WaitFails(pid, l) \/ WaitReaps(pid, l, b) \/ WaitSleeps(pid)
  PROVE  UNCHANGED Sleeping!timersVars
<1> USE DEF Inv, TypeOK, SchedTypeOK
<1>1. CASE WaitFails(pid, l)
  BY <1>1, SleepFrame DEF WaitFails, schedVars
<1>2. CASE WaitReaps(pid, l, b)
  <2>1. PICK z \in Awaited(current, pid) \cap Zombies :
          /\ pc' = [pc EXCEPT ![z] = "none", ![current] = l]
          /\ waitState' = waitState /\ timer' = timer
    BY <1>2 DEF WaitReaps
  <2>2. z \in Procs /\ pc[z] = "dead"
    BY DEF Zombies, PlaceExact, Placed
  <2>3. \A p \in Procs :
          pc'[p] = IF p = current THEN l ELSE IF p = z THEN "none" ELSE pc[p]
    BY <2>1, <2>2
  <2> QED BY <2>1, <2>2, <2>3, SleepFrame
<1>3. CASE WaitSleeps(pid)
  BY <1>3, SleepFrame DEF WaitSleeps, Block
<1> QED BY <1>1, <1>2, <1>3

\* dev_stdin_read() touches the current process only.
LEMMA StdinFrame ==
  ASSUME Inv, current \in Procs, pc[current] # "sleep", StdinRead
  PROVE  UNCHANGED Sleeping!timersVars
  BY SleepFrame DEF StdinRead, Block, schedVars, Inv, TypeOK, SchedTypeOK

\* do_sleep() is Sleep.
LEMMA SleepRefines ==
  ASSUME Inv, current \in Procs, pc[current] = "user", NEW t \in 1 .. MaxSleep,
         DoSleep(t)
  PROVE  Sleeping!Sleep(current)
<1>1. /\ pc' = [pc EXCEPT ![current] = "sleep"]
      /\ waitState' = [waitState EXCEPT ![current] = "WT_TIMER"]
      /\ timer' = [timer EXCEPT ![current] = t]
  BY DEF DoSleep, Block
<1>2. SleepPhase[current] = "awake"
  BY DEF SleepPhase
<1>3. SleepPhase' = [SleepPhase EXCEPT ![current] = "asleep"]
  BY <1>1 DEF SleepPhase, Inv, TypeOK, SchedTypeOK
<1> QED BY <1>1, <1>2, <1>3 DEF Sleeping!Sleep

\* do_kill() of a process inside do_sleep() is Interrupt.
LEMMA KillRefines ==
  ASSUME Inv, NEW p, SysKill(p)
  PROVE  [Sleeping!Next]_(Sleeping!timersVars)
<1>1. PICK q \in KillTargets \cap Alive :
        Wakeup(state, waitState, runq,
               IF waitState[q] \in Interruptible THEN {q} ELSE {})
  BY DEF SysKill
<1>2. /\ current \in Procs /\ pc[current] = "user" /\ timer' = timer
      /\ pc' = [pc EXCEPT ![current] = "trapexit"]
  BY ConstFacts DEF SysKill, At
<1>3. q \in Procs
  BY DEF Alive
<1>4. \A r \in Procs : pc'[r] = "sleep" <=> pc[r] = "sleep"
  BY <1>2 DEF Inv, TypeOK
<1>5. \A r \in Procs : r # q => waitState'[r] = waitState[r]
  BY <1>1, WakeupFrame
<1>6. CASE waitState[q] = "WT_TIMER"
  <2>1. pc[q] = "sleep" /\ state[q] = "SLEEPING"
    BY <1>3, <1>6 DEF Inv, PlaceExact, Placed, WaitStateExact, Waits
  <2>2. waitState'[q] = "NONE"
    BY <1>1, <1>3, <1>6, <2>1 DEF Wakeup, WakeWait, Roused, Interruptible
  <2>3. SleepPhase' = [SleepPhase EXCEPT ![q] = "woken"] /\ SleepPhase[q] = "asleep"
    BY <1>3, <1>4, <1>5, <1>6, <2>1, <2>2 DEF SleepPhase
  <2>4. Sleeping!Interrupt(q)
    BY <1>2, <2>3 DEF Sleeping!Interrupt
  <2> QED BY <1>3, <2>4 DEF Sleeping!Next
<1>7. CASE waitState[q] # "WT_TIMER"
  <2>1. waitState'[q] # "WT_TIMER"
    BY <1>1, <1>3, <1>7 DEF Wakeup, WakeWait, Roused
  <2>2. UNCHANGED Sleeping!timersVars
    BY <1>2, <1>3, <1>4, <1>5, <1>7, <2>1 DEF Sleeping!timersVars, SleepPhase
  <2> QED BY <2>2
<1> QED BY <1>6, <1>7

\* The timer interrupt is Tick: keys wake readers, who are not in do_sleep().
LEMMA TickRefines ==
  ASSUME Inv, NEW key \in BOOLEAN, NEW sliceOver \in BOOLEAN, Tick(key, sliceOver)
  PROVE  Sleeping!Tick
<1> DEFINE S == Expired \cup (IF key THEN kbdq ELSE {})
<1>1. /\ timer' = [p \in Procs |-> IF timer[p] > 0 THEN timer[p] - 1 ELSE 0]
      /\ pc' = [pc EXCEPT ![current] = IF current \in Users THEN "trapexit" ELSE @]
      /\ Wakeup(state, waitState, runq, S)
      /\ InterruptsOn
  BY DEF Tick
<1>2. /\ timer \in [Procs -> Nat] /\ current \in Procs
      /\ pc \in [Procs -> Label] /\ waitState \in [Procs -> WaitState]
  BY DEF Inv, TypeOK, SchedTypeOK
<1>3. current \in Users => pc[current] = "user"
  BY <1>1, ConstFacts DEF InterruptsOn, Kernel
<1>4. \A p \in Procs : pc'[p] = "sleep" <=> pc[p] = "sleep"
  BY <1>1, <1>2, <1>3
<1>5. \A p \in Procs : pc[p] = "sleep" => (p \in S <=> timer[p] = 1)
  BY DEF Expired, Inv, NoMissedKey, Keyed
<1>6. \A p \in Procs : waitState[p] = "WT_TIMER" => state[p] = "SLEEPING"
  BY DEF Inv, WaitStateExact, Waits
<1>7. \A p \in Procs :
        waitState'[p] = IF p \in S /\ state[p] # "RUNNABLE" THEN "NONE" ELSE waitState[p]
  BY <1>1 DEF Wakeup, WakeWait, Roused
<1>8. SleepPhase' = [p \in Procs |-> IF SleepPhase[p] = "asleep" /\ timer[p] = 1
                                     THEN "woken" ELSE SleepPhase[p]]
  <2> SUFFICES ASSUME NEW p \in Procs
               PROVE  SleepPhase'[p] = IF SleepPhase[p] = "asleep" /\ timer[p] = 1
                                       THEN "woken" ELSE SleepPhase[p]
    BY DEF SleepPhase
  <2> HIDE DEF S
  <2>1. CASE pc[p] # "sleep"
    BY <1>4, <2>1 DEF SleepPhase
  <2>2. CASE pc[p] = "sleep"
    BY <1>4, <1>5, <1>6, <1>7, <2>2 DEF SleepPhase
  <2> QED BY <2>1, <2>2
<1> QED BY <1>1, <1>8 DEF Sleeping!Tick

\* Every step of the kernel is a step of Timers or none.
LEMMA StepRefines ==
  ASSUME Inv, [Next]_vars
  PROVE  [Sleeping!Next]_(Sleeping!timersVars)
<1> USE DEF At
<1>1. current \in Procs
  BY DEF Inv, TypeOK, SchedTypeOK
<1>2. CASE UNCHANGED vars
  BY <1>2, SleepFrame DEF vars, schedVars, procVars
<1>3. CASE Switch \/ IdleLoop \/ Halted
  BY <1>3, SleepFrame
     DEF Switch, SwitchTo, ScheduleTo, IdleLoop, Halted, vars, schedVars, procVars
<1>4. CASE InitThread
  <2>1. CASE InitForks
    <3>1. PICK c \in Procs, l \in {"boot", "reap"} :
            DoFork(c) /\ pc' = [pc EXCEPT ![InitProc] = l, ![c] = "user"]
      BY <2>1, ConstFacts DEF InitForks
    <3> QED BY <1>1, <2>1, <3>1, ForkFrame DEF InitForks, Label
  <2>2. CASE InitReaps
    <3>1. CASE WaitReaps(NoProc, "reap", TRUE) \/ WaitSleeps(NoProc)
      BY <1>1, <2>2, <3>1, WaitFrame DEF InitReaps
    <3>2. CASE UNCHANGED <<schedVars, pc, timer>>
      BY <3>2, SleepFrame DEF schedVars
    <3> QED BY <2>2, <3>1, <3>2 DEF InitReaps
  <2>3. CASE InitResumes
    BY <1>1, <2>3, SleepFrame DEF InitResumes, schedVars, Inv, TypeOK
  <2> QED BY <1>4, <2>1, <2>2, <2>3 DEF InitThread
<1>5. CASE TimerInterrupt
  BY <1>5, TickRefines DEF TimerInterrupt, Sleeping!Next
<1>6. ASSUME NEW p \in Procs, KernelStep(p)
      PROVE  [Sleeping!Next]_(Sleeping!timersVars)
  <2>1. CASE WaitResumes(p)
    <3>1. CASE DoExit
      BY <1>1, <2>1, <3>1, ExitFrame DEF WaitResumes
    <3>2. CASE DoWait(target[p])
      BY <1>1, <2>1, <3>2, WaitFrame DEF WaitResumes, DoWait
    <3> QED BY <2>1, <3>1, <3>2 DEF WaitResumes
  <2>2. CASE SleepResumes(p)
    <3>1. SleepPhase[p] = "woken" /\ SleepPhase' = [SleepPhase EXCEPT ![p] = "awake"]
      <4>1. ~switching /\ current = p /\ pc[p] = "sleep" /\ waitState' = waitState
        BY <2>2 DEF SleepResumes, schedVars
      <4>2. \A q \in Procs : pc'[q] = IF q # p THEN pc[q]
                                      ELSE IF p \in Users THEN "trapexit" ELSE "user"
        BY <1>6, <2>2 DEF SleepResumes, Inv, TypeOK
      <4>3. waitState[p] = "NONE"
        BY <4>1, Running
      <4> QED BY <1>6, <4>1, <4>2, <4>3 DEF SleepPhase
    <3>2. Sleeping!Resume(p)
      BY <2>2, <3>1 DEF Sleeping!Resume, SleepResumes, DelTimer
    <3> QED BY <1>6, <3>2 DEF Sleeping!Next
  <2>3. CASE KbdResumes(p)
    <3>1. CASE StdinRead
      BY <1>1, <2>3, <3>1, StdinFrame DEF KbdResumes
    <3>2. CASE /\ pc' = [pc EXCEPT ![p] = "trapexit"]
               /\ UNCHANGED <<waitState, timer>>
      BY <1>6, <2>3, <3>2, SleepFrame DEF KbdResumes, Inv, TypeOK
    <3> QED BY <2>3, <3>1, <3>2 DEF KbdResumes, schedVars
  <2>4. CASE TrapExit(p)
    <3>1. CASE DoExit
      BY <1>1, <2>4, <3>1, ExitFrame DEF TrapExit
    <3>2. CASE /\ pc' = [pc EXCEPT ![p] = "user"]
               /\ UNCHANGED <<waitState, timer>>
      BY <1>6, <2>4, <3>2, SleepFrame DEF TrapExit, Inv, TypeOK
    <3> QED BY <2>4, <3>1, <3>2 DEF TrapExit
  <2> QED BY <1>6, <2>1, <2>2, <2>3, <2>4 DEF KernelStep
<1>7. ASSUME NEW p \in Procs, UserStep(p)
      PROVE  [Sleeping!Next]_(Sleeping!timersVars)
  <2>1. p = current /\ pc[current] = "user"
    BY <1>7 DEF UserStep, SysFork, SysOther, SysExit, SysWait, SysKill,
                SysYield, SysSleep, SysReadStdin
  <2>2. CASE SysFork(p)
    <3>1. PICK c \in Procs :
            DoFork(c) /\ pc' = [pc EXCEPT ![p] = "trapexit", ![c] = "user"]
      BY <2>2, ConstFacts DEF SysFork
    <3>2. timer' = timer
      BY <2>2 DEF SysFork
    <3> QED BY <1>1, <2>1, <3>1, <3>2, ForkFrame DEF Label
  <2>3. CASE SysExit(p)
    BY <1>1, <2>1, <2>3, ExitFrame DEF SysExit
  <2>4. CASE SysWait(p)
    BY <1>1, <2>1, <2>4, WaitFrame DEF SysWait, DoWait
  <2>5. CASE SysKill(p)
    BY <2>5, KillRefines
  <2>6. CASE SysSleep(p)
    BY <1>1, <2>1, <2>6, SleepRefines DEF SysSleep, Sleeping!Next
  <2>7. CASE SysReadStdin(p)
    BY <1>1, <2>1, <2>7, StdinFrame DEF SysReadStdin
  <2>8. CASE SysOther(p) \/ SysYield(p)
    BY <1>7, <2>1, <2>8, SleepFrame DEF SysOther, SysYield, schedVars, Inv, TypeOK
  <2> QED BY <1>7, <2>2, <2>3, <2>4, <2>5, <2>6, <2>7, <2>8 DEF UserStep
<1>8. ASSUME NEW p \in Procs, KThreadStep(p)
      PROVE  [Sleeping!Next]_(Sleeping!timersVars)
  <2>1. p = current /\ pc[current] = "user"
    BY <1>8 DEF KThreadStep, KThreadSleeps, KThreadExits
  <2>2. CASE KThreadSleeps(p)
    BY <1>1, <2>1, <2>2, SleepRefines DEF KThreadSleeps, Sleeping!Next
  <2>3. CASE KThreadExits(p)
    BY <1>1, <2>1, <2>3, ExitFrame DEF KThreadExits
  <2> QED BY <1>8, <2>2, <2>3 DEF KThreadStep
<1> QED BY <1>2, <1>3, <1>4, <1>5, <1>6, <1>7, <1>8 DEF Next

\* The kernel keeps the promise of do_sleep(), for any number of processes: a
\* tick wakes exactly the sleepers whose time is over, and no timer outlives the
\* call that armed it (proc.c, do_sleep; sched.c, run_timer_list).
THEOREM SleepContract == Spec => ImplementsTimers
<1>1. Init => Sleeping!Init
  BY ConstFacts DEF Init, Sleeping!Init, SleepPhase
<1>2. Inv /\ [Next]_vars => [Sleeping!Next]_(Sleeping!timersVars)
  BY StepRefines
<1> QED BY <1>1, <1>2, InvHolds, PTL DEF Spec, Sleeping!Spec, ImplementsTimers
=============================================================================
