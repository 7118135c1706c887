----------------------------- MODULE Semaphores -----------------------------
(***************************************************************************)
(* The kernel semaphores of lab8/kern/sync/sem.c, on the wait queues of    *)
(* wait.c.  up() hands the unit to the first waiter without going through  *)
(* the value, so a woken thread has what it waited for.  A thread waits in *)
(* the state WT_KSEM, which kill() does not interrupt: only up() wakes it. *)
(***************************************************************************)
EXTENDS Integers, Sequences

CONSTANTS
  Sems,      \* the semaphores
  Threads    \* the kernel threads that use them

VARIABLES
  value,    \* sem->value
  queue,    \* the threads in sem->wait_queue, first come first
  asleep    \* the threads in wait state WT_KSEM

semVars == <<value, queue, asleep>>

SemTypeOK ==
  /\ value \in [Sems -> Nat]
  /\ queue \in [Sems -> Seq(Threads)]
  /\ asleep \in SUBSET Threads

\* sem_init() of every semaphore.
SemInit(initial) ==
  /\ value = initial
  /\ queue = [s \in Sems |-> <<>>]
  /\ asleep = {}

\* down(s) by thread t: it has its unit, or it sleeps and has it when it wakes.
Down(t, s) ==
  \/ /\ value[s] > 0
     /\ value' = [value EXCEPT ![s] = @ - 1]
     /\ UNCHANGED <<queue, asleep>>
  \/ /\ value[s] = 0
     /\ queue' = [queue EXCEPT ![s] = Append(@, t)]
     /\ asleep' = asleep \cup {t}
     /\ UNCHANGED value

\* Fault: up() wakes the first waiter and adds to the value as well.
UpTwice(s) ==
  /\ value' = [value EXCEPT ![s] = @ + 1]
  /\ queue' = [queue EXCEPT ![s] = IF @ = <<>> THEN @ ELSE Tail(@)]
  /\ asleep' = IF queue[s] = <<>> THEN asleep ELSE asleep \ {Head(queue[s])}

\* up(s)
Up(s) ==
  \/ /\ queue[s] = <<>>
     /\ value' = [value EXCEPT ![s] = @ + 1]
     /\ UNCHANGED <<queue, asleep>>
  \/ /\ queue[s] # <<>>
     /\ queue' = [queue EXCEPT ![s] = Tail(@)]
     /\ asleep' = asleep \ {Head(queue[s])}
     /\ UNCHANGED value

-----------------------------------------------------------------------------
\* Who is in a wait queue sleeps, and the other way round, in one queue and
\* once; and nobody waits for a semaphore that has units (sem.c).
WaitersExact ==
  /\ asleep = UNION {{queue[s][i] : i \in DOMAIN queue[s]} : s \in Sems}
  /\ \A s, r \in Sems : \A i \in DOMAIN queue[s], j \in DOMAIN queue[r] :
       queue[s][i] = queue[r][j] => s = r /\ i = j
  /\ \A s \in Sems : value[s] > 0 => queue[s] = <<>>
=============================================================================
