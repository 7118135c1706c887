------------------------------ MODULE PhilSem -------------------------------
(***************************************************************************)
(* The philosophers of lab8/kern/sync/check_sync.c that use semaphores.    *)
(*                                                                         *)
(* A step ends at a semaphore operation.  The kernel is not preemptive and *)
(* would switch only where a thread blocks; here threads interleave at     *)
(* every step, so that nothing shown rests on the lack of preemption.  The *)
(* naps of do_sleep() are steps that take an arbitrary finite time.        *)
(***************************************************************************)
EXTENDS Semaphores

CONSTANTS
  N,      \* the number of philosophers
  TIMES   \* how often each eats

Phil == 0 .. N - 1

Left(i)  == (i + N - 1) % N
Right(i) == (i + 1) % N

Mutex == <<"mutex", 0>>
S(i)  == <<"s", i>>

\* The values of the constants (MCSync assumes it).
ConstantsOK ==
  /\ N \in Nat \ {0, 1} /\ TIMES \in Nat
  /\ Threads = Phil
  /\ {Mutex} \cup {S(i) : i \in Phil} \subseteq Sems

VARIABLES
  state,   \* state_sema
  iter,    \* the rounds a philosopher has begun
  pc

vars == <<semVars, state, iter, pc>>

TypeOK ==
  /\ SemTypeOK
  /\ state \in [Phil -> {"thinking", "hungry", "eating"}]
  /\ iter \in [Phil -> 0 .. TIMES]
  /\ pc \in [Phil -> {"think", "take", "hungry", "test", "taken", "await", "eat",
                      "put", "full", "testLeft", "testRight", "leave", "quit"}]

Init ==
  /\ SemInit([s \in Sems |-> IF s = Mutex THEN 1 ELSE 0])
  /\ state = [i \in Phil |-> "thinking"]
  /\ iter = [i \in Phil |-> 0]
  /\ pc = [i \in Phil |-> "think"]

-----------------------------------------------------------------------------
\* i runs and goes on from label l to label m.
Goes(i, l, m) == i \notin asleep /\ pc[i] = l /\ pc' = [pc EXCEPT ![i] = m]

MayEat(j) ==
  /\ state[j] = "hungry"
  /\ state[Left(j)] # "eating" /\ state[Right(j)] # "eating"

\* phi_test_sema(j)
Test(j) ==
  \/ /\ MayEat(j)
     /\ state' = [state EXCEPT ![j] = "eating"]
     /\ Up(S(j))
  \/ ~MayEat(j) /\ UNCHANGED <<state, semVars>>

\* The loop of philosopher_using_semaphore(), and the nap while it thinks.
Think(i) ==
  /\ \/ /\ Goes(i, "think", "take")
        /\ iter[i] < TIMES
        /\ iter' = [iter EXCEPT ![i] = @ + 1]
     \/ Goes(i, "think", "quit") /\ iter[i] = TIMES /\ UNCHANGED iter
  /\ UNCHANGED <<semVars, state>>

\* phi_take_forks_sema(i)
TakeEnter(i) == Goes(i, "take", "hungry") /\ Down(i, Mutex) /\ UNCHANGED <<state, iter>>

TakeHungry(i) ==
  /\ Goes(i, "hungry", "test")
  /\ state' = [state EXCEPT ![i] = "hungry"]
  /\ UNCHANGED <<semVars, iter>>

TakeTest(i)  == Goes(i, "test", "taken") /\ Test(i) /\ UNCHANGED iter
TakeLeave(i) == Goes(i, "taken", "await") /\ Up(Mutex) /\ UNCHANGED <<state, iter>>
TakeAwait(i) == Goes(i, "await", "eat") /\ Down(i, S(i)) /\ UNCHANGED <<state, iter>>

\* The nap while it eats.
Eat(i) == Goes(i, "eat", "put") /\ UNCHANGED <<semVars, state, iter>>

\* phi_put_forks_sema(i)
PutEnter(i) == Goes(i, "put", "full") /\ Down(i, Mutex) /\ UNCHANGED <<state, iter>>

PutFull(i) ==
  /\ Goes(i, "full", "testLeft")
  /\ state' = [state EXCEPT ![i] = "thinking"]
  /\ UNCHANGED <<semVars, iter>>

\* Fault: the right neighbour is not tested when the philosopher is done.
PutTestRightNot(i) ==
  Goes(i, "testRight", "leave") /\ UNCHANGED <<semVars, state, iter>>

PutTestLeft(i)  == Goes(i, "testLeft", "testRight") /\ Test(Left(i)) /\ UNCHANGED iter
PutTestRight(i) == Goes(i, "testRight", "leave") /\ Test(Right(i)) /\ UNCHANGED iter
PutLeave(i)     == Goes(i, "leave", "think") /\ Up(Mutex) /\ UNCHANGED <<state, iter>>

Step(i) ==
  \/ Think(i)
  \/ TakeEnter(i) \/ TakeHungry(i) \/ TakeTest(i) \/ TakeLeave(i) \/ TakeAwait(i)
  \/ Eat(i)
  \/ PutEnter(i) \/ PutFull(i) \/ PutTestLeft(i) \/ PutTestRight(i) \/ PutLeave(i)

Next == \E i \in Phil : Step(i)

\* A thread that is runnable runs on at some time.
Spec == Init /\ [][Next]_vars /\ \A i \in Phil : WF_vars(Step(i))

-----------------------------------------------------------------------------
\* At most one philosopher is between down(&mutex) and up(&mutex), and the
\* mutex is free exactly when nobody is: no unit is lost or made when up()
\* hands one over (sem.c, __up; check_sync.c).
Inside == {i \in Phil \ asleep : pc[i] \in {"hungry", "test", "taken", "full",
                                           "testLeft", "testRight", "leave"}}

MutexExact ==
  /\ \A i, j \in Inside : i = j
  /\ value[Mutex] = IF Inside = {} THEN 1 ELSE 0

\* Neighbours never eat at the same time (check_sync.c, phi_test_sema).
Table == INSTANCE Dining WITH mode <- state

ImplementsDining == Table!Spec

\* Nobody is forgotten: every philosopher eats TIMES times and quits.
AllFinish == <>(\A i \in Phil : pc[i] = "quit")
=============================================================================
