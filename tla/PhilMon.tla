------------------------------ MODULE PhilMon -------------------------------
(***************************************************************************)
(* The philosophers of lab8/kern/sync/check_sync.c that use the monitor.   *)
(* Steps and interleaving are those of PhilSem.                            *)
(***************************************************************************)
EXTENDS Monitor, FiniteSets

CONSTANTS
  N,      \* the number of philosophers
  TIMES   \* how often each eats

Phil == 0 .. N - 1

Left(i)  == (i + N - 1) % N
Right(i) == (i + 1) % N

\* The values of the constants (MCSync assumes it).
ConstantsOK ==
  /\ N \in Nat \ {0, 1} /\ TIMES \in Nat
  /\ Threads = Phil /\ Conds = Phil
  /\ {Mutex, NextSem} \cup {Cv(c) : c \in Phil} \subseteq Sems

VARIABLES
  state,   \* state_condvar
  iter,    \* the rounds a philosopher has begun
  ret,     \* where phi_test_condvar() returns to
  pc

vars == <<monitorVars, state, iter, ret, pc>>

\* What a group that does not use the monitor leaves as it is.
Unused ==
  /\ nextCount = 0
  /\ count = [c \in Conds |-> 0]
  /\ ret = [i \in Phil |-> "none"]

Init ==
  /\ MonitorInit
  /\ state = [i \in Phil |-> "thinking"]
  /\ iter = [i \in Phil |-> 0]
  /\ ret = [i \in Phil |-> "none"]
  /\ pc = [i \in Phil |-> "think"]

-----------------------------------------------------------------------------
\* i runs and goes on from label l to label m.
Goes(i, l, m) == i \notin asleep /\ pc[i] = l /\ pc' = [pc EXCEPT ![i] = m]

\* Fault: phi_test_condvar() looks at one neighbour only.
MayEatLeft(j) == state[j] = "hungry" /\ state[Left(j)] # "eating"

MayEat(j) ==
  /\ state[j] = "hungry"
  /\ state[Left(j)] # "eating" /\ state[Right(j)] # "eating"

\* phi_test_condvar(j) called by i at label l, which returns to label m.
Test(i, j, l, m) ==
  /\ \/ /\ ~MayEat(j)
        /\ Goes(i, l, m)
        /\ UNCHANGED <<monitorVars, state, ret>>
     \/ /\ MayEat(j)
        /\ state' = [state EXCEPT ![j] = "eating"]
        /\ \/ count[j] = 0 /\ Goes(i, l, m) /\ UNCHANGED <<monitorVars, ret>>
           \/ Signal(j) /\ Goes(i, l, "signalled") /\ ret' = [ret EXCEPT ![i] = m]
  /\ UNCHANGED iter

\* The part of cond_signal() behind its up().
Signalled(i) ==
  \/ Goes(i, "signalled", "resumed") /\ SignalWaits(i) /\ UNCHANGED <<state, iter, ret>>
  \/ /\ Goes(i, "resumed", ret[i])
     /\ SignalEnds
     /\ ret' = [ret EXCEPT ![i] = "none"]
     /\ UNCHANGED <<state, iter>>

\* The loop of philosopher_using_condvar(), and the nap while it thinks.
Think(i) ==
  /\ \/ /\ Goes(i, "think", "take")
        /\ iter[i] < TIMES
        /\ iter' = [iter EXCEPT ![i] = @ + 1]
     \/ Goes(i, "think", "quit") /\ iter[i] = TIMES /\ UNCHANGED iter
  /\ UNCHANGED <<monitorVars, state, ret>>

\* phi_take_forks_condvar(i)
TakeEnter(i) == Goes(i, "take", "hungry") /\ Enter(i) /\ UNCHANGED <<state, iter, ret>>

TakeHungry(i) ==
  /\ Goes(i, "hungry", "test")
  /\ state' = [state EXCEPT ![i] = "hungry"]
  /\ UNCHANGED <<monitorVars, iter, ret>>

TakeTest(i) == Test(i, i, "test", "decide")

TakeDecide(i) ==
  /\ \/ state[i] = "hungry" /\ Goes(i, "decide", "wait") /\ Wait(i)
     \/ state[i] # "hungry" /\ Goes(i, "decide", "taken") /\ UNCHANGED monitorVars
  /\ UNCHANGED <<state, iter, ret>>

TakeWaits(i) ==
  /\ \/ Goes(i, "wait", "waited") /\ WaitBlocks(i, i)
     \/ Goes(i, "waited", "taken") /\ WaitEnds(i)
  /\ UNCHANGED <<state, iter, ret>>

TakeLeave(i) == Goes(i, "taken", "eat") /\ Leave /\ UNCHANGED <<state, iter, ret>>

\* The nap while it eats.
Eat(i) == Goes(i, "eat", "put") /\ UNCHANGED <<monitorVars, state, iter, ret>>

\* phi_put_forks_condvar(i)
PutEnter(i) == Goes(i, "put", "full") /\ Enter(i) /\ UNCHANGED <<state, iter, ret>>

PutFull(i) ==
  /\ Goes(i, "full", "testLeft")
  /\ state' = [state EXCEPT ![i] = "thinking"]
  /\ UNCHANGED <<monitorVars, iter, ret>>

\* Fault: the right neighbour is not tested when the philosopher is done.
PutTestRightNot(i) ==
  Goes(i, "testRight", "leave") /\ UNCHANGED <<monitorVars, state, iter, ret>>

PutTestLeft(i)  == Test(i, Left(i), "testLeft", "testRight")
PutTestRight(i) == Test(i, Right(i), "testRight", "leave")
PutLeave(i)     == Goes(i, "leave", "think") /\ Leave /\ UNCHANGED <<state, iter, ret>>

Step(i) ==
  \/ Think(i)
  \/ TakeEnter(i) \/ TakeHungry(i) \/ TakeTest(i) \/ TakeDecide(i) \/ TakeWaits(i)
  \/ TakeLeave(i) \/ Signalled(i) \/ Eat(i)
  \/ PutEnter(i) \/ PutFull(i) \/ PutTestLeft(i) \/ PutTestRight(i) \/ PutLeave(i)

Next == \E i \in Phil : Step(i)

\* A thread that is runnable runs on at some time.
Spec == Init /\ [][Next]_vars /\ \A i \in Phil : WF_vars(Step(i))

-----------------------------------------------------------------------------
\* Who runs inside the monitor: not who sleeps there, and not who has handed it
\* on and is about to sleep.
Active ==
  {i \in Phil \ asleep :
     pc[i] \in {"hungry", "test", "decide", "resumed", "waited", "taken",
                "full", "testLeft", "testRight", "leave"}}

\* Units under way to a thread that has not reached its down() yet.
Granted == {s \in Sems : value[s] = 1}

\* There is one right to be in the monitor.  It is with the thread that runs
\* there, free, or granted to a thread that is about to take it: cond_signal()
\* and cond_wait() never let two threads in and never lose it (monitor.c).
OneInside ==
  /\ \A s \in Sems : value[s] \in {0, 1}
  /\ \A i, j \in Active : i = j
  /\ \A s, r \in Granted : s = r
  /\ Active = {} <=> Granted # {}

\* Hoare's rule: who returns from cond_wait() finds the condition it waited for
\* and need not test it again (check_sync.c, phi_take_forks_condvar).
ConditionHolds ==
  \A i \in Phil : pc[i] \in {"waited", "taken"} /\ i \notin asleep => state[i] = "eating"

\* Neighbours never eat at the same time (check_sync.c, phi_test_condvar).
Table == INSTANCE Dining WITH mode <- state

ImplementsDining == Table!Spec

\* Nobody is forgotten: every philosopher eats TIMES times and quits.
AllFinish == <>(\A i \in Phil : pc[i] = "quit")
=============================================================================
