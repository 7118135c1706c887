------------------------------ MODULE Monitor -------------------------------
(***************************************************************************)
(* The monitor of lab8/kern/sync/monitor.c with Hoare's rule: cond_signal  *)
(* hands the monitor to the thread it wakes and takes it back, by way of   *)
(* the semaphore next, before anyone outside can enter.                    *)
(***************************************************************************)
EXTENDS Semaphores

CONSTANT Conds   \* the condition variables

VARIABLES
  nextCount,   \* mtp->next_count: signallers that wait to go on
  count        \* cvp->count: threads that wait for a condition

monitorVars == <<semVars, nextCount, count>>

Mutex    == <<"mutex", 0>>
NextSem  == <<"next", 0>>
Cv(c)    == <<"cv", c>>

\* monitor_init()
MonitorInit ==
  /\ SemInit([s \in Sems |-> IF s = Mutex THEN 1 ELSE 0])
  /\ nextCount = 0
  /\ count = [c \in Conds |-> 0]

Enter(t) == Down(t, Mutex) /\ UNCHANGED <<nextCount, count>>

\* Give the monitor up: a signaller goes first.
Release == IF nextCount > 0 THEN Up(NextSem) ELSE Up(Mutex)

Leave == Release /\ UNCHANGED <<nextCount, count>>

\* cond_signal() of a condition somebody waits for, up to down(next) and behind
\* it; a condition nobody waits for is not signalled.
Signal(c) ==
  /\ count[c] > 0
  /\ nextCount' = nextCount + 1
  /\ Up(Cv(c))
  /\ UNCHANGED count

SignalWaits(t) == Down(t, NextSem) /\ UNCHANGED <<nextCount, count>>

SignalEnds == nextCount' = nextCount - 1 /\ UNCHANGED <<semVars, count>>

\* cond_wait(): up to down(cv.sem), that operation, and behind it.
Wait(c) ==
  /\ count' = [count EXCEPT ![c] = @ + 1]
  /\ Release
  /\ UNCHANGED nextCount

\* Fault: cond_wait() does not wait.
WaitBlocksNot(t, c) == UNCHANGED monitorVars

WaitBlocks(t, c) == Down(t, Cv(c)) /\ UNCHANGED <<nextCount, count>>

WaitEnds(c) ==
  /\ count' = [count EXCEPT ![c] = @ - 1]
  /\ UNCHANGED <<semVars, nextCount>>
=============================================================================
