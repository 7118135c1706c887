------------------------------- MODULE MCSync -------------------------------
(***************************************************************************)
(* check_sync() of lab8/kern/sync/check_sync.c for TLC.  It starts the     *)
(* philosophers twice, with semaphores and with the monitor.  The two      *)
(* groups share nothing, so a behaviour here has one of them.              *)
(***************************************************************************)
EXTENDS Integers, Sequences

CONSTANTS N, TIMES

VARIABLES version, value, queue, asleep, nextCount, count, state, iter, ret, pc

Threads == 0 .. N - 1
Conds   == Threads
Sems    == {<<"mutex", 0>>, <<"next", 0>>} \cup ({"s", "cv"} \X Threads)

SemTest == INSTANCE PhilSem
MonTest == INSTANCE PhilMon

ASSUME MCSyncAssumption == SemTest!ConstantsOK /\ MonTest!ConstantsOK

vars == <<version, MonTest!vars>>

Init ==
  \/ version = "condvar" /\ MonTest!Init
  \/ version = "semaphore" /\ SemTest!Init /\ MonTest!Unused

Step(i) ==
  /\ \/ version = "condvar" /\ MonTest!Step(i)
     \/ version = "semaphore" /\ SemTest!Step(i) /\ UNCHANGED <<nextCount, count, ret>>
  /\ UNCHANGED version

Spec == Init /\ [][\E i \in Threads : Step(i)]_vars /\ \A i \in Threads : WF_vars(Step(i))

-----------------------------------------------------------------------------
\* sem.c and monitor.c: no unit of a semaphore is lost or made, who waits sleeps in one
\* queue, and one thread at a time is in the critical section, also across signals
\* (modules Semaphores, PhilSem and PhilMon).
InsideExact ==
  /\ SemTest!WaitersExact
  /\ version = "semaphore" => SemTest!MutexExact
  /\ version = "condvar" => MonTest!OneInside

\* check_sync.c: Hoare's rule for the second group (module PhilMon).
ConditionHolds == version = "condvar" => MonTest!ConditionHolds

\* check_sync.c: neighbours never eat together, in either group (module Dining).
ImplementsDining == MonTest!ImplementsDining

\* check_sync.c: every philosopher eats TIMES times and quits, in either group.
AllFinish == MonTest!AllFinish
=============================================================================
