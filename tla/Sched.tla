------------------------------- MODULE Sched -------------------------------
(***************************************************************************)
(* The scheduler core of lab8/kern/schedule/sched.c: the state of every    *)
(* proc_struct slot, the run pool, the process that owns the single CPU,   *)
(* wakeup_proc() and schedule().                                           *)
(*                                                                         *)
(* The scheduling class is abstracted: stride_pick_next() returns some     *)
(* member of the run pool (module Stride says which one).  The run pool    *)
(* is a bag, [Procs -> Nat], so that enqueueing a process twice - which    *)
(* would corrupt the skew heap - is visible.                               *)
(***************************************************************************)
EXTENDS Integers

CONSTANTS
  Procs,   \* the proc_struct slots
  Idle     \* idleproc, the thread that runs when the pool is empty

ASSUME IdleAssumption == Idle \in Procs

VARIABLES
  state,        \* proc->state; "UNUSED" is a slot that is not allocated
  waitState,    \* proc->wait_state; "NONE" is 0
  needResched,  \* proc->need_resched
  runq,         \* how many times a process is in rq->lab6_run_pool
  current,      \* the process that owns the CPU
  switching     \* current has called schedule(), which has not started yet

schedVars == <<state, waitState, needResched, runq, current, switching>>

ProcState == {"UNUSED", "SLEEPING", "RUNNABLE", "ZOMBIE"}

\* The wait states do_kill() may interrupt: those with the WT_INTERRUPTED bit.
Interruptible == {"WT_CHILD", "WT_TIMER", "WT_KBD"}
WaitState     == Interruptible \cup {"WT_KSEM", "NONE"}

SchedTypeOK ==
  /\ state \in [Procs -> ProcState]
  /\ waitState \in [Procs -> WaitState]
  /\ needResched \in [Procs -> BOOLEAN]
  /\ runq \in [Procs -> Nat]
  /\ current \in Procs
  /\ switching \in BOOLEAN

-----------------------------------------------------------------------------
(***************************************************************************)
(* wakeup_proc(), applied to every process of a set S.  st, ws and rq are  *)
(* the states, wait states and run pool it starts from, so that a handler  *)
(* that changes them first can compose the two.  A process that is already *)
(* RUNNABLE is left alone; the current process is marked RUNNABLE but not  *)
(* enqueued, because schedule() will do that.                              *)
(*                                                                         *)
(* A definition whose comment starts with "Fault:" is a plausible slip in  *)
(* the code.  No specification uses it; replacing the definition after it  *)
(* shows that the properties notice.                                       *)
(***************************************************************************)
Roused(st, S) == {p \in S : st[p] # "RUNNABLE"}

WakeState(st, S) ==
  [p \in Procs |-> IF p \in Roused(st, S) THEN "RUNNABLE" ELSE st[p]]

WakeWait(ws, st, S) ==
  [p \in Procs |-> IF p \in Roused(st, S) THEN "NONE" ELSE ws[p]]

\* Fault: wakeup_proc() enqueues the current process, too.
WakePoolCurrent(rq, st, S) ==
  [p \in Procs |-> IF p \in Roused(st, S) \ {Idle} THEN rq[p] + 1 ELSE rq[p]]

WakePool(rq, st, S) ==
  [p \in Procs |-> IF p \in Roused(st, S) \ {current, Idle}
                   THEN rq[p] + 1 ELSE rq[p]]

Wakeup(st, ws, rq, S) ==
  /\ state' = WakeState(st, S)
  /\ waitState' = WakeWait(ws, st, S)
  /\ runq' = WakePool(rq, st, S)

\* The run pool once schedule() has put a still runnable current back.
PoolWithCurrent ==
  IF state[current] = "RUNNABLE" /\ current # Idle
  THEN [runq EXCEPT ![current] = @ + 1]
  ELSE runq

Ready == {p \in Procs : PoolWithCurrent[p] > 0}

\* schedule(): one critical section with interrupts off, ending in proc_run().
ScheduleTo(next) ==
  /\ switching
  /\ \/ /\ next \in Ready
        /\ runq' = [PoolWithCurrent EXCEPT ![next] = @ - 1]
     \/ /\ Ready = {} /\ next = Idle
        /\ runq' = PoolWithCurrent
  /\ current' = next
  /\ needResched' = [needResched EXCEPT ![current] = FALSE]
  /\ switching' = FALSE
  /\ UNCHANGED <<state, waitState>>
=============================================================================
