------------------------------- MODULE Timers -------------------------------
(***************************************************************************)
(* What the kernel promises of do_sleep(): a process that goes to sleep    *)
(* for t ticks is woken by the t-th tick, unless it is interrupted first,  *)
(* and by no tick after it has come back.  The timer list of sched.c       *)
(* (TimerList) and the life cycle of processes (Proc) both implement it.   *)
(***************************************************************************)
EXTENDS Integers

CONSTANTS
  Sleepers,   \* the processes that may call do_sleep()
  MaxSleep    \* longest sleep a program asks for

VARIABLES
  phase,   \* where a process is with respect to do_sleep()
  left     \* ticks until its timer expires; 0 is no timer

timersVars == <<phase, left>>

Phase == {"awake", "asleep", "woken"}

Init ==
  /\ phase = [p \in Sleepers |-> "awake"]
  /\ left = [p \in Sleepers |-> 0]

Sleep(p) ==
  /\ phase[p] = "awake"
  /\ \E t \in 1 .. MaxSleep : left' = [left EXCEPT ![p] = t]
  /\ phase' = [phase EXCEPT ![p] = "asleep"]

\* The sleep ends early; the timer keeps running.
Interrupt(p) ==
  /\ phase[p] = "asleep"
  /\ phase' = [phase EXCEPT ![p] = "woken"]
  /\ UNCHANGED left

Resume(p) ==
  /\ phase[p] = "woken"
  /\ phase' = [phase EXCEPT ![p] = "awake"]
  /\ left' = [left EXCEPT ![p] = 0]

\* A tick wakes exactly those sleepers whose timer expires with it.
Tick ==
  /\ left' = [p \in Sleepers |-> IF left[p] > 0 THEN left[p] - 1 ELSE 0]
  /\ phase' = [p \in Sleepers |-> IF phase[p] = "asleep" /\ left[p] = 1
                                  THEN "woken" ELSE phase[p]]

Next == Tick \/ \E p \in Sleepers : Sleep(p) \/ Interrupt(p) \/ Resume(p)

Spec == Init /\ [][Next]_timersVars
=============================================================================
