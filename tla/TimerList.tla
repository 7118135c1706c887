----------------------------- MODULE TimerList ------------------------------
(***************************************************************************)
(* The list of timers of lab8/kern/schedule/sched.c.  A timer_t lies on    *)
(* the stack of the process that sleeps in do_sleep().  The list is sorted *)
(* by deadline and each entry stores the ticks it expires after the entry  *)
(* before it, so that a tick touches the head only.                        *)
(*                                                                         *)
(* add_timer(), del_timer() and run_timer_list() run with interrupts off   *)
(* and are one action each, together with the change of the process state  *)
(* their callers make in the same critical section.                        *)
(***************************************************************************)
EXTENDS Integers, Sequences, SequencesExt, FiniteSetsExt

CONSTANTS
  Sleepers,   \* the processes that may call do_sleep()
  MaxSleep    \* longest sleep a program asks for (bound of the model)

ConstantsOK == MaxSleep \in Nat

VARIABLES
  timerList,  \* timer_list: a sequence of [proc, expires]
  phase       \* "asleep": WT_TIMER; "woken": runnable, not yet back in do_sleep()

vars == <<timerList, phase>>

TypeOK ==
  /\ timerList \in Seq([proc : Sleepers, expires : 0 .. MaxSleep])
  /\ phase \in [Sleepers -> {"awake", "asleep", "woken"}]

Init ==
  /\ timerList = <<>>
  /\ phase = [p \in Sleepers |-> "awake"]

-----------------------------------------------------------------------------
\* The tick, counted from now, with which the i-th timer expires.
Deadline(list, i) ==
  LET sum[k \in 0 .. Len(list)] == IF k = 0 THEN 0 ELSE sum[k - 1] + list[k].expires
  IN  sum[i]

\* The place of p's timer, 0 if it is not linked.
Index(list, p) == SelectInSeq(list, LAMBDA timer : timer.proc = p)

\* list with d ticks added to the i-th timer, if there is one.
Shift(list, i, d) ==
  IF i \in DOMAIN list THEN [list EXCEPT ![i].expires = @ + d] ELSE list

\* Fault: add_timer() does not shorten the timer it comes before.
AddTimerUnadjusted(list, p, t) ==
  LET before == {i \in DOMAIN list : Deadline(list, i) <= t}
      k      == Cardinality(before)
  IN  InsertAt(list, k + 1, [proc |-> p, expires |-> t - Deadline(list, k)])

\* add_timer(): behind all timers that expire no later; the next one counts
\* from the new one.
AddTimer(list, p, t) ==
  LET before == {i \in DOMAIN list : Deadline(list, i) <= t}
      k      == Cardinality(before)
      rest   == t - Deadline(list, k)
  IN  InsertAt(Shift(list, k + 1, -rest), k + 1, [proc |-> p, expires |-> rest])

\* del_timer(): the next timer inherits the ticks of the one that goes.
DelTimer(list, p) ==
  LET i == Index(list, p)
  IN  IF i = 0 THEN list ELSE RemoveAt(Shift(list, i + 1, list[i].expires), i)

\* The number of timers that expire with the next tick: the head, when it has
\* one tick left, and those behind it that expire together with it.
Expired(list) == Cardinality({i \in DOMAIN list : Deadline(list, i) = 1})

-----------------------------------------------------------------------------
\* do_sleep() up to schedule().
Sleep(p) ==
  /\ phase[p] = "awake"
  /\ phase' = [phase EXCEPT ![p] = "asleep"]
  /\ \E t \in 1 .. MaxSleep : timerList' = AddTimer(timerList, p, t)

\* do_kill() wakes a process that sleeps in do_sleep().
Interrupt(p) ==
  /\ phase[p] = "asleep"
  /\ phase' = [phase EXCEPT ![p] = "woken"]
  /\ UNCHANGED timerList

\* do_sleep() behind schedule().
Resume(p) ==
  /\ phase[p] = "woken"
  /\ phase' = [phase EXCEPT ![p] = "awake"]
  /\ timerList' = DelTimer(timerList, p)

\* run_timer_list()
Tick ==
  /\ timerList # <<>>
  /\ LET n     == Expired(timerList)
         fired == {timerList[i].proc : i \in 1 .. n}
     IN  /\ timerList' = Shift(SubSeq(timerList, n + 1, Len(timerList)), 1,
                               IF n = 0 THEN -1 ELSE 0)
         /\ phase' = [p \in Sleepers |-> IF p \in fired THEN "woken" ELSE phase[p]]

Next == Tick \/ \E p \in Sleepers : Sleep(p) \/ Interrupt(p) \/ Resume(p)

Spec == Init /\ [][Next]_vars

-----------------------------------------------------------------------------
\* A timer in the list lies on the stack of a process that is still inside
\* do_sleep(), no process has two, and one that sleeps has one: the wakeup by
\* run_timer_list() reaches the right process and add_timer() never meets a
\* timer that is linked already (proc.c, do_sleep).
Linked == {timerList[i].proc : i \in DOMAIN timerList}

LinkedExact ==
  /\ Len(timerList) = Cardinality(Linked)
  /\ timerList # <<>> => timerList[1].expires > 0
  /\ \A p \in Sleepers : /\ p \in Linked => phase[p] # "awake"
                         /\ phase[p] = "asleep" => p \in Linked

\* The delta encoding is right: every sleeper is woken by its own tick, also
\* when timers before its own are deleted or added (module Timers).
Left == [p \in Sleepers |-> Deadline(timerList, Index(timerList, p))]

Abstract == INSTANCE Timers WITH left <- Left

ImplementsTimers == Abstract!Spec
=============================================================================
