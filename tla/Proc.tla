-------------------------------- MODULE Proc --------------------------------
(***************************************************************************)
(* The life cycle of processes in the lab8 kernel (kern/process/proc.c),   *)
(* on top of the scheduler core: fork, exit, wait, kill, yield, sleep, a   *)
(* read of the keyboard, the timer interrupt, and the loops of the two     *)
(* kernel threads idleproc and initproc.                                   *)
(*                                                                         *)
(* There is one CPU and the kernel is not preemptive.  A trap from user    *)
(* mode runs with interrupts off until it calls schedule() or returns, so  *)
(* each system call is one action up to its call of schedule(); the part   *)
(* behind that call is an action of its own, enabled when the process owns *)
(* the CPU again.  Kernel threads run with interrupts on: a tick can fall  *)
(* between any two of their steps, also between going to sleep and the     *)
(* call of schedule().                                                     *)
(*                                                                         *)
(* A pid is identified with its proc_struct slot (module PidAlloc shows    *)
(* that live pids are distinct).  The lists of siblings are abstracted to  *)
(* the parent relation, the list of timers to the ticks each timer still   *)
(* has to run.                                                             *)
(***************************************************************************)
EXTENDS Sched, FiniteSets

CONSTANTS
  InitProc,     \* initproc
  Users,        \* slots for processes that run in user mode
  KThreads,     \* kernel threads started by check_sync(); {} as lab8 is built
  KillTargets,  \* the pids user programs pass to kill()
  NoProc,       \* NULL; also the pid 0 of do_wait(), "any child"
  MAX_PROCESS,  \* bound of nr_process in do_fork()
  TICK_NUM,     \* a tick in TICK_NUM makes the current process reschedule
  STDIN_BUFSIZE,\* capacity of stdin_buffer
  MaxSleep      \* longest sleep a program asks for (bound of the model)

ASSUME ProcAssumption ==
  /\ Procs = {Idle, InitProc} \cup Users \cup KThreads
  /\ Idle # InitProc
  /\ {Idle, InitProc} \cap (Users \cup KThreads) = {}
  /\ Users \cap KThreads = {}
  /\ KillTargets \subseteq Procs \ {Idle}
  /\ IsFiniteSet(Procs)
  /\ NoProc \notin Procs
  /\ MAX_PROCESS \in Nat
  /\ TICK_NUM \in Nat \ {0}
  /\ STDIN_BUFSIZE \in Nat
  /\ MaxSleep \in Nat

VARIABLES
  parent,     \* proc->parent
  exiting,    \* proc->flags & PF_EXITING
  pc,         \* where the process continues when it owns the CPU
  target,     \* the pid argument of the do_wait() in progress
  timer,      \* ticks left of the timer of do_sleep(); 0 is no timer
  kbdq,       \* processes linked in stdin's wait queue
  wakeFlags,  \* wait->wakeup_flags of the wait_t on the process's stack
  chars,      \* unread characters, p_wpos - p_rpos
  ticks,      \* the tick counter, modulo TICK_NUM
  nrProcess,  \* nr_process
  halted      \* why the kernel stopped in panic()

procVars == <<parent, exiting, pc, target, timer, kbdq, wakeFlags, chars,
              ticks, nrProcess, halted>>
vars == <<schedVars, procVars>>

Label == {"none", "idle", "boot", "reap", "user", "trapexit",
          "wait", "sleep", "kbd", "dead"}

\* Threads that stay in kernel mode and so run with interrupts on.
Kernel == {Idle, InitProc} \cup KThreads

Alive    == {p \in Procs : state[p] # "UNUSED"}
Kids(p)  == {c \in Alive : parent[c] = p}
Zombies  == {p \in Procs : state[p] = "ZOMBIE"}

TypeOK ==
  /\ SchedTypeOK
  /\ parent \in [Procs -> Procs \cup {NoProc}]
  /\ exiting \in [Procs -> BOOLEAN]
  /\ pc \in [Procs -> Label]
  /\ target \in [Procs -> Procs \cup {NoProc}]
  /\ timer \in [Procs -> Nat]
  /\ kbdq \in SUBSET Procs
  /\ wakeFlags \in [Procs -> {"WT_INTERRUPTED", "WT_KBD"}]
  /\ chars \in 0 .. STDIN_BUFSIZE
  /\ ticks \in 0 .. TICK_NUM - 1
  /\ nrProcess \in Int
  /\ halted \in {"no", "init_main returned", "initproc exit"}

\* The state proc_init() leaves behind: idleproc runs and wants to
\* reschedule, initproc waits in the run pool for its first turn.
Init ==
  /\ state = [p \in Procs |-> IF p \in {Idle, InitProc} THEN "RUNNABLE" ELSE "UNUSED"]
  /\ waitState = [p \in Procs |-> "NONE"]
  /\ needResched = [p \in Procs |-> p = Idle]
  /\ runq = [p \in Procs |-> IF p = InitProc THEN 1 ELSE 0]
  /\ current = Idle
  /\ switching = FALSE
  /\ parent = [p \in Procs |-> IF p = InitProc THEN Idle ELSE NoProc]
  /\ exiting = [p \in Procs |-> FALSE]
  /\ pc = [p \in Procs |-> IF p = Idle THEN "idle"
                           ELSE IF p = InitProc THEN "boot" ELSE "none"]
  /\ target = [p \in Procs |-> NoProc]
  /\ timer = [p \in Procs |-> 0]
  /\ kbdq = {}
  /\ wakeFlags = [p \in Procs |-> "WT_INTERRUPTED"]
  /\ chars = 0
  /\ ticks = 0
  /\ nrProcess = 2
  /\ halted = "no"

\* p is the running process and its next instruction is at label l.
At(p, l) == halted = "no" /\ current = p /\ ~switching /\ pc[p] = l

-----------------------------------------------------------------------------
(* The parts of proc.c several handlers share. *)

SetLinks(c) ==
  /\ parent' = [parent EXCEPT ![c] = current]
  /\ nrProcess' = nrProcess + 1

RemoveLinks(z) ==
  /\ parent' = [parent EXCEPT ![z] = NoProc]
  /\ nrProcess' = nrProcess - 1

\* do_fork() once every allocation succeeded, by the current process.
DoFork(c) ==
  /\ state[c] = "UNUSED"
  /\ nrProcess < MAX_PROCESS
  /\ Wakeup(state, waitState, runq, {c})
  /\ SetLinks(c)

\* Fault: do_exit() wakes nobody.
ExitWakesNobody == {}

\* Whom do_exit() wakes: its parent, and initproc when it inherits a zombie.
ExitWakes ==
  {q \in Procs : /\ waitState[q] = "WT_CHILD"
                 /\ \/ q = parent[current]
                    \/ q = InitProc /\ Kids(current) \cap Zombies # {}}

\* Fault: do_exit() hands over only the children that are zombies.
HandOverZombies ==
  [c \in Procs |-> IF c \in Kids(current) \cap Zombies THEN InitProc ELSE parent[c]]

\* The loop of do_exit() that gives its children to initproc.
HandOver ==
  [c \in Procs |-> IF c \in Kids(current) THEN InitProc ELSE parent[c]]

\* do_exit() by the current process, up to its call of schedule().
DoExit ==
  /\ Wakeup([state EXCEPT ![current] = "ZOMBIE"], waitState, runq, ExitWakes)
  /\ parent' = HandOver
  /\ pc' = [pc EXCEPT ![current] = "dead"]
  /\ switching' = TRUE
  /\ UNCHANGED <<needResched, current, exiting, target, timer, kbdq,
                 wakeFlags, chars, ticks, nrProcess, halted>>

\* Fault: do_wait(pid) does not check that the process is a child.
AwaitedAny(p, pid) == IF pid = NoProc THEN Kids(p) ELSE Alive \cap {pid}

\* The children do_wait(pid) of process p looks at.
Awaited(p, pid) == IF pid = NoProc THEN Kids(p) ELSE Kids(p) \cap {pid}

\* The current process gives up the CPU in wait state ws and continues at l.
Block(ws, l) ==
  /\ state' = [state EXCEPT ![current] = "SLEEPING"]
  /\ waitState' = [waitState EXCEPT ![current] = ws]
  /\ pc' = [pc EXCEPT ![current] = l]
  /\ switching' = TRUE
  /\ UNCHANGED <<needResched, runq, current>>

\* do_wait(pid) of the current process has no such child: -E_BAD_PROC.
WaitFails(pid, l) ==
  /\ Awaited(current, pid) = {}
  /\ pc' = [pc EXCEPT ![current] = l]
  /\ target' = [target EXCEPT ![current] = NoProc]
  /\ UNCHANGED <<schedVars, parent, exiting, timer, kbdq, wakeFlags, chars,
                 ticks, nrProcess, halted>>

\* do_wait(pid) finds a zombie z: unhash it, unlink it and free its slot.
WaitReaps(pid, l, resched) ==
  \E z \in Awaited(current, pid) \cap Zombies :
    /\ state' = [state EXCEPT ![z] = "UNUSED"]
    /\ RemoveLinks(z)
    /\ exiting' = [exiting EXCEPT ![z] = FALSE]
    /\ pc' = [pc EXCEPT ![z] = "none", ![current] = l]
    /\ target' = [target EXCEPT ![current] = NoProc]
    /\ switching' = resched
    /\ UNCHANGED <<waitState, runq, needResched, current, timer, kbdq,
                   wakeFlags, chars, ticks, halted>>

\* do_wait(pid) has children to wait for, none of them a zombie.
WaitSleeps(pid) ==
  /\ Awaited(current, pid) # {}
  /\ Awaited(current, pid) \cap Zombies = {}
  /\ Block("WT_CHILD", "wait")
  /\ target' = [target EXCEPT ![current] = pid]
  /\ UNCHANGED <<parent, exiting, timer, kbdq, wakeFlags, chars, ticks,
                 nrProcess, halted>>

DoWait(pid) == WaitFails(pid, "trapexit") \/ WaitReaps(pid, "trapexit", FALSE)
               \/ WaitSleeps(pid)

\* do_sleep(t) up to its call of schedule().
DoSleep(t) ==
  /\ Block("WT_TIMER", "sleep")
  /\ timer' = [timer EXCEPT ![current] = t]
  /\ UNCHANGED <<parent, exiting, target, kbdq, wakeFlags, chars, ticks,
                 nrProcess, halted>>

\* Fault: a reader whose sleep was interrupted stays in the wait queue.
WaitCurrentKept(p) == UNCHANGED kbdq

WaitCurrentDel(p) == kbdq' = kbdq \ {p}

\* The loop of dev_stdin_read() from try_again on: the unread characters are
\* taken until the reader has enough, or it sleeps for the next one.
StdinRead ==
  \/ \E n \in 1 .. chars :
       /\ chars' = chars - n
       /\ WaitCurrentDel(current)
       /\ pc' = [pc EXCEPT ![current] = "trapexit"]
       /\ UNCHANGED <<schedVars, parent, exiting, target, timer, wakeFlags,
                      ticks, nrProcess, halted>>
  \/ /\ chars' = 0
     /\ kbdq' = kbdq \cup {current}
     /\ wakeFlags' = [wakeFlags EXCEPT ![current] = "WT_INTERRUPTED"]
     /\ Block("WT_KBD", "kbd")
     /\ UNCHANGED <<parent, exiting, target, timer, ticks, nrProcess, halted>>

-----------------------------------------------------------------------------
(* System calls of the current process p, entered from user mode. *)

SysFork(p) ==
  /\ p \in Users /\ At(p, "user")
  /\ \E c \in Users :
       /\ DoFork(c)
       /\ pc' = [pc EXCEPT ![p] = "trapexit", ![c] = "user"]
  /\ UNCHANGED <<needResched, current, switching, exiting, target, timer,
                 kbdq, wakeFlags, chars, ticks, halted>>

\* A system call that leaves the process state alone: do_fork() that fails,
\* do_kill() of no process or of one that is marked already, do_sleep(0),
\* getpid, gettime, putc, pgdir and those on files.
SysOther(p) ==
  /\ p \in Users /\ At(p, "user")
  /\ pc' = [pc EXCEPT ![p] = "trapexit"]
  /\ UNCHANGED <<schedVars, parent, exiting, target, timer, kbdq, wakeFlags,
                 chars, ticks, nrProcess, halted>>

SysExit(p) == p \in Users /\ At(p, "user") /\ DoExit

SysWait(p) ==
  /\ p \in Users /\ At(p, "user")
  /\ \E pid \in Users \cup {NoProc} : DoWait(pid)

\* do_kill(q): mark q, and end its sleep if that may be interrupted.
SysKill(p) ==
  /\ p \in Users /\ At(p, "user")
  /\ \E q \in KillTargets \cap Alive :
       /\ ~exiting[q]
       /\ exiting' = [exiting EXCEPT ![q] = TRUE]
       /\ Wakeup(state, waitState, runq,
                 IF waitState[q] \in Interruptible THEN {q} ELSE {})
  /\ pc' = [pc EXCEPT ![p] = "trapexit"]
  /\ UNCHANGED <<needResched, current, switching, parent, target, timer,
                 kbdq, wakeFlags, chars, ticks, nrProcess, halted>>

SysYield(p) ==
  /\ p \in Users /\ At(p, "user")
  /\ needResched' = [needResched EXCEPT ![p] = TRUE]
  /\ pc' = [pc EXCEPT ![p] = "trapexit"]
  /\ UNCHANGED <<state, waitState, runq, current, switching, parent, exiting,
                 target, timer, kbdq, wakeFlags, chars, ticks, nrProcess,
                 halted>>

SysSleep(p) ==
  /\ p \in Users /\ At(p, "user")
  /\ \E t \in 1 .. MaxSleep : DoSleep(t)

SysReadStdin(p) == p \in Users /\ At(p, "user") /\ StdinRead

-----------------------------------------------------------------------------
(* What a process does when schedule() has returned, and the way out of a  *)
(* trap. *)

\* do_wait() after schedule(): give up when killed, else look again.
WaitResumes(p) ==
  /\ p \in Users /\ At(p, "wait")
  /\ IF exiting[p] THEN DoExit ELSE DoWait(target[p])

\* Fault: do_sleep() leaves its timer in the list.
DelTimerNot(p) == UNCHANGED timer

DelTimer(p) == timer' = [timer EXCEPT ![p] = 0]

\* do_sleep() after schedule(): del_timer().
SleepResumes(p) ==
  /\ At(p, "sleep")
  /\ DelTimer(p)
  /\ pc' = [pc EXCEPT ![p] = IF p \in Users THEN "trapexit" ELSE "user"]
  /\ UNCHANGED <<schedVars, parent, exiting, target, kbdq, wakeFlags, chars,
                 ticks, nrProcess, halted>>

\* dev_stdin_read() after schedule(): wait_current_del(), then try again when
\* it was a key that ended the sleep.
KbdResumes(p) ==
  /\ At(p, "kbd")
  /\ IF wakeFlags[p] = "WT_KBD"
     THEN StdinRead
     ELSE /\ WaitCurrentDel(p)
          /\ pc' = [pc EXCEPT ![p] = "trapexit"]
          /\ UNCHANGED <<schedVars, parent, exiting, target, timer, wakeFlags,
                         chars, ticks, nrProcess, halted>>

\* The end of trap() for a trap from user mode.
TrapExit(p) ==
  /\ At(p, "trapexit")
  /\ IF exiting[p]
     THEN DoExit
     ELSE /\ pc' = [pc EXCEPT ![p] = "user"]
          /\ switching' = needResched[p]
          /\ UNCHANGED <<state, waitState, needResched, runq, current, parent,
                         exiting, target, timer, kbdq, wakeFlags, chars, ticks,
                         nrProcess, halted>>

-----------------------------------------------------------------------------
(* Kernel threads. *)

\* cpu_idle()
IdleLoop ==
  /\ At(Idle, "idle") /\ needResched[Idle]
  /\ switching' = TRUE
  /\ UNCHANGED <<state, waitState, needResched, runq, current, procVars>>

\* init_main() starts user_main, and check_sync() its kernel threads.
InitForks ==
  /\ At(InitProc, "boot")
  /\ \E c \in Users \cup KThreads :
       /\ c \in Users <=> Kids(InitProc) \cap Users = {}
       /\ DoFork(c)
       /\ \E l \in {"boot", "reap"} :
            /\ l = "reap" <=> KThreads \subseteq Alive \cup {c}
            /\ pc' = [pc EXCEPT ![InitProc] = l, ![c] = "user"]
  /\ UNCHANGED <<needResched, current, switching, exiting, target, timer,
                 kbdq, wakeFlags, chars, ticks, halted>>

\* One round of the loop  while (do_wait(0, NULL) == 0) schedule();  of
\* init_main(), and the end of initproc when it has no child left.
InitReaps ==
  /\ At(InitProc, "reap")
  /\ \/ WaitReaps(NoProc, "reap", TRUE)
     \/ WaitSleeps(NoProc)
     \/ /\ Kids(InitProc) = {}
        /\ halted' = "init_main returned"
        /\ UNCHANGED <<schedVars, parent, exiting, pc, target, timer, kbdq,
                       wakeFlags, chars, ticks, nrProcess>>

\* do_wait() of initproc after schedule(): a killed initproc exits, which is
\* a panic.
InitResumes ==
  /\ At(InitProc, "wait")
  /\ IF exiting[InitProc]
     THEN /\ halted' = "initproc exit"
          /\ UNCHANGED <<schedVars, parent, exiting, pc, target, timer, kbdq,
                         wakeFlags, chars, ticks, nrProcess>>
     ELSE /\ pc' = [pc EXCEPT ![InitProc] = "reap"]
          /\ UNCHANGED <<schedVars, parent, exiting, target, timer, kbdq,
                         wakeFlags, chars, ticks, nrProcess, halted>>

\* The body of a philosopher of check_sync(): do_sleep() now and then.
KThreadSleeps(p) ==
  /\ p \in KThreads /\ At(p, "user")
  /\ \E t \in 1 .. MaxSleep : DoSleep(t)

\* kernel_thread_entry: do_exit() when the body returns.
KThreadExits(p) == p \in KThreads /\ At(p, "user") /\ DoExit

-----------------------------------------------------------------------------
(* The timer interrupt: interrupt_handler(), run_timer_list() and, when a  *)
(* key was pressed, dev_stdin_write(). *)

\* Fault: run_timer_list() looks at the first timer only.
ExpiredFirst == {p \in Procs : timer[p] = 1 /\ p = CHOOSE q \in Procs : timer[q] = 1}

Expired == {p \in Procs : timer[p] = 1}

InterruptsOn ==
  /\ halted = "no"
  /\ \/ current \in Kernel
     \/ current \in Users /\ ~switching /\ pc[current] = "user"

\* Fault: dev_stdin_write() advances p_wpos when the buffer is full.
CharsOverflow(key) == IF key THEN chars + 1 ELSE chars

\* The unread characters after dev_stdin_write(); a full buffer loses one.
CharsAfter(key) == IF key /\ chars < STDIN_BUFSIZE THEN chars + 1 ELSE chars

Tick(key, sliceOver) ==
  /\ InterruptsOn
  /\ ticks' = (ticks + 1) % TICK_NUM
  /\ needResched' = [needResched EXCEPT ![current] =
       @ \/ ticks' = 0 \/ sliceOver \/ current = Idle]
  /\ timer' = [p \in Procs |-> IF timer[p] > 0 THEN timer[p] - 1 ELSE 0]
  /\ chars' = CharsAfter(key)
  /\ wakeFlags' = [p \in Procs |-> IF key /\ p \in kbdq
                                   THEN "WT_KBD" ELSE wakeFlags[p]]
  /\ kbdq' = IF key THEN {} ELSE kbdq
  /\ Wakeup(state, waitState, runq,
            Expired \cup (IF key THEN kbdq ELSE {}))
  /\ pc' = [pc EXCEPT ![current] = IF current \in Users THEN "trapexit" ELSE @]
  /\ UNCHANGED <<current, switching, parent, exiting, target, nrProcess,
                 halted>>

TimerInterrupt == \E key, sliceOver \in BOOLEAN : Tick(key, sliceOver)

-----------------------------------------------------------------------------
SwitchTo(next) == halted = "no" /\ ScheduleTo(next) /\ UNCHANGED procVars

Switch == \E next \in Procs : SwitchTo(next)

\* What the current process does with interrupts off or in kernel mode; it
\* needs no decision of a user program.
KernelStep(p) ==
  \/ WaitResumes(p) \/ SleepResumes(p) \/ KbdResumes(p) \/ TrapExit(p)

InitThread == InitForks \/ InitReaps \/ InitResumes

UserStep(p) ==
  \/ SysFork(p) \/ SysOther(p) \/ SysExit(p) \/ SysWait(p) \/ SysKill(p)
  \/ SysYield(p) \/ SysSleep(p) \/ SysReadStdin(p)

KThreadStep(p) == KThreadSleeps(p) \/ KThreadExits(p)

\* panic() stops the machine.
Halted == halted # "no" /\ UNCHANGED vars

Next ==
  \/ Switch \/ IdleLoop \/ InitThread \/ TimerInterrupt \/ Halted
  \/ \E p \in Procs : KernelStep(p) \/ UserStep(p) \/ KThreadStep(p)

Spec == Init /\ [][Next]_vars

(***************************************************************************)
(* Kernel code that can go on goes on.  A tick is pending until interrupts *)
(* are enabled again, so one that is enabled again and again is taken.     *)
(* The scheduling class passes over nobody for ever: every turn moves the  *)
(* stride of its owner ahead of a waiter's (module Stride says when).      *)
(* Nothing is assumed of user programs or of the keyboard.                 *)
(***************************************************************************)
Fairness ==
  /\ WF_vars(IdleLoop) /\ WF_vars(InitThread) /\ WF_vars(Switch)
  /\ SF_vars(TimerInterrupt)
  /\ \A p \in Procs : WF_vars(KernelStep(p)) /\ SF_vars(SwitchTo(p))

FairSpec == Spec /\ Fairness

-----------------------------------------------------------------------------
(* Safety. *)

\* The run pool holds exactly the processes that can run and do not, each
\* once: wakeup_proc() loses no wakeup that comes before the sleeper called
\* schedule(), and nothing enters the heap twice (sched.c, wakeup_proc).
Pooled(p) ==
  runq[p] = IF state[p] = "RUNNABLE" /\ p \notin {current, Idle} THEN 1 ELSE 0

RunPoolExact == \A p \in Procs : Pooled(p)

\* Whoever owns the CPU and is not on its way into schedule() is runnable: a
\* sleeping or dead process never executes (sched.c, schedule).
RunningIsRunnable == ~switching => state[current] = "RUNNABLE"

\* A process has a wait state exactly while it sleeps, which the assertion
\* of do_fork() and the tests of do_exit() and do_kill() rely on.
Waits(p) == waitState[p] # "NONE" <=> state[p] = "SLEEPING"

WaitStateExact == \A p \in Procs : Waits(p)

\* Where each kind of process can be, and that its state and wait state agree
\* with the place: only a process inside do_wait(), do_sleep() or
\* dev_stdin_read() sleeps, only do_exit() makes a zombie, and idleproc and
\* initproc never leave their loops.
Placed(p) ==
  /\ p = Idle => pc[p] = "idle" /\ state[p] = "RUNNABLE" /\ parent[p] = NoProc
  /\ p = InitProc => pc[p] \in {"boot", "reap", "wait"} /\ parent[p] = Idle
  /\ p \in KThreads => pc[p] \in {"none", "user", "sleep", "dead"}
  /\ p \in Users => pc[p] \in {"none", "user", "trapexit", "wait", "sleep",
                               "kbd", "dead"}
  /\ pc[p] = "none" <=> state[p] = "UNUSED"
  /\ pc[p] = "dead" <=> state[p] = "ZOMBIE"
  /\ waitState[p] = "WT_CHILD" => pc[p] = "wait"
  /\ waitState[p] = "WT_TIMER" => pc[p] = "sleep"
  /\ waitState[p] = "WT_KBD" => pc[p] = "kbd"
  /\ parent[p] # p

PlaceExact == \A p \in Procs : Placed(p)

\* A timer in the list belongs to a process that called do_sleep() and has not
\* come back, and a process that sleeps for its timer has one: run_timer_list()
\* wakes no zombie and no freed slot, its assertion on wait_state holds, and
\* nobody sleeps for ever (sched.c, run_timer_list; proc.c, do_sleep).
Timed(p) ==
  /\ timer[p] > 0 => pc[p] = "sleep" /\ waitState[p] \in {"NONE", "WT_TIMER"}
  /\ waitState[p] = "WT_TIMER" => timer[p] > 0

TimerOwner == \A p \in Procs : Timed(p)

\* A process linked in stdin's wait queue is inside dev_stdin_read(), and it
\* sleeps only while there is nothing to read (dev_stdin.c).
Keyed(p) ==
  /\ p \in kbdq => pc[p] = "kbd" /\ state[p] \in {"SLEEPING", "RUNNABLE"}
  /\ waitState[p] = "WT_KBD" => p \in kbdq /\ chars = 0

NoMissedKey == \A p \in Procs : Keyed(p)

\* No child's exit is missed: while a process sleeps in do_wait(), none of the
\* children it waits for is a zombie, also when children were handed over to
\* initproc by an exiting parent (proc.c, do_exit against do_wait).
NoMissedExit ==
  \A p \in Procs :
    waitState[p] = "WT_CHILD" => Awaited(p, target[p]) \cap Zombies = {}

\* proc->parent never dangles: every process but idleproc has a parent that is
\* allocated and not dead, which will still reap it (proc.c, the loop of
\* do_exit that hands the children of a dying process over to initproc).
ParentLives ==
  \A p \in Alive \ {Idle} :
    parent[p] \in Alive /\ state[parent[p]] # "ZOMBIE"

\* nr_process counts the allocated slots (proc.c, set_links, remove_links).
NrProcessExact == nrProcess = Cardinality(Alive)

\* The assertions at the end of init_main(): when initproc finds no child,
\* only idleproc and initproc are left.
CleanShutdown ==
  halted = "init_main returned" => Alive = {Idle, InitProc} /\ nrProcess = 2

\* Only the parent frees a zombie, and what it frees has left the CPU for good
\* (proc.c, do_wait: put_kstack of a stack that is no longer in use).
OnlyParentReaps ==
  [][\A p \in Procs :
       state[p] # "UNUSED" /\ state'[p] = "UNUSED" =>
         state[p] = "ZOMBIE" /\ current = parent[p] /\ runq[p] = 0]_vars

\* Sleeping keeps the promise of module Timers: a tick wakes exactly those whose
\* time is over, whether they are interrupted or not (proc.c, do_sleep).
SleepPhase ==
  [p \in Procs |-> IF pc[p] # "sleep" THEN "awake"
                   ELSE IF waitState[p] = "WT_TIMER" THEN "asleep" ELSE "woken"]

Sleeping == INSTANCE Timers WITH Sleepers <- Procs, phase <- SleepPhase, left <- timer

ImplementsTimers == Sleeping!Spec

-----------------------------------------------------------------------------
(* Liveness, under FairSpec. *)

\* Every sleep ends: the timer runs down and its owner gets the CPU again,
\* whatever the other processes do (proc.c, do_sleep; sched.c, run_timer_list).
SleepEnds == \A p \in Users : pc[p] = "sleep" ~> pc[p] # "sleep"

\* An orphan never stays a zombie: initproc finds it, also when it was handed
\* over as a zombie and initproc had gone to sleep before (proc.c, do_exit,
\* init_main).
OrphansAreReaped ==
  \A p \in Users :
    state[p] = "ZOMBIE" /\ parent[p] = InitProc ~> state[p] = "UNUSED"

-----------------------------------------------------------------------------
(* Statements of the source that the code does not keep. *)

\* proc.c:58: SYS_kill marks the process, which then goes do_wait --> do_exit.
KillEnds == \A p \in Users : exiting[p] ~> state[p] \in {"ZOMBIE", "UNUSED"}
=============================================================================
