------------------------------ MODULE PidAlloc ------------------------------
(***************************************************************************)
(* get_pid() of lab8/kern/process/proc.c: the search for a pid that no     *)
(* process has.  Between calls get_pid() keeps last_pid and next_safe,     *)
(* with the promise that no live pid lies strictly between them, so that   *)
(* most calls need not look at proc_list.                                  *)
(*                                                                         *)
(* The search runs with interrupts off, yet it is modelled one list entry  *)
(* at a time: that is where its restarts and its wrap-around are.  The     *)
(* entries come in any order, since nothing depends on the order of        *)
(* proc_list.  idleproc (pid 0) is not in that list.                       *)
(***************************************************************************)
EXTENDS Integers, FiniteSets

CONSTANTS MAX_PID, MAX_PROCESS

\* The static_assert of get_pid().
ASSUME PidAssumption ==
  /\ MAX_PROCESS \in Nat
  /\ MAX_PID \in Nat
  /\ MAX_PID > MAX_PROCESS /\ MAX_PID > 1

VARIABLES
  live,      \* the pids of the processes in proc_list
  lastPid,   \* last_pid
  nextSafe,  \* next_safe
  pc,        \* "rest", or "scan" and "return" inside get_pid()
  seen       \* the entries of proc_list the scan has passed

vars == <<live, lastPid, nextSafe, pc, seen>>

Pid == 1 .. MAX_PID - 1

TypeOK ==
  /\ live \in SUBSET Pid
  /\ lastPid \in 1 .. MAX_PID
  /\ nextSafe \in 1 .. MAX_PID
  /\ pc \in {"rest", "scan", "return"}
  /\ seen \in SUBSET live

Init ==
  /\ live = {}
  /\ lastPid = MAX_PID
  /\ nextSafe = MAX_PID
  /\ pc = "rest"
  /\ seen = {}

-----------------------------------------------------------------------------
\* Fault: every new scan starts over with pid 1.
RescanFromOne(pid) ==
  /\ lastPid' = 1
  /\ nextSafe' = MAX_PID
  /\ pc' = "scan"
  /\ seen' = {}

\* repeat: scan the list from its head for a pid that is not taken.
Rescan(pid) ==
  /\ lastPid' = pid
  /\ nextSafe' = MAX_PID
  /\ pc' = "scan"
  /\ seen' = {}

\* do_fork() tests nr_process, which counts idleproc too, and calls get_pid().
Enter ==
  /\ pc = "rest"
  /\ Cardinality(live) + 1 < MAX_PROCESS
  /\ \/ lastPid + 1 >= MAX_PID /\ Rescan(1)
     \/ lastPid + 1 < MAX_PID /\ lastPid + 1 >= nextSafe /\ Rescan(lastPid + 1)
     \/ /\ lastPid + 1 < MAX_PID /\ lastPid + 1 < nextSafe
        /\ lastPid' = lastPid + 1
        /\ pc' = "return"
        /\ UNCHANGED <<nextSafe, seen>>
  /\ UNCHANGED live

\* The candidate is taken: try the next one, and start again when that one is
\* not known to be free of the entries passed.
Taken(q) ==
  /\ q = lastPid
  /\ \/ /\ q + 1 < nextSafe
        /\ lastPid' = q + 1
        /\ seen' = seen \cup {q}
        /\ UNCHANGED <<nextSafe, pc>>
     \/ q + 1 >= nextSafe /\ q + 1 < MAX_PID /\ Rescan(q + 1)
     \/ q + 1 >= nextSafe /\ q + 1 >= MAX_PID /\ Rescan(1)

\* Fault: a pid above the candidate does not bound the free range.
OtherUnbounded(q) ==
  /\ q # lastPid
  /\ seen' = seen \cup {q}
  /\ UNCHANGED <<nextSafe, lastPid, pc>>

\* A pid above the candidate bounds the range that is free.
Other(q) ==
  /\ q # lastPid
  /\ nextSafe' = IF q > lastPid /\ nextSafe > q THEN q ELSE nextSafe
  /\ seen' = seen \cup {q}
  /\ UNCHANGED <<lastPid, pc>>

Scan ==
  /\ pc = "scan"
  /\ \E q \in live \ seen : Taken(q) \/ Other(q)
  /\ UNCHANGED live

ScanEnds ==
  /\ pc = "scan" /\ seen = live
  /\ pc' = "return"
  /\ UNCHANGED <<live, lastPid, nextSafe, seen>>

\* do_fork(): proc->pid = get_pid() and set_links().
Fork ==
  /\ pc = "return"
  /\ live' = live \cup {lastPid}
  /\ pc' = "rest"
  /\ seen' = {}
  /\ UNCHANGED <<lastPid, nextSafe>>

\* do_wait(): remove_links() of a zombie.
Reap ==
  /\ pc = "rest"
  /\ \E q \in live : live' = live \ {q}
  /\ UNCHANGED <<lastPid, nextSafe, pc, seen>>

GetPid == Scan \/ ScanEnds \/ Fork

Next == Enter \/ GetPid \/ Reap

\* get_pid() runs with interrupts off and so to its end.
Spec == Init /\ [][Next]_vars /\ WF_vars(GetPid)

-----------------------------------------------------------------------------
\* get_pid() returns a pid that no process has, although it often does not look
\* at the list (proc.c, get_pid).
FreshPid == pc = "return" => lastPid \notin live /\ lastPid \in Pid

\* What the two static variables promise between calls, and what the scan has
\* established for the entries it has passed: none of them is the candidate or
\* lies in the range up to next_safe (proc.c, get_pid).
Clear(S) == \A q \in S : q <= lastPid \/ q >= nextSafe

WindowClear ==
  /\ pc \in {"rest", "return"} => Clear(live)
  /\ pc = "scan" => lastPid < MAX_PID /\ Clear(seen) /\ lastPid \notin seen
  /\ pc = "scan" => lastPid < nextSafe

\* get_pid() returns: the candidate reaches a free pid before it goes round for
\* ever (proc.c, static_assert(MAX_PID > MAX_PROCESS)).
GetPidReturns == pc = "scan" ~> pc = "return"
=============================================================================
