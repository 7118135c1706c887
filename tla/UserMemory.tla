----------------------------- MODULE UserMemory -----------------------------
(***************************************************************************)
(* What the address spaces promise to processes: memory of their own.  A   *)
(* process reads what it wrote last; fork() gives the child what the       *)
(* parent has; a program starts with what its file holds; and nothing that *)
(* another process does changes what a process reads.                      *)
(***************************************************************************)
EXTENDS Integers

CONSTANTS
  Procs,    \* the processes
  Pages,    \* the pages of user memory
  Values,   \* what a page may hold
  Images    \* the pages of each program's file, with what they hold

VARIABLE memory   \* memory[p]: the pages p has, with what they hold

Init == memory = [p \in Procs |-> <<>>]

\* The steps relate what memory was, old, to what it becomes, new.
OthersKeep(p, old, new) == \A q \in Procs \ {p} : new[q] = old[q]

\* p writes to a page it has.
Write(p, old, new) ==
  \E a \in DOMAIN old[p], v \in Values : new = [old EXCEPT ![p][a] = v]

\* A page appears, holding anything.
Appear(p, old, new) ==
  /\ OthersKeep(p, old, new)
  /\ \E a \in Pages \ DOMAIN old[p] : DOMAIN new[p] = DOMAIN old[p] \cup {a}
  /\ \A a \in DOMAIN old[p] : new[p][a] = old[p][a]

\* q starts as a copy of p.
Fork(p, q, old, new) ==
  old[q] = <<>> /\ new = [old EXCEPT ![q] = old[p]]

\* p runs another program: the pages of the file, and a stack with anything on it.
Exec(p, old, new) ==
  /\ OthersKeep(p, old, new)
  /\ \E image \in Images :
       /\ DOMAIN image \subseteq DOMAIN new[p]
       /\ \A a \in DOMAIN image : new[p][a] = image[a]

\* p is gone.
Exit(p, old, new) == new = [old EXCEPT ![p] = <<>>]

\* What the kernel does: it writes to nothing that is there.
Kernel(old, new) ==
  \E p \in Procs :
    \/ Appear(p, old, new) \/ Exec(p, old, new) \/ Exit(p, old, new)
    \/ \E q \in Procs \ {p} : Fork(p, q, old, new)

\* Both are bound once: memory may stand for an expression that is long to compute.
KernelKeeps == \E old \in {memory}, new \in {memory'} : new = old \/ Kernel(old, new)

Next ==
  \E old \in {memory}, new \in {memory'} :
    Kernel(old, new) \/ \E p \in Procs : Write(p, old, new)

Spec == Init /\ [][Next]_memory
=============================================================================
