----------------------------- MODULE ProcLinks -----------------------------
(***************************************************************************)
(* The links between a process and its children, lab8/kern/process/proc.c: *)
(* cptr is the youngest child, optr the next older and yptr the next       *)
(* younger one with the same parent.  Module Proc has the relation parent  *)
(* instead, which these links are to represent.                            *)
(***************************************************************************)
EXTENDS Integers, FiniteSets, FiniteSetsExt

CONSTANT MaxProcs   \* the processes there may be, initproc among them

ConstantsOK == MaxProcs \in Nat \ {0}

NULL     == 0
InitProc == 1
Procs    == 1 .. MaxProcs

VARIABLES
  parent,           \* proc->parent; NULL for initproc and what does not exist
  cptr, optr, yptr,
  zombies           \* those that have exited and were not reaped

vars == <<parent, cptr, optr, yptr, zombies>>

Exists(p) == p = InitProc \/ parent[p] # NULL
Living    == {p \in Procs : Exists(p)} \ zombies

Init ==
  /\ parent = [p \in Procs |-> NULL] /\ zombies = {}
  /\ cptr = parent /\ optr = parent /\ yptr = parent

Links == [parent |-> parent, cptr |-> cptr, optr |-> optr, yptr |-> yptr]

Settle(l) == parent' = l.parent /\ cptr' = l.cptr /\ optr' = l.optr /\ yptr' = l.yptr

-----------------------------------------------------------------------------
\* proc becomes the youngest child of p: set_links() of a child that do_fork() has
\* made, and the body of the loop in do_exit() for one that is handed over.
Adopted(l, p, proc) ==
  LET eldest == l.cptr[p]
      Put    == [l EXCEPT !.parent[proc] = p, !.yptr[proc] = NULL,
                          !.optr[proc] = eldest, !.cptr[p] = proc]
  IN  IF eldest = NULL THEN Put ELSE [Put EXCEPT !.yptr[eldest] = proc]

\* Fault: the next older child keeps its link to the one that is gone.
UnlinkedYoung(l, proc) ==
  IF l.yptr[proc] # NULL THEN [l EXCEPT !.optr[l.yptr[proc]] = l.optr[proc]]
  ELSE [l EXCEPT !.cptr[l.parent[proc]] = l.optr[proc]]

\* remove_links()
Unlinked(l, proc) ==
  LET Old(m) == IF m.optr[proc] = NULL THEN m
                ELSE [m EXCEPT !.yptr[m.optr[proc]] = m.yptr[proc]]
      Young(m) == IF m.yptr[proc] # NULL THEN [m EXCEPT !.optr[m.yptr[proc]] = m.optr[proc]]
                  ELSE [m EXCEPT !.cptr[m.parent[proc]] = m.optr[proc]]
  IN  Young(Old(l))

\* A loop from p's youngest child on to the older ones.
Chain(l, p) ==
  LET at[k \in 1 .. MaxProcs + 1] ==
        IF k = 1 THEN l.cptr[p] ELSE IF at[k - 1] = NULL THEN NULL ELSE l.optr[at[k - 1]]
  IN  at

\* The loop of do_exit(): current->cptr goes on before the child is linked anew.
HandedOver(l, p) ==
  LET after[k \in 0 .. MaxProcs] ==
        IF k = 0 THEN l
        ELSE LET m == after[k - 1] proc == m.cptr[p]
             IN  IF proc = NULL THEN m
                 ELSE Adopted([m EXCEPT !.cptr[p] = m.optr[proc]], InitProc, proc)
  IN  after[MaxProcs]

Fork(p, proc) ==
  /\ p \in Living /\ ~ Exists(proc)
  /\ Settle(Adopted(Links, p, proc))
  /\ UNCHANGED zombies

\* do_exit(); initproc panics.
Exit(p) ==
  /\ p \in Living \ {InitProc}
  /\ Settle(HandedOver(Links, p))
  /\ zombies' = zombies \cup {p}

\* The child that do_wait() finds without a pid: the youngest that has exited.
FirstZombie(p) ==
  LET chain == Chain(Links, p)
      found == {k \in DOMAIN chain : chain[k] \in zombies}
  IN  IF found = {} THEN NULL ELSE chain[Min(found)]

\* The end of do_wait(): unhash_proc() and remove_links(), and the proc_struct is freed.
Reap(p, proc) ==
  /\ p \in Living
  /\ proc \in zombies /\ (parent[proc] = p \/ proc = FirstZombie(p))
  /\ \E l \in {Unlinked(Links, proc)} :
       Settle([l EXCEPT !.parent[proc] = NULL, !.optr[proc] = NULL, !.yptr[proc] = NULL])
  /\ zombies' = zombies \ {proc}

Next ==
  \E p \in Procs :
    \/ Exit(p)
    \/ \E proc \in Procs : Fork(p, proc) \/ Reap(p, proc)

Spec == Init /\ [][Next]_vars

-----------------------------------------------------------------------------
Children(p) == {q \in Procs : parent[q] = p}

\* The chain from cptr over optr has exactly the children of each process, once
\* each, and yptr leads back; who has exited has no children; parents live; so
\* do_wait() finds an exited child if there is one, and init_main() may assert at
\* the end that nothing is linked to initproc (proc.c, set_links, remove_links,
\* do_exit, do_wait, init_main).
KinExact ==
  \A p \in Procs :
    LET chain == Chain(Links, p)
        kids  == {chain[k] : k \in DOMAIN chain} \ {NULL}
    IN  /\ kids = Children(p) /\ (p \notin Living => kids = {})
        /\ Cardinality({k \in DOMAIN chain : chain[k] # NULL}) = Cardinality(kids)
        /\ cptr[p] # NULL => yptr[cptr[p]] = NULL
        /\ \A q \in kids : optr[q] # NULL => yptr[optr[q]] = q
        /\ (FirstZombie(p) = NULL) = (kids \cap zombies = {})
=============================================================================
