------------------------------- MODULE MCProc -------------------------------
(* Instances of Proc for TLC. *)
EXTENDS Proc, TLC

CONSTANTS u1, u2, u3, k1

MCUsers2   == {u1, u2}
MCUsers3   == {u1, u2, u3}
MCKThreads == {k1}
MCNone     == {}

MCProcs2  == {Idle, InitProc} \cup MCUsers2
MCProcs3  == {Idle, InitProc} \cup MCUsers3
MCProcs2K == MCProcs2 \cup MCKThreads

\* Users may be exchanged: no state names one of them.
SymUsers == Permutations(MCUsers3)
=============================================================================
