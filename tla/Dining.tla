------------------------------- MODULE Dining -------------------------------
(***************************************************************************)
(* What check_sync.c promises of its philosophers, whichever mechanism     *)
(* they use: two neighbours never eat at the same time.                    *)
(***************************************************************************)
EXTENDS Integers

CONSTANT N   \* the number of philosophers

Phil == 0 .. N - 1

\* LEFT and RIGHT of check_sync.c
Left(i)  == (i + N - 1) % N
Right(i) == (i + 1) % N

VARIABLE mode   \* what each philosopher does

Init == mode = [i \in Phil |-> "thinking"]

GetsHungry(i) ==
  mode[i] = "thinking" /\ mode' = [mode EXCEPT ![i] = "hungry"]

StartsEating(i) ==
  /\ mode[i] = "hungry"
  /\ mode[Left(i)] # "eating" /\ mode[Right(i)] # "eating"
  /\ mode' = [mode EXCEPT ![i] = "eating"]

StopsEating(i) ==
  mode[i] = "eating" /\ mode' = [mode EXCEPT ![i] = "thinking"]

Next == \E i \in Phil : GetsHungry(i) \/ StartsEating(i) \/ StopsEating(i)

Spec == Init /\ [][Next]_mode
=============================================================================
