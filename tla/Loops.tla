------------------------------- MODULE Loops -------------------------------
(***************************************************************************)
(* Facts about loops that the proofs share. A loop has a value after any   *)
(* number of rounds; what holds at its start and is kept by each round     *)
(* holds in every round; a set of numbers has a least one.                 *)
(***************************************************************************)
EXTENDS Integers, FiniteSetsExt, WellFoundedInduction, TLAPS

\* A set of numbers has a least one, which Min finds.
LEMMA LeastOf ==
  ASSUME NEW T \in SUBSET Nat, T # {}
  PROVE  Min(T) \in T /\ \A y \in T : Min(T) <= y
<1>1. PICK x \in T : \A y \in T : <<y, x>> \notin OpToRel(<, Nat)
  BY WFMin, NatLessThanWellFounded, Zenon
<1>2. \A y \in T : ~(y < x)
  BY <1>1, Zenon DEF OpToRel
<1>3. \A y \in T : x <= y
  BY <1>2
<1>4. \E z \in T : \A y \in T : z <= y
  BY <1>3
<1> QED BY <1>4, Zenon DEF Min

\* g is what a loop goes through in n rounds, each a step from the round's number
\* and the value before.
Walk(V, step, first, n, g) ==
  /\ g \in [0 .. n -> V]
  /\ g[0] = first
  /\ \A k \in 1 .. n : g[k] = step[<<k, g[k - 1]>>]

\* A loop has a value after any number of rounds.
LEMMA Repeats ==
  ASSUME NEW V, NEW step \in [Nat \X V -> V], NEW first \in V, NEW n \in Nat
  PROVE  \E g : Walk(V, step, first, n, g)
<1> DEFINE Until(m) == \E g \in [0 .. m -> V] :
                         g[0] = first /\ \A k \in 1 .. m : g[k] = step[<<k, g[k - 1]>>]
           T == {m \in Nat : ~ Until(m)}
<1>0. Until(n) => \E g : Walk(V, step, first, n, g)
  BY DEF Walk
<1> SUFFICES ASSUME T # {} PROVE FALSE
  <2>1. T = {} => Until(n)
    <3> HIDE DEF Until
    <3> QED OBVIOUS
  <2> QED BY <1>0, <2>1
<1>1. PICK m \in T : \A y \in T : m <= y
  BY LeastOf, T \in SUBSET Nat
<1>2. m # 0
  <2>1. [k \in 0 .. 0 |-> first] \in [0 .. 0 -> V]
    OBVIOUS
  <2>3. \A k \in 1 .. 0 : FALSE
    OBVIOUS
  <2>4. [k \in 0 .. 0 |-> first][0] = first
    OBVIOUS
  <2>5. \E g \in [0 .. 0 -> V] :
          g[0] = first /\ \A k \in 1 .. 0 : g[k] = step[<<k, g[k - 1]>>]
    BY <2>1, <2>3, <2>4, Zenon
  <2>2. Until(0)
    BY <2>5
  <2> QED BY <1>1, <2>2
<1>3. m \in Nat /\ m - 1 \in Nat
  BY <1>1, <1>2
<1>4. m - 1 \notin T
  <2> HIDE DEF T
  <2> QED BY <1>1, <1>3
<1>5. PICK g \in [0 .. m - 1 -> V] :
        g[0] = first /\ \A k \in 1 .. m - 1 : g[k] = step[<<k, g[k - 1]>>]
  BY <1>3, <1>4
<1>6. PICK h : h = [k \in 0 .. m |-> IF k = m THEN step[<<m, g[m - 1]>>] ELSE g[k]]
  OBVIOUS
<1>7. h \in [0 .. m -> V]
  BY <1>3, <1>5, <1>6
<1>8. h[0] = first /\ \A k \in 1 .. m : h[k] = step[<<k, h[k - 1]>>]
  <2>1. h[0] = first
    BY <1>2, <1>3, <1>5, <1>6
  <2>2. ASSUME NEW k \in 1 .. m
        PROVE  h[k] = step[<<k, h[k - 1]>>]
    <3>1. k - 1 \in 0 .. m /\ k \in 0 .. m /\ k - 1 # m /\ (k # m => k \in 1 .. m - 1)
      BY <1>3
    <3>2. h[k - 1] = g[k - 1] /\ h[k] = IF k = m THEN step[<<m, g[m - 1]>>] ELSE g[k]
      BY <1>6, <3>1
    <3> QED BY <1>5, <3>1, <3>2
  <2> QED BY <2>1, <2>2
<1>9. Until(m)
  BY <1>7, <1>8
<1> QED BY <1>1, <1>9

\* The least of a set is known when seen.
LEMMA MinIs ==
  ASSUME NEW T \in SUBSET Nat, NEW x \in T, \A y \in T : x <= y
  PROVE  Min(T) = x
<1>1. Min(T) \in T /\ \A y \in T : Min(T) <= y
  BY LeastOf
<1>2. Min(T) <= x /\ x <= Min(T) /\ x \in Nat /\ Min(T) \in Nat
  BY <1>1
<1> QED BY <1>2

\* What holds at the start of a loop and is kept by each round holds in every round.
LEMMA EveryRound ==
  ASSUME NEW n \in Nat, NEW P, 0 \in P, \A k \in 1 .. n : k - 1 \in P => k \in P
  PROVE  \A k \in 0 .. n : k \in P
<1> DEFINE T == {k \in 0 .. n : k \notin P}
<1> SUFFICES ASSUME T # {} PROVE FALSE
  OBVIOUS
<1>1. T \in SUBSET Nat
  OBVIOUS
<1>2. PICK k \in T : \A j \in T : k <= j
  BY <1>1, LeastOf
<1>3. k # 0 /\ k \in 1 .. n /\ k - 1 \in 0 .. n /\ ~(k <= k - 1)
  BY <1>2
<1>4. k - 1 \notin T
  BY <1>2, <1>3
<1> QED BY <1>2, <1>3, <1>4

\* What body says of a number depends on smaller numbers alone.
LooksBack(V, body, n) ==
  \A a \in 0 .. n : \A f, h \in [0 .. n -> V] :
    (\A b \in 0 .. n : b < a => f[b] = h[b]) => body[<<a, f>>] = body[<<a, h>>]

\* f is the function that body defines.
Recursive(V, body, n, f) ==
  f \in [0 .. n -> V] /\ \A a \in 0 .. n : f[a] = body[<<a, f>>]

\* A definition that looks back defines a function.
LEMMA CourseOfValues ==
  ASSUME NEW n \in Nat, NEW V, NEW v \in V, NEW body \in [(0 .. n) \X [0 .. n -> V] -> V],
         LooksBack(V, body, n)
  PROVE  \E f : Recursive(V, body, n, f)
<1> DEFINE H    == [0 .. n -> V]
           Set(k, h) == IF k - 1 \in 0 .. n
                        THEN [h EXCEPT ![k - 1] = body[<<k - 1, h>>]] ELSE h
           step == [a \in Nat \X H |-> Set(a[1], a[2])]
           none == [a \in 0 .. n |-> v]
<1>1. step \in [Nat \X H -> H]
  <2>1. \A k \in Nat, h \in H : Set(k, h) \in H
    <3> SUFFICES ASSUME NEW k \in Nat, NEW h \in H, k - 1 \in 0 .. n
                 PROVE  [h EXCEPT ![k - 1] = body[<<k - 1, h>>]] \in H
      OBVIOUS
    <3>1. body[<<k - 1, h>>] \in V
      OBVIOUS
    <3> QED BY <3>1
  <2> HIDE DEF Set
  <2> QED BY <2>1
<1>2. none \in H
  OBVIOUS
<1>3. PICK g : Walk(H, step, none, n + 1, g)
  <2> HIDE DEF step, none, H
  <2>1. n + 1 \in Nat
    OBVIOUS
  <2> QED BY <1>1, <1>2, <2>1, Repeats
<1>4. \A k \in 0 .. n + 1 : g[k] \in H
  BY <1>3 DEF Walk
<1>5. \A k \in 1 .. n + 1 : g[k] = [g[k - 1] EXCEPT ![k - 1] = body[<<k - 1, g[k - 1]>>]]
  <2> SUFFICES ASSUME NEW k \in 1 .. n + 1
               PROVE  g[k] = [g[k - 1] EXCEPT ![k - 1] = body[<<k - 1, g[k - 1]>>]]
    OBVIOUS
  <2>1. k \in Nat /\ k - 1 \in 0 .. n + 1 /\ k - 1 \in 0 .. n
    OBVIOUS
  <2>2. g[k - 1] \in H
    BY <1>4, <2>1
  <2>3. g[k] = step[<<k, g[k - 1]>>]
    BY <1>3 DEF Walk
  <2>4. step[<<k, g[k - 1]>>] = Set(k, g[k - 1])
    <3> HIDE DEF H, Set
    <3> QED BY <2>1, <2>2
  <2> QED BY <2>1, <2>3, <2>4
<1> DEFINE Done == {k \in 0 .. n + 1 : \A a \in 0 .. n : a < k => g[k][a] = body[<<a, g[k]>>]}
<1>6. 0 \in Done
  OBVIOUS
<1>7. ASSUME NEW k \in 1 .. n + 1, k - 1 \in Done PROVE k \in Done
  <2>1. k - 1 \in 0 .. n + 1 /\ k - 1 \in 0 .. n /\ k \in 0 .. n + 1
    OBVIOUS
  <2> PICK h \in H : h = g[k - 1]
    BY <1>4, <2>1
  <2> PICK h2 \in H : h2 = g[k]
    BY <1>4, <2>1
  <2>2. \A a \in 0 .. n : h2[a] = IF a = k - 1 THEN body[<<k - 1, h>>] ELSE h[a]
    BY <1>5, <2>1
  <2> SUFFICES ASSUME NEW a \in 0 .. n, a < k PROVE h2[a] = body[<<a, h2>>]
    BY <2>1
  <2>3. \A b \in 0 .. n : b < a => h[b] = h2[b]
    BY <2>1, <2>2
  <2>4. body[<<a, h>>] = body[<<a, h2>>]
    BY <2>3 DEF LooksBack
  <2>5. a # k - 1 => h[a] = body[<<a, h>>]
    <3>1. a # k - 1 => a < k - 1
      OBVIOUS
    <3> QED BY <1>7, <3>1
  <2> QED BY <2>2, <2>4, <2>5
<1>8. \A k \in 0 .. n + 1 : k \in Done
  <2> HIDE DEF Done
  <2> QED BY <1>6, <1>7, EveryRound, n + 1 \in Nat
<1>9. \A a \in 0 .. n : g[n + 1][a] = body[<<a, g[n + 1]>>]
  <2>1. n + 1 \in Done
    <3> HIDE DEF Done
    <3>1. n + 1 \in 0 .. n + 1
      OBVIOUS
    <3> QED BY <1>8, <3>1
  <2>2. \A a \in 0 .. n : a < n + 1
    OBVIOUS
  <2> QED BY <2>1, <2>2
<1>10. Recursive(V, body, n, g[n + 1])
  <2>1. n + 1 \in 0 .. n + 1
    OBVIOUS
  <2>2. g[n + 1] \in H
    <3> HIDE DEF H
    <3> QED BY <1>4, <2>1
  <2> QED BY <1>9, <2>2 DEF Recursive
<1> QED BY <1>10

\* iter is what a fold over the subsets of 1 .. n computes that takes the greatest
\* number first, each round a step from that number and the value of the rest.
Folds(V, step, base, n, iter) ==
  /\ iter \in [SUBSET (1 .. n) -> V]
  /\ iter[{}] = base
  /\ \A s \in SUBSET (1 .. n) : \A x \in s :
       (\A y \in s : y <= x) => iter[s] = step[<<x, iter[s \ {x}]>>]

\* A fold has a value.
LEMMA FoldExists ==
  ASSUME NEW n \in Nat, NEW V, NEW base \in V, NEW step \in [Nat \X V -> V]
  PROVE  \E iter : Folds(V, step, base, n, iter)
<1> DEFINE Turn(s, k, v) == IF k \in s THEN step[<<k, v>>] ELSE v
           turn(s) == [a \in Nat \X V |-> Turn(s, a[1], a[2])]
           G(s)    == CHOOSE g : Walk(V, turn(s), base, n, g)
           iter    == [s \in SUBSET (1 .. n) |-> G(s)[n]]
<1>1. ASSUME NEW s \in SUBSET (1 .. n)
      PROVE  /\ G(s) \in [0 .. n -> V] /\ G(s)[0] = base
             /\ \A k \in 1 .. n : G(s)[k] = Turn(s, k, G(s)[k - 1])
  <2>1. turn(s) \in [Nat \X V -> V]
    OBVIOUS
  <2>2. \E g : Walk(V, turn(s), base, n, g)
    <3> HIDE DEF turn
    <3> QED BY <2>1, Repeats
  <2>3. Walk(V, turn(s), base, n, G(s))
    <3> HIDE DEF turn
    <3> QED BY <2>2, Zenon
  <2> HIDE DEF G
  <2>4. G(s) \in [0 .. n -> V] /\ G(s)[0] = base
    BY <2>3 DEF Walk
  <2>5. ASSUME NEW k \in 1 .. n PROVE G(s)[k] = Turn(s, k, G(s)[k - 1])
    <3>1. k \in Nat /\ k - 1 \in 0 .. n
      OBVIOUS
    <3>2. G(s)[k - 1] \in V /\ G(s)[k] = turn(s)[<<k, G(s)[k - 1]>>]
      BY <2>3, <2>4, <3>1 DEF Walk
    <3> HIDE DEF Turn
    <3> QED BY <3>1, <3>2
  <2> QED BY <2>4, <2>5
<1> HIDE DEF G
<1>2. iter \in [SUBSET (1 .. n) -> V]
  <2>1. \A s \in SUBSET (1 .. n) : G(s)[n] \in V
    BY <1>1
  <2> QED BY <2>1
<1>3. iter[{}] = base
  <2> DEFINE P == {k \in 0 .. n : G({})[k] = base}
  <2>1. 0 \in P
    BY <1>1
  <2>2. \A k \in 1 .. n : k - 1 \in P => k \in P
    <3> SUFFICES ASSUME NEW k \in 1 .. n, k - 1 \in P PROVE k \in P
      OBVIOUS
    <3>1. G({})[k] = Turn({}, k, G({})[k - 1])
      BY <1>1
    <3> QED BY <3>1
  <2>3. n \in P
    <3> HIDE DEF P
    <3>1. \A k \in 0 .. n : k \in P
      BY <2>1, <2>2, EveryRound
    <3> QED BY <3>1
  <2> QED BY <2>3
<1>4. ASSUME NEW s \in SUBSET (1 .. n), NEW x \in s, \A y \in s : y <= x
      PROVE  iter[s] = step[<<x, iter[s \ {x}]>>]
  <2> PICK r : r = s \ {x}
    OBVIOUS
  <2>0. r \in SUBSET (1 .. n) /\ x \in 1 .. n /\ x - 1 \in 0 .. n
    OBVIOUS
  <2> DEFINE P == {k \in 0 .. n : k < x => G(s)[k] = G(r)[k]}
             Q == {k \in 0 .. n : k >= x => G(s)[k] = G(s)[x] /\ G(r)[k] = G(r)[x - 1]}
  <2>1. \A k \in 0 .. n : k \in P
    <3>1. 0 \in P
      BY <1>1, <2>0
    <3>2. \A k \in 1 .. n : k - 1 \in P => k \in P
      <4> SUFFICES ASSUME NEW k \in 1 .. n, k - 1 \in P PROVE k < x => G(s)[k] = G(r)[k]
        <5>1. \A k \in 1 .. n : k \in 0 .. n
          OBVIOUS
        <5> QED BY <5>1
      <4> HAVE k < x
      <4>1. G(s)[k] = Turn(s, k, G(s)[k - 1]) /\ G(r)[k] = Turn(r, k, G(r)[k - 1])
        BY <1>1, <2>0
      <4>2. G(s)[k - 1] = G(r)[k - 1] /\ (k \in s <=> k \in r)
        BY <2>0
      <4> QED BY <4>1, <4>2
    <3> HIDE DEF P
    <3> QED BY <3>1, <3>2, EveryRound
  <2>2. G(r)[x] = G(r)[x - 1]
    <3>1. G(r)[x] = Turn(r, x, G(r)[x - 1])
      BY <1>1, <2>0
    <3> QED BY <3>1
  <2>3. \A k \in 0 .. n : k \in Q
    <3>1. 0 \in Q
      BY <2>0
    <3>2. \A k \in 1 .. n : k - 1 \in Q => k \in Q
      <4> SUFFICES ASSUME NEW k \in 1 .. n, k - 1 \in Q
                   PROVE  k >= x => G(s)[k] = G(s)[x] /\ G(r)[k] = G(r)[x - 1]
        <5>1. \A k \in 1 .. n : k \in 0 .. n
          OBVIOUS
        <5> QED BY <5>1
      <4> SUFFICES ASSUME k > x PROVE G(s)[k] = G(s)[x] /\ G(r)[k] = G(r)[x - 1]
        <5>1. k >= x => k > x \/ k = x
          BY <2>0
        <5> QED BY <2>2, <5>1
      <4>1. G(s)[k] = Turn(s, k, G(s)[k - 1]) /\ G(r)[k] = Turn(r, k, G(r)[k - 1])
        BY <1>1, <2>0, ZenonT(30)
      <4>2. k \notin s /\ k \notin r
        BY <1>4
      <4>3. k - 1 >= x
        BY <2>0
      <4> QED BY <4>1, <4>2, <4>3
    <3> HIDE DEF Q
    <3> QED BY <3>1, <3>2, EveryRound
  <2>4. G(s)[n] = G(s)[x] /\ G(r)[n] = G(r)[x - 1]
    <3>1. n \in Q
      <4> HIDE DEF Q
      <4> QED BY <2>3, n \in 0 .. n
    <3>2. n >= x
      BY <2>0
    <3> QED BY <3>1, <3>2
  <2>5. G(s)[x] = Turn(s, x, G(s)[x - 1]) /\ G(s)[x - 1] = G(r)[x - 1]
    <3>1. x - 1 \in P
      <4> HIDE DEF P
      <4> QED BY <2>0, <2>1
    <3>3. x - 1 < x
      BY <2>0
    <3>2. G(s)[x] = Turn(s, x, G(s)[x - 1])
      BY <1>1, <2>0
    <3> QED BY <3>1, <3>2, <3>3
  <2>6. iter[s] = G(s)[n] /\ iter[r] = G(r)[n]
    BY <2>0
  <2> QED BY <2>4, <2>5, <2>6
<1> HIDE DEF iter
<1> QED BY <1>2, <1>3, <1>4 DEF Folds

\* A set of numbers that are bounded has a greatest one, which Max finds.
LEMMA GreatestOf ==
  ASSUME NEW n \in Nat, NEW T \in SUBSET (0 .. n), T # {}
  PROVE  Max(T) \in T /\ \A y \in T : y <= Max(T)
<1> DEFINE U == {n - x : x \in T}
<1>1. U \in SUBSET Nat /\ U # {}
  <2>1. \A x \in T : n - x \in Nat
    OBVIOUS
  <2>2. PICK x \in T : TRUE
    OBVIOUS
  <2>3. n - x \in U
    OBVIOUS
  <2> QED BY <2>1, <2>3
<1>2. PICK u \in U : \A y \in U : u <= y
  <2> HIDE DEF U
  <2> QED BY <1>1, LeastOf
<1>3. PICK x \in T : u = n - x
  BY <1>2
<1>4. \A y \in T : x >= y
  <2> TAKE y \in T
  <2>1. n - y \in U
    OBVIOUS
  <2>2. u <= n - y
    <3> HIDE DEF U
    <3> QED BY <1>2, <2>1
  <2> QED BY <1>3, <2>2
<1>5. \E z \in T : \A y \in T : z >= y
  BY <1>4
<1>6. Max(T) \in T /\ \A y \in T : Max(T) >= y
  BY <1>5, Zenon DEF Max
<1> QED BY <1>6

\* A remainder is known by what it leaves.
LEMMA RemainderIs ==
  ASSUME NEW n \in Nat \ {0}, NEW q \in Int, NEW r \in 0 .. n - 1, NEW x \in Int, x = q * n + r
  PROVE  x % n = r
OBVIOUS

=============================================================================
