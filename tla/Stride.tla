------------------------------- MODULE Stride -------------------------------
(***************************************************************************)
(* The stride scheduling class, lab8/kern/schedule/default_sched_stride.c, *)
(* under the scheduler core of sched.c, which keeps idleproc out of it and *)
(* runs idleproc when the pool is empty.                                   *)
(*                                                                         *)
(* The specification remembers total[p], all that was ever added to        *)
(* lab6_stride; the field of the code is that sum modulo 2^32, and only    *)
(* the field is compared.  2^32 is Modulus, four times BIG_STRIDE.         *)
(***************************************************************************)
EXTENDS Integers, FiniteSets, SkewHeap

CONSTANTS
  Idle,         \* idleproc; Nodes are the other processes
  BigStride,    \* BIG_STRIDE
  Priorities,   \* the values given to lab6_set_priority()
  MaxSlice,     \* MAX_TIME_SLICE
  OpenNodes,    \* bound of the model: the processes of an open load
  MaxTotal      \* bound of the model: no total of an open load goes beyond it

ASSUME StrideAssumption ==
  /\ Idle \notin Nodes \cup {NULL} /\ OpenNodes \subseteq Nodes
  /\ BigStride \in Nat \ {0} /\ MaxSlice \in Nat \ {0} /\ MaxTotal \in Nat
  /\ Priorities \subseteq Nat

VARIABLES
  load,      \* "open": processes are created, sleep and exit at any time;
             \* "fixed": all exist before the first pick and stay runnable
  status,    \* "absent", "runnable" or "asleep"
  total,     \* the sum behind proc->lab6_stride
  priority,  \* proc->lab6_priority
  slice,     \* proc->time_slice
  heap,      \* the links of rq->lab6_run_pool
  top,       \* rq->lab6_run_pool
  current,   \* the process that runs
  resched    \* current is about to call schedule()

vars == <<load, status, total, priority, slice, heap, top, current, resched>>

Procs   == Nodes
Modulus == 4 * BigStride

\* Fault: the fields are compared as unsigned numbers.
StrideLessUnsigned(sum, p, q) == sum[p] % Modulus < sum[q] % Modulus

\* proc_stride_comp_f(p, q) == -1: the difference as int32_t is negative.
StrideLess(sum, p, q) == (sum[p] - sum[q]) % Modulus >= 2 * BigStride

Ahead(sum) == {<<p, q>> \in Procs \X Procs : StrideLess(sum, p, q)}

Init ==
  /\ load \in {"open", "fixed"}
  /\ status = [p \in Procs |-> "absent"]
  /\ total = [p \in Procs |-> 0]
  /\ priority = [p \in Procs |-> 0]
  /\ slice = [p \in Procs |-> 0]
  /\ heap = EmptyHeap
  /\ top = NULL
  /\ current = Idle
  /\ resched = TRUE

-----------------------------------------------------------------------------
\* stride_enqueue(): a slice that is left over is kept.
Refilled(p) == IF slice[p] = 0 \/ slice[p] > MaxSlice THEN MaxSlice ELSE slice[p]

Enqueue(p) == Insert(Ahead(total), heap, top, p)

\* alloc_proc() and the wakeup_proc() of do_fork().
Arrive(p) ==
  /\ status[p] = "absent" /\ p # current
  /\ IF load = "open" THEN p \in OpenNodes ELSE \A q \in Procs : total[q] = 0
  /\ status' = [status EXCEPT ![p] = "runnable"]
  /\ LET r == Enqueue(p) IN heap' = r.heap /\ top' = r.top
  /\ slice' = [slice EXCEPT ![p] = Refilled(p)]
  /\ UNCHANGED <<load, total, priority, current, resched>>

\* wakeup_proc() of a sleeper; current itself is left to schedule().
Wake(p) ==
  /\ status[p] = "asleep"
  /\ status' = [status EXCEPT ![p] = "runnable"]
  /\ IF p = current THEN UNCHANGED <<heap, top, slice>>
     ELSE /\ LET r == Enqueue(p) IN heap' = r.heap /\ top' = r.top
          /\ slice' = [slice EXCEPT ![p] = Refilled(p)]
  /\ UNCHANGED <<load, total, priority, current, resched>>

\* A system call that goes to sleep (do_sleep) or exits (do_exit); an exited
\* process leaves a slot that alloc_proc() clears.
Leave(s) ==
  /\ load = "open" /\ current # Idle /\ ~resched
  /\ status' = [status EXCEPT ![current] = s]
  /\ resched' = TRUE
  /\ UNCHANGED <<load, total, priority, slice, heap, top, current>>

Sleep == Leave("asleep")
Exit  == Leave("absent")

Yield ==
  /\ ~resched
  /\ resched' = TRUE
  /\ UNCHANGED <<load, status, total, priority, slice, heap, top, current>>

\* lab6_set_priority().
SetPriority(v) ==
  /\ current # Idle /\ ~resched
  /\ priority' = [priority EXCEPT ![current] = IF v = 0 THEN 1 ELSE v]
  /\ UNCHANGED <<load, status, total, slice, heap, top, current, resched>>

\* sched_class_proc_tick() and stride_proc_tick().
Tick ==
  /\ IF current = Idle THEN slice' = slice /\ resched' = TRUE
     ELSE LET left == IF slice[current] = 0 THEN 0 ELSE slice[current] - 1
          IN  slice' = [slice EXCEPT ![current] = left] /\ resched' = (resched \/ left = 0)
  /\ UNCHANGED <<load, status, total, priority, heap, top, current>>

-----------------------------------------------------------------------------
\* Fault: the stride grows with the priority.
PassRising(p) == IF priority[p] = 0 THEN BigStride ELSE BigStride * priority[p]

\* Fault: no pass at all, as for a priority beyond BIG_STRIDE.
PassZero(p) == 0

\* What stride_pick_next() adds to the stride of its choice.
Pass(p) == IF priority[p] = 0 THEN BigStride ELSE BigStride \div priority[p]

\* How often all strides have wrapped is forgotten.
Rebased(sum) ==
  LET present == {p \in Procs : status[p] # "absent"}
  IN  [p \in Procs |-> IF p \notin present THEN 0
                       ELSE IF \A q \in present : sum[q] >= Modulus THEN sum[p] - Modulus
                       ELSE sum[p]]

\* schedule(): current is enqueued if it is runnable; stride_pick_next() takes
\* the top and moves its stride on while it is still in the heap; then it is
\* dequeued.  idleproc runs if the pool is empty.
Schedule ==
  /\ resched
  /\ \E pool \in {IF current # Idle /\ status[current] = "runnable" THEN Enqueue(current)
                  ELSE [heap |-> heap, top |-> top]} :
       \/ /\ pool.top = NULL
          /\ current' = Idle
          /\ UNCHANGED <<total, heap, top>>
       \/ LET next  == pool.top
              moved == [total EXCEPT ![next] = @ + Pass(next)]
              rest  == Remove(Ahead(moved), pool.heap, pool.top, next)
          IN  /\ next # NULL
              /\ load = "open" => moved[next] <= MaxTotal
              /\ total' = Rebased(moved)
              /\ heap' = rest.heap
              /\ top' = rest.top
              /\ current' = next
  /\ priority' = [p \in Procs |-> IF status[p] = "absent" THEN 0 ELSE priority[p]]
  /\ slice' = [p \in Procs |-> CASE status[p] = "absent" -> 0
                                 [] status[p] = "runnable" /\ p = current -> Refilled(p)
                                 [] OTHER -> slice[p]]
  /\ resched' = FALSE
  /\ UNCHANGED <<load, status>>

Next ==
  \/ \E p \in Procs : Arrive(p) \/ Wake(p)
  \/ Sleep \/ Exit \/ Yield
  \/ \E v \in Priorities : SetPriority(v)
  \/ Tick
  \/ Schedule

\* The timer ticks, and when ticks change nothing any more, whoever has to call
\* schedule() does.
Spec == Init /\ [][Next]_vars /\ WF_vars(Tick \/ Schedule)

-----------------------------------------------------------------------------
InPool == {p \in Procs : status[p] = "runnable"} \ {current}

\* The heap holds each runnable process but the running one exactly once, and
\* parent links, by which stride_dequeue() finds the place of a node, match
\* (skew_heap.h, skew_heap_merge and skew_heap_remove).
HeapExact ==
  LET found == Reached(heap, top, Cardinality(Procs) + 1)
  IN  /\ Len(found) = Cardinality(InPool)
      /\ {found[i] : i \in DOMAIN found} = InPool
      /\ top # NULL => heap.parent[top] = NULL
      /\ \A p \in InPool : \A c \in {heap.left[p], heap.right[p]} \ {NULL} : heap.parent[c] = p

\* Under a fixed load the sums of two processes differ by BIG_STRIDE at most, so
\* that the comparison of the 32-bit fields says which is behind
\* (default_sched_stride.c, BIG_STRIDE and proc_stride_comp_f).
SpreadBounded ==
  load = "fixed" => \A p, q \in Procs : status[p] = "runnable" /\ status[q] = "runnable" =>
    /\ total[p] - total[q] <= BigStride
    /\ StrideLess(total, p, q) <=> total[p] < total[q]

\* stride_pick_next() picks "the element from the run-queue, with the minimum
\* value of stride" (default_sched_stride.c:104-105).
Minimum ==
  resched /\ ~resched' =>
    \A q \in Procs : status[q] = "runnable" => /\ current' # Idle
                                              /\ total[current'] <= total[q]

PickMinimum == [][Minimum]_vars

\* It does so at least under a fixed load, across every wrap of the strides
\* (default_sched_stride.c, stride_pick_next).
PickMinimumFixed == [][load = "fixed" => Minimum]_vars

\* Under a fixed load whoever waits for the CPU gets it (default_sched_stride.c,
\* stride_pick_next).
Served == \A p \in Procs : load = "fixed" /\ status[p] = "runnable" ~> current = p
=============================================================================
