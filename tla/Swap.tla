-------------------------------- MODULE Swap --------------------------------
(***************************************************************************)
(* Page replacement: do_pgfault(), swap_in() and swap_out() under the four *)
(* swap managers (lab3/kern/mm/swap.c, swap_fifo.c, swap_clock.c and       *)
(* swap_lru.c; lab8/kern/mm/swap_fifo.c), in the setting of check_swap():  *)
(* one address space whose tables are there, and Phys page frames.         *)
(*                                                                         *)
(* The list of swappable pages is a sequence, first the entry that         *)
(* list_next() of its head gives.                                          *)
(***************************************************************************)
EXTENDS Integers, Sequences, FiniteSets, SequencesExt

CONSTANTS
  Virt,    \* the pages of the area, 1 .. Virt
  Phys,    \* the page frames, 1 .. Phys
  Values   \* what a page may hold

ConstantsOK == Virt \in Nat /\ Phys \in Nat \ {0}

Managers == {"lab8_fifo", "fifo", "lru", "clock"}
Pages  == 1 .. Virt
Frames == 1 .. Phys
None   == 0

VARIABLES
  manager,  \* sm
  pte,      \* [frame, slot]: what the entry of each page names; both None: zero
  held,     \* what each frame holds
  vaddr,    \* page->pra_vaddr of each frame
  pra,      \* the list behind pra_list_head
  hand,     \* clock: curr_ptr, None for the head
  visited,  \* clock: the frames with page->visited
  disk      \* what each slot of the swap area holds

vars == <<manager, pte, held, vaddr, pra, hand, visited, disk>>

TypeOK ==
  /\ manager \in Managers
  /\ pte \in [Pages -> [frame : Frames \cup {None}, slot : 0 .. Virt + 1]]
  /\ held \in [Frames -> Values]
  /\ vaddr \in [Frames -> Pages \cup {None}]
  /\ pra \in Seq(Frames)
  /\ hand \in Frames \cup {None} /\ visited \subseteq Frames
  /\ disk \in [1 .. Virt + 1 -> Values]

SomeValue == CHOOSE v \in Values : TRUE

Init ==
  /\ manager \in Managers
  /\ pte = [a \in Pages |-> [frame |-> None, slot |-> None]]
  /\ held = [f \in Frames |-> SomeValue]
  /\ vaddr = [f \in Frames |-> None]
  /\ pra = <<>> /\ hand = None /\ visited = {}
  /\ disk = [s \in 1 .. Virt + 1 |-> SomeValue]

-----------------------------------------------------------------------------
\* One state of memory; the operations below go from one to another.
Now == [pte |-> pte, held |-> held, vaddr |-> vaddr, pra |-> pra,
        hand |-> hand, visited |-> visited, disk |-> disk]

FreeFrames(s) == Frames \ {s.pte[a].frame : a \in Pages}

\* map_swappable(); the clock also sets visited.
MadeSwappable(s, f) ==
  CASE manager = "lab8_fifo"     -> [s EXCEPT !.pra = Append(@, f)]
    [] manager \in {"fifo", "lru"} -> [s EXCEPT !.pra = <<f>> \o @]
    [] manager = "clock"         -> [s EXCEPT !.pra = Append(@, f), !.visited = @ \cup {f}]

\* The place of the frame f on the list.
PlaceOf(list, f) == CHOOSE k \in DOMAIN list : list[k] = f

\* Where the hand of the clock goes from the frame f, or from the head.
After(s, f) ==
  LET i == IF f = None THEN 0 ELSE PlaceOf(s.pra, f)
  IN  IF i = Len(s.pra) THEN None ELSE s.pra[i + 1]

\* The clock: the hand clears visited until it finds a page without.  It meets no
\* page a third time.
ClockVictim(s) ==
  LET at[k \in 0 .. 2 * Phys] ==     \* the frame it looks at, and who is visited then
        LET from == IF k = 0 THEN s.hand ELSE After(s, at[k - 1].frame)
            f    == IF from = None THEN After(s, None) ELSE from
        IN  [frame   |-> f,
             visited |-> IF k = 0 THEN s.visited ELSE at[k - 1].visited \ {at[k - 1].frame}]
      stop == at[CHOOSE k \in 0 .. 2 * Phys :
                   /\ at[k].frame \notin at[k].visited
                   /\ \A j \in 0 .. k - 1 : at[j].frame \in at[j].visited]
  IN  [frame |-> stop.frame, hand |-> After(s, stop.frame), visited |-> stop.visited]

\* swap_out_victim(): the frame, and what the managers keep.
Victim(s) ==
  CASE manager = "lab8_fifo"     -> [frame |-> Head(s.pra), hand |-> s.hand, visited |-> s.visited]
    [] manager \in {"fifo", "lru"} ->
           [frame |-> Last(s.pra), hand |-> s.hand, visited |-> s.visited]
    [] manager = "clock"         -> ClockVictim(s)

\* The slot that swap_out() writes the frame f to and leaves in its entry: from its
\* address.
SwapSlot(s, f) == s.vaddr[f] + 1

\* swap_out() of one page.
SwappedOut(s) ==
  LET v == Victim(s)
      slot == SwapSlot(s, v.frame)
  IN  [s EXCEPT !.pte[s.vaddr[v.frame]] = [frame |-> None, slot |-> slot],
                !.disk[slot] = s.held[v.frame],
                !.pra = RemoveAt(@, PlaceOf(@, v.frame)),
                !.hand = v.hand, !.visited = v.visited]

\* alloc_page(): swaps out when there is no frame left.
WithFrame(s) == IF FreeFrames(s) = {} THEN SwappedOut(s) ELSE s

\* page_insert(), swap_map_swappable() and pra_vaddr.
Inserted(s, a, f, v) ==
  LET In(s1) == [s1 EXCEPT !.pte[a] = [frame |-> f, slot |-> None],
                           !.vaddr[f] = a, !.held[f] = v]
  IN  In(MadeSwappable(s, f))

\* do_pgfault() for the page a: a new page with any content, pgdir_alloc_page(), or
\* what its slot holds, swap_in().
Fault(a, v) ==
  /\ pte[a].frame = None
  /\ \E s \in {WithFrame(Now)} :
       \E f \in {CHOOSE g \in FreeFrames(s) : \A h \in FreeFrames(s) : g <= h} :
         LET next == Inserted(s, a, f, IF pte[a].slot = None THEN v ELSE s.disk[pte[a].slot])
         IN  /\ pte' = next.pte /\ held' = next.held /\ vaddr' = next.vaddr
             /\ pra' = next.pra /\ hand' = next.hand /\ visited' = next.visited
             /\ disk' = next.disk
  /\ UNCHANGED manager

\* The program writes to a page that is there.
Store(a, v) ==
  /\ pte[a].frame # None
  /\ held' = [held EXCEPT ![pte[a].frame] = v]
  /\ UNCHANGED <<manager, pte, vaddr, pra, hand, visited, disk>>

Next == \E a \in Pages, v \in Values : Fault(a, v) \/ Store(a, v)

Spec == Init /\ [][Next]_vars

-----------------------------------------------------------------------------
\* The list holds the frames in use, once each, each with the address it is mapped
\* at (swap.c, swap_out() asserts that the entry of the victim is valid); the hand
\* is on the list, and there is always a page to go out.
ListExact ==
  /\ {pra[i] : i \in DOMAIN pra} = Frames \ FreeFrames(Now)
  /\ \A i, j \in DOMAIN pra : i # j => pra[i] # pra[j]
  /\ \A i \in DOMAIN pra : pte[vaddr[pra[i]]].frame = pra[i]
  /\ hand # None => hand \in {pra[i] : i \in DOMAIN pra}

\* What goes out of memory and comes back is what it was: a page reads what was
\* written to it last, whatever was replaced in between (module UserMemory).
Contents ==
  [a \in {b \in Pages : pte[b].frame # None \/ pte[b].slot # None} |->
     IF pte[a].frame # None THEN held[pte[a].frame] ELSE disk[pte[a].slot]]

Memory == INSTANCE UserMemory WITH
  Procs <- {"check"}, Images <- {}, memory <- [p \in {"check"} |-> Contents]

OnlyStores == Memory!KernelKeeps \/ \E a \in Pages, v \in Values : Store(a, v)

ImplementsMemory == Memory!Spec /\ [][OnlyStores]_vars
=============================================================================
