-------------------------------- MODULE Slub --------------------------------
(***************************************************************************)
(* The allocator of small objects, lab2/kern/mm/slub.c.  A cache hands out *)
(* objects of one size from slabs of a page each; the free objects of a    *)
(* slab are linked through bufctl from slab->free, by their numbers, here  *)
(* a sequence.  The descriptor of a cache is itself an object of the first *)
(* cache, cache_cache; a cache is named by its descriptor.                 *)
(***************************************************************************)
EXTENDS Integers, Sequences, FiniteSets, FiniteSetsExt, SequencesExt

CONSTANTS
  NPages,      \* the pages there are
  PageBytes,   \* PGSIZE
  DescBytes,   \* sizeof(struct kmem_cache_t)
  SizedNum,    \* SIZED_CACHE_NUM: caches of 16, 32, ... bytes, which stay for ever
  OwnSize,     \* the size of the objects of a cache that somebody creates
  Sizes        \* what kmalloc() is asked for, in bytes

SizedMin == 16
SizedMax == SizedMin * 2 ^ (SizedNum - 1)

Num(size) == PageBytes \div (2 + size)
CacheNum  == Num(DescBytes)
NoObject  == -1

ConstantsOK ==
  /\ {NPages, PageBytes, DescBytes, SizedNum, OwnSize} \subseteq Nat \ {0}
  /\ Num(SizedMax) > 0 /\ Num(OwnSize) > 0
  /\ CacheNum > SizedNum   \* one slab of descriptors is enough: the kernel uses 9 of 38
  /\ Sizes \subseteq 1 .. SizedMax

Pages == 1 .. NPages

\* Objects are numbered; cache_cache is no object.
Object(page, k) == page * PageBytes + k
PageOf(obj)     == obj \div PageBytes
CacheCache      == 0

VARIABLES
  caches,   \* [size, full, partial, free] of each descriptor, with pages newest first
  chain,    \* cache_chain, newest first
  slabs,    \* [cache, inuse, free] of each page that is a slab
  sized,    \* sized_caches
  held,     \* [obj, size]: what kmalloc() or kmem_cache_alloc() gave, and was asked for
  halted

vars == <<caches, chain, slabs, sized, held, halted>>

Empty(size) == [size |-> size, full |-> <<>>, partial |-> <<>>, free |-> <<>>]
NumOf(s, c) == Num(s.caches[c].size)

Without(f, x) == [y \in DOMAIN f \ {x} |-> f[y]]
With(f, x, v) == [y \in DOMAIN f \cup {x} |-> IF y = x THEN v ELSE f[y]]

FreePages(s) == Pages \ DOMAIN s.slabs

-----------------------------------------------------------------------------
\* kmem_cache_grow(); alloc_page() gives the first free page.
Grown(s, c) ==
  LET page == Min(FreePages(s))
      slab == [cache |-> c, inuse |-> 0,
               free |-> [k \in 1 .. NumOf(s, c) |-> k - 1]]
  IN  [s EXCEPT !.slabs = With(@, page, slab), !.caches[c].free = <<page>> \o @]

NeedsPage(s, c) == s.caches[c].partial = <<>> /\ s.caches[c].free = <<>>

Filed(s, c, page, list) ==
  CASE list = "full"    -> [s EXCEPT !.caches[c].full = <<page>> \o @]
    [] list = "partial" -> [s EXCEPT !.caches[c].partial = <<page>> \o @]
    [] list = "free"    -> [s EXCEPT !.caches[c].free = <<page>> \o @]

\* list_del(), from whichever list the page is on.
Taken(s, c, page) ==
  LET Rest(list) == SelectSeq(list, LAMBDA x : x # page)
  IN  [s EXCEPT !.caches[c].full = Rest(@), !.caches[c].partial = Rest(@),
                !.caches[c].free = Rest(@)]

AfterAlloc(s, c, page) == IF s.slabs[page].inuse = NumOf(s, c) THEN "full" ELSE "partial"

\* kmem_cache_alloc(), with what it gives in got; there is a page if it needs one.
Alloced(s, c) ==
  LET ready == IF NeedsPage(s, c) THEN Grown(s, c) ELSE s
      page  == IF ready.caches[c].partial # <<>> THEN Head(ready.caches[c].partial)
               ELSE Head(ready.caches[c].free)
      Used  == [Taken(ready, c, page) EXCEPT !.slabs[page].inuse = @ + 1,
                                             !.slabs[page].free = Tail(@),
                                             !.got = Object(page, Head(ready.slabs[page].free))]
  IN  Filed(Used, c, page, AfterAlloc(Used, c, page))

\* What the bufctl entry of an object that is freed leads to.
Link(s, page) == s.slabs[page].free

\* kmem_cache_free()
FreedObject(s, c, obj) ==
  LET page == PageOf(obj)
      k    == obj - Object(page, 0)
      Back == [Taken(s, c, page) EXCEPT !.slabs[page].free = <<k>> \o Link(s, page),
                                        !.slabs[page].inuse = @ - 1]
  IN  Filed(Back, c, page, IF Back.slabs[page].inuse = 0 THEN "free" ELSE "partial")

\* kmem_slab_destroy() of slabs of the cache c.
Destroyed(s, c, list) ==
  FoldLeft(LAMBDA s1, page : [Taken(s1, c, page) EXCEPT !.slabs = Without(@, page)], s, list)

\* kmem_cache_shrink()
Shrunk(s, c) == Destroyed(s, c, s.caches[c].free)

\* kmem_cache_reap(): the chain also has the caches that were destroyed.
Reaped(s) == FoldLeft(Shrunk, s, chain)

\* kmem_cache_create() puts the new descriptor in front of the chain.
Created(s, size) ==
  LET made == Alloced(s, CacheCache)
  IN  [made EXCEPT !.caches = With(@, made.got, Empty(size))]

Now == [caches |-> caches, slabs |-> slabs, got |-> NoObject]

Settle(s) == caches' = s.caches /\ slabs' = s.slabs /\ UNCHANGED <<sized, halted>>

\* kmem_int()
Init ==
  LET begin == [caches |-> [c \in {CacheCache} |-> Empty(DescBytes)], slabs |-> <<>>,
                got |-> NoObject, made |-> <<>>]
      Make(s, i) == LET s1 == Created(s, SizedMin * 2 ^ (i - 1))
                    IN  [s1 EXCEPT !.made = Append(@, s1.got)]
      done == FoldLeft(Make, begin, [i \in 1 .. SizedNum |-> i])
  IN  /\ caches = done.caches /\ slabs = done.slabs /\ sized = done.made
      /\ chain = Reverse(done.made) \o <<CacheCache>>
      /\ held = {} /\ halted = FALSE

Own == {c \in DOMAIN caches : c # CacheCache /\ c \notin ToSet(sized) /\ \E h \in held : h.obj = c}

\* kmem_sized_index(), counted from 1: how often rsize can be halved to 16 or more.
SizedIndex(size) ==
  LET even  == 2 * ((size + 1) \div 2)
      rsize == IF even < SizedMin THEN SizedMin ELSE even
  IN  1 + Cardinality({k \in 1 .. SizedNum : rsize \div SizedMin >= 2 ^ k})

\* An object of the cache c for somebody who asked for size bytes.  That there is
\* no page is not tested: the kernel writes to the page of a null pointer.
AllocFor(c, size) ==
  \/ /\ NeedsPage(Now, c) => FreePages(Now) # {}
     /\ \E s \in {Alloced(Now, c)} :
          Settle(s) /\ held' = held \cup {[obj |-> s.got, size |-> size]}
     /\ UNCHANGED chain
  \/ /\ NeedsPage(Now, c) /\ FreePages(Now) = {}
     /\ halted' = TRUE /\ UNCHANGED <<caches, chain, slabs, sized, held>>

Kmalloc(size) == AllocFor(sized[SizedIndex(size)], size)
CacheAlloc(c) == AllocFor(c, OwnSize)

\* kfree() finds the cache in the slab; kmem_cache_free() is told.
Free(h) ==
  /\ Settle(FreedObject(Now, slabs[PageOf(h.obj)].cache, h.obj))
  /\ held' = held \ {h} /\ UNCHANGED chain

\* kmem_cache_create(), of one cache more, as check_kmem() does it.  When a
\* descriptor takes the place of one that was destroyed, its link is on the chain
\* already and is added a second time, after which the chain has no end: nobody
\* creates a cache after one was destroyed (bound of the model).
Create ==
  /\ Len(chain) = SizedNum + 1
  /\ \E s \in {Created(Now, OwnSize)} :
       /\ Settle(s)
       /\ held' = held \cup {[obj |-> s.got, size |-> DescBytes]}
       /\ chain' = <<s.got>> \o chain

\* kmem_cache_destroy(): with the objects that are in use.  The descriptor stays on
\* the chain.
Destroy(c) ==
  LET lists == caches[c].full \o caches[c].partial \o caches[c].free
  IN  /\ Settle(FreedObject(Destroyed(Now, c, lists), CacheCache, c))
      /\ held' = {h \in held : h.obj # c /\ PageOf(h.obj) \notin ToSet(lists)}
      /\ UNCHANGED chain

Shrink(c) == Settle(Shrunk(Now, c)) /\ UNCHANGED <<held, chain>>
Reap      == Settle(Reaped(Now)) /\ UNCHANGED <<held, chain>>

Next ==
  /\ ~ halted
  /\ \/ \E size \in Sizes : Kmalloc(size)
     \/ \E c \in Own : CacheAlloc(c) \/ Shrink(c) \/ Destroy(c)
     \/ \E h \in held : h.obj \notin DOMAIN caches /\ Free(h)
     \/ Create
     \/ Reap

Spec == Init /\ [][Next]_vars

-----------------------------------------------------------------------------
InUse(page) ==
  {h.obj : h \in {x \in held : PageOf(x.obj) = page}}
  \cup {obj \in ToSet(sized) : PageOf(obj) = page}

\* Each page of a cache is on the one list that says how full it is, and each object
\* of it is either in use, by one caller only, or linked in bufctl; inuse counts
\* them.  No page is lost: what is not free is a slab of a cache that exists
\* (slub.c, kmem_cache_alloc, kmem_cache_free; check_kmem compares nr_free_pages).
SlabsExact ==
  LET live == {CacheCache} \cup ToSet(sized) \cup Own
      On(c) == caches[c].full \o caches[c].partial \o caches[c].free
  IN  /\ \A c \in live : Cardinality(ToSet(On(c))) = Len(On(c))
      /\ \A page \in DOMAIN slabs :
           LET slab == slabs[page] c == slab.cache
           IN  /\ c \in live /\ page \in ToSet(On(c))
               /\ slab.inuse = Cardinality(InUse(page))
               /\ (slab.inuse = Num(caches[c].size)) = (page \in ToSet(caches[c].full))
               /\ (slab.inuse = 0) = (page \in ToSet(caches[c].free))
               /\ InUse(page) \cup {Object(page, k) : k \in ToSet(slab.free)}
                    = {Object(page, k) : k \in 0 .. Num(caches[c].size) - 1}
               /\ Len(slab.free) + slab.inuse = Num(caches[c].size)
      /\ \A c \in DOMAIN caches : ToSet(On(c)) \subseteq DOMAIN slabs
      /\ \A g, h \in held : g.obj = h.obj => g = h

\* An object is as large as it was asked for (slub.c, kmem_sized_index(): rounds up;
\* kmalloc(): finds the cache of the size that fits best).
ObjectsFit == \A h \in held : caches[slabs[PageOf(h.obj)].cache].size >= h.size
=============================================================================
