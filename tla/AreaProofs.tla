----------------------------- MODULE AreaProofs -----------------------------
(***************************************************************************)
(* Proofs, for user memory of any size, that the calls that search, check  *)
(* and change the areas of a process (VmaList) do what their areas say,    *)
(* whatever mmap_cache holds; that read() and write() (SysFile), which     *)
(* check the user's buffer against them, move the bytes that they count;   *)
(* and, for any number of processes, frames and pages, that the address    *)
(* spaces (AddrSpace) are built of frames of their own and keep the memory *)
(* of each process apart.                                                  *)
(*                                                                         *)
(* The argument about AddrSpace has three layers.  Frames have levels      *)
(* (Shape): an entry leads from one level to the next, and no two entries  *)
(* lead to one frame.  So a step that changes the entries on the way from  *)
(* one directory changes what that directory holds (Cells) and nothing     *)
(* that another one holds (Kept).  A directory goes with a list of areas   *)
(* (GoesWith), each process has a directory of its own (SpaceInv), and a   *)
(* loop over pages, areas or segments keeps this round by round.  An       *)
(* operation goes on with the frame F + 1 when there is none left; what it *)
(* does then is thrown away (Gone).                                        *)
(***************************************************************************)
EXTENDS VmaList, AddrSpace, Loops, SequenceTheorems, FiniteSetTheorems, TLAPS

CONSTANTS IoBuf, FileLen, Lengths, Layouts
VARIABLES layout, file, pos, mem, call, given

Io == INSTANCE SysFile WITH areas <- layout, seen <- given

\* A list of areas that are sorted and do not overlap.
Sorted(l) ==
  /\ l \in Seq(Areas)
  /\ \A i \in DOMAIN l : l[i].start < l[i].end
  /\ \A i, j \in DOMAIN l : i < j => l[i].end <= l[j].start

\* A cache that find_vma() may have left.
CacheOf(l, c) == c \in Int /\ (c # NoArea => \E i \in DOMAIN l : l[i].start = c)

\* What an area of a list is.
LEMMA AreaType ==
  ASSUME NEW l, l \in Seq(Areas), NEW i \in DOMAIN l
  PROVE  /\ l[i] \in Areas /\ i \in Nat /\ i >= 1 /\ i <= Len(l) /\ Len(l) \in Nat
         /\ l[i].start \in 0 .. NV - 1 /\ l[i].end \in 1 .. NV /\ l[i].flags \in SUBSET Flags
<1>1. Len(l) \in Nat /\ DOMAIN l = 1 .. Len(l) /\ l[i] \in Areas
  OBVIOUS
<1>2. \A x \in Areas : x.start \in 0 .. NV - 1 /\ x.end \in 1 .. NV /\ x.flags \in SUBSET Flags
  BY DEF Areas
<1> QED BY <1>1, <1>2

\* The position that find_vma() gives covers the address, and there is one if any does.
LEMMA FindFinds ==
  ASSUME NEW l \in Seq(Areas), NEW c, NEW a
  PROVE  LET i == FindVma(l, c, a)
         IN  \/ i = 0 /\ \A j \in DOMAIN l : ~ Covers(l[j], a)
             \/ i \in DOMAIN l /\ Covers(l[i], a)
<1> DEFINE covering == {i \in DOMAIN l : Covers(l[i], a)}
           cached   == {i \in covering : l[i].start = c}
<1>1. covering \in SUBSET Nat /\ cached \in SUBSET covering /\ cached \in SUBSET Nat
  OBVIOUS
<1>2. cached # {} => Min(cached) \in cached
  <2> HIDE DEF cached
  <2> QED BY <1>1, LeastOf
<1>3. covering # {} => Min(covering) \in covering
  <2> HIDE DEF covering
  <2> QED BY <1>1, LeastOf
<1>4. FindVma(l, c, a) = IF cached # {} THEN Min(cached)
                         ELSE IF covering # {} THEN Min(covering) ELSE 0
  BY DEF FindVma
<1>5. CASE cached # {}
  BY <1>1, <1>2, <1>4, <1>5
<1>6. CASE cached = {} /\ covering # {}
  BY <1>3, <1>4, <1>6
<1>7. CASE cached = {} /\ covering = {}
  BY <1>4, <1>7
<1> QED BY <1>5, <1>6, <1>7

\* No address is in two areas.
LEMMA OneCovers ==
  ASSUME NEW l, Sorted(l), NEW a \in Int, NEW i \in DOMAIN l, NEW j \in DOMAIN l,
         Covers(l[i], a), Covers(l[j], a)
  PROVE  i = j
<1>1. l \in Seq(Areas)
  BY DEF Sorted
<1>2. /\ i \in Nat /\ j \in Nat /\ l[i].start \in Int /\ l[j].start \in Int
      /\ l[i].end \in Int /\ l[j].end \in Int
  BY <1>1, AreaType
<1>3. (i < j => l[i].end <= l[j].start) /\ (j < i => l[j].end <= l[i].start)
  BY DEF Sorted
<1> QED BY <1>2, <1>3 DEF Covers

\* insert_vma_struct() goes behind the areas that start no higher.
LEMMA PlaceIs ==
  ASSUME NEW l, Sorted(l), NEW area, area.start \in Int
  PROVE  /\ PlaceOf(l, area) \in 1 .. Len(l) + 1
         /\ \A j \in DOMAIN l : j < PlaceOf(l, area) <=> l[j].start <= area.start
<1> DEFINE above == {i \in DOMAIN l : l[i].start > area.start}
<1>0. l \in Seq(Areas) /\ Len(l) \in Nat /\ DOMAIN l = 1 .. Len(l)
  BY DEF Sorted
<1>1. above \in SUBSET Nat
  BY <1>0
<1>2. above # {} => Min(above) \in above /\ \A y \in above : Min(above) <= y
  <2> HIDE DEF above
  <2> QED BY <1>1, LeastOf
<1>3. PlaceOf(l, area) = IF above = {} THEN Len(l) + 1 ELSE Min(above)
  BY DEF PlaceOf
<1>4. \A j \in DOMAIN l : l[j].start \in Int /\ l[j].end \in Int
  BY <1>0, AreaType
<1>5. CASE above = {}
  <2>1. PlaceOf(l, area) = Len(l) + 1
    BY <1>3, <1>5
  <2>2. \A j \in DOMAIN l : j < Len(l) + 1 /\ l[j].start <= area.start
    BY <1>0, <1>4, <1>5
  <2> QED BY <1>0, <2>1, <2>2
<1>6. CASE above # {}
  <2> PICK m \in above : m = Min(above)
    BY <1>2, <1>6
  <2>1. PlaceOf(l, area) = m /\ m \in DOMAIN l /\ l[m].start > area.start
    BY <1>3, <1>6
  <2>2. \A y \in above : m <= y
    BY <1>2, <1>6
  <2>3. ASSUME NEW j \in DOMAIN l PROVE j < m <=> l[j].start <= area.start
    <3>1. j < m => l[j].start <= area.start
      <4>1. j < m => j \notin above
        <5> HIDE DEF above
        <5>1. j \in Nat /\ m \in Nat
          BY <1>0, <2>1
        <5> QED BY <2>2, <5>1
      <4> QED BY <1>4, <4>1
    <3>2. m < j => l[m].end <= l[j].start /\ l[m].start < l[m].end
      BY <2>1 DEF Sorted
    <3> QED BY <1>0, <1>4, <2>1, <3>1, <3>2
  <2>4. m \in 1 .. Len(l) + 1
    BY <1>0, <2>1
  <2> QED BY <2>1, <2>3, <2>4
<1> QED BY <1>5, <1>6

\* area overlaps no area of the list.
Apart(l, area) == \A j \in DOMAIN l : area.end <= l[j].start \/ l[j].end <= area.start

\* The assertions of check_vma_overlap() hold when the new area overlaps none.
LEMMA AssertsAreApart ==
  ASSUME NEW l, Sorted(l), NEW area, area.start \in Int, area.end \in Int,
         area.start < area.end
  PROVE  InsertAsserts(l, area) <=> Apart(l, area)
<1>0. l \in Seq(Areas) /\ Len(l) \in Nat /\ DOMAIN l = 1 .. Len(l)
  BY DEF Sorted
<1>1. \A j \in DOMAIN l : l[j].start \in Int /\ l[j].end \in Int
  BY <1>0, AreaType
<1>2. PICK i \in 1 .. Len(l) + 1 : i = PlaceOf(l, area)
  BY PlaceIs
<1>3. \A j \in DOMAIN l : j < i <=> l[j].start <= area.start
  BY <1>2, PlaceIs
<1>4. InsertAsserts(l, area) <=> /\ i > 1 => l[i - 1].end <= area.start
                                 /\ i <= Len(l) => area.end <= l[i].start
  BY <1>2 DEF InsertAsserts
<1>5. (i > 1 => i - 1 \in DOMAIN l) /\ (i <= Len(l) => i \in DOMAIN l)
  BY <1>0
<1>6. ASSUME Apart(l, area) PROVE InsertAsserts(l, area)
  <2>1. i > 1 => l[i - 1].end <= area.start
    <3> HAVE i > 1
    <3>1. l[i - 1].start <= area.start /\ i - 1 \in DOMAIN l
      BY <1>0, <1>3, <1>5
    <3> QED BY <1>1, <1>6, <3>1 DEF Apart
  <2>2. i <= Len(l) => area.end <= l[i].start
    <3> HAVE i <= Len(l)
    <3>1. ~(l[i].start <= area.start) /\ i \in DOMAIN l
      BY <1>0, <1>3, <1>5
    <3>2. l[i].start < l[i].end
      BY <3>1 DEF Sorted
    <3> QED BY <1>1, <1>6, <3>1, <3>2 DEF Apart
  <2> QED BY <1>4, <2>1, <2>2
<1>7. ASSUME InsertAsserts(l, area), NEW j \in DOMAIN l
      PROVE  area.end <= l[j].start \/ l[j].end <= area.start
  <2>1. CASE j < i
    <3>1. i > 1 /\ i - 1 \in DOMAIN l /\ l[i - 1].end <= area.start
      BY <1>0, <1>4, <1>5, <1>7, <2>1
    <3>2. CASE j = i - 1
      BY <3>1, <3>2
    <3>3. CASE j < i - 1
      <4>1. l[j].end <= l[i - 1].start /\ l[i - 1].start < l[i - 1].end
        BY <3>1, <3>3 DEF Sorted
      <4> QED BY <1>1, <3>1, <4>1
    <3> QED BY <1>0, <2>1, <3>2, <3>3
  <2>2. CASE ~(j < i)
    <3>1. i <= Len(l) /\ i \in DOMAIN l /\ area.end <= l[i].start
      BY <1>0, <1>4, <1>5, <1>7, <2>2
    <3>2. CASE j = i
      BY <3>1, <3>2
    <3>3. CASE i < j
      <4>1. l[i].end <= l[j].start /\ l[i].start < l[i].end
        BY <3>1, <3>3 DEF Sorted
      <4> QED BY <1>1, <3>1, <4>1
    <3> QED BY <1>0, <2>2, <3>2, <3>3
  <2> QED BY <2>1, <2>2
<1> QED BY <1>6, <1>7 DEF Apart

\* mm_map() takes an area of user memory if it overlaps none, and no other.
LEMMA MapExact ==
  ASSUME NV \in Nat, NEW l, Sorted(l), NEW c, NEW area,
         area.start \in 0 .. NV - 1, area.end \in 1 .. NV, area.start < area.end
  PROVE  MmMap(l, c, area) = "mapped" <=> Apart(l, area)
<1>0. l \in Seq(Areas)
  BY DEF Sorted
<1>1. PICK i : i = FindVma(l, c, area.start)
  OBVIOUS
<1>2. i = 0 \/ (i \in DOMAIN l /\ Covers(l[i], area.start))
  BY <1>0, <1>1, FindFinds
<1>3. i # 0 => ~ Apart(l, area) /\ area.end > l[i].start
  <2> HAVE i # 0
  <2>1. i \in DOMAIN l /\ l[i].start <= area.start /\ area.start < l[i].end
    BY <1>2 DEF Covers
  <2>2. l[i].start \in Int /\ l[i].end \in Int
    BY <1>0, <2>1, AreaType
  <2> QED BY <2>1, <2>2 DEF Apart
<1>4. InsertAsserts(l, area) <=> Apart(l, area)
  BY AssertsAreApart
<1>5. 0 <= area.start /\ area.start < area.end /\ area.end <= NV
  OBVIOUS
<1> QED BY <1>1, <1>3, <1>4, <1>5 DEF MmMap

\* y is s with e put in as element i.
Inserted(s, i, e, y) ==
  /\ Len(y) = Len(s) + 1
  /\ \A j \in 1 .. Len(s) + 1 : y[j] = IF j < i THEN s[j] ELSE IF j = i THEN e ELSE s[j - 1]

\* A sequence with an element put in.
LEMMA InsertIs ==
  ASSUME NEW T, NEW s, s \in Seq(T), NEW i, i \in 1 .. Len(s) + 1, NEW e, e \in T
  PROVE  InsertAt(s, i, e) \in Seq(T) /\ Inserted(s, i, e, InsertAt(s, i, e))
<1>0. Len(s) \in Nat /\ DOMAIN s = 1 .. Len(s)
  OBVIOUS
<1>1. PICK u : u = SubSeq(s, 1, i - 1)
  OBVIOUS
<1>2. u \in Seq(T) /\ Len(u) = i - 1 /\ \A j \in 1 .. i - 1 : u[j] = s[j]
  BY <1>0, <1>1
<1>3. PICK w : w = SubSeq(s, i, Len(s))
  OBVIOUS
<1>4. w \in Seq(T) /\ Len(w) = Len(s) + 1 - i /\ \A j \in 1 .. Len(s) + 1 - i : w[j] = s[i + j - 1]
  BY <1>0, <1>3
<1>5. PICK o : o = <<e>>
  OBVIOUS
<1>6. o \in Seq(T) /\ Len(o) = 1 /\ o[1] = e
  BY <1>5
<1>7. PICK x : x = u \o o
  OBVIOUS
<1>8. /\ x \in Seq(T) /\ Len(x) = i
      /\ \A j \in 1 .. i : x[j] = IF j <= i - 1 THEN u[j] ELSE o[j - (i - 1)]
  <2>1. /\ x \in Seq(T) /\ Len(x) = Len(u) + Len(o)
        /\ \A j \in 1 .. Len(u) + Len(o) : x[j] = IF j <= Len(u) THEN u[j] ELSE o[j - Len(u)]
    BY <1>2, <1>6, <1>7, ConcatProperties, Zenon
  <2>2. Len(u) + Len(o) = i
    BY <1>2, <1>6
  <2> QED BY <1>2, <2>1, <2>2
<1>9. PICK y : y = x \o w
  OBVIOUS
<1>10. /\ y \in Seq(T) /\ Len(y) = Len(s) + 1
       /\ \A j \in 1 .. Len(s) + 1 : y[j] = IF j <= i THEN x[j] ELSE w[j - i]
  <2>1. /\ y \in Seq(T) /\ Len(y) = Len(x) + Len(w)
        /\ \A j \in 1 .. Len(x) + Len(w) : y[j] = IF j <= Len(x) THEN x[j] ELSE w[j - Len(x)]
    BY <1>4, <1>8, <1>9, ConcatProperties, Zenon
  <2>2. Len(x) + Len(w) = Len(s) + 1
    BY <1>0, <1>4, <1>8
  <2> QED BY <1>8, <2>1, <2>2
<1>11. InsertAt(s, i, e) = y
  BY <1>1, <1>3, <1>5, <1>7, <1>9 DEF InsertAt
<1>12. ASSUME NEW j \in 1 .. Len(s) + 1
       PROVE  y[j] = IF j < i THEN s[j] ELSE IF j = i THEN e ELSE s[j - 1]
  <2>1. CASE j < i
    <3>1. j \in 1 .. i - 1 /\ j \in 1 .. i
      BY <2>1
    <3> QED BY <1>2, <1>8, <1>10, <2>1, <3>1, SMTT(30)
  <2>2. CASE j > i
    <3>1. j - i \in 1 .. Len(s) + 1 - i /\ i + (j - i) - 1 = j - 1
      BY <1>0, <2>2
    <3>2. w[j - i] = s[i + (j - i) - 1]
      BY <1>4, <3>1
    <3>3. y[j] = w[j - i]
      BY <1>10, <2>2
    <3> QED BY <2>2, <3>1, <3>2, <3>3
  <2>3. CASE j = i
    <3>1. i \in 1 .. i /\ ~(i <= i - 1) /\ i - (i - 1) = 1
      BY <1>0
    <3> QED BY <1>6, <1>8, <1>10, <2>3, <3>1
  <2> QED BY <2>1, <2>2, <2>3
<1> QED BY <1>10, <1>11, <1>12 DEF Inserted

\* insert_vma_struct() keeps the list in order, with all its areas.
LEMMA InsertSorted ==
  ASSUME NEW l, Sorted(l), NEW area \in Areas, area.start < area.end, Apart(l, area)
  PROVE  /\ Sorted(InsertVma(l, area))
         /\ \A i \in DOMAIN l : \E j \in DOMAIN InsertVma(l, area) : InsertVma(l, area)[j] = l[i]
<1>0. l \in Seq(Areas) /\ Len(l) \in Nat /\ DOMAIN l = 1 .. Len(l)
  BY DEF Sorted
<1>1. area.start \in Int /\ area.end \in Int
  BY DEF Areas
<1>2. PICK i \in 1 .. Len(l) + 1 : i = PlaceOf(l, area)
  BY <1>1, PlaceIs
<1>3. \A j \in DOMAIN l : j < i <=> l[j].start <= area.start
  BY <1>1, <1>2, PlaceIs
<1>4. PICK m : m = InsertVma(l, area)
  OBVIOUS
<1>5. /\ m \in Seq(Areas) /\ Len(m) = Len(l) + 1
      /\ \A j \in 1 .. Len(l) + 1 : m[j] = IF j < i THEN l[j] ELSE IF j = i THEN area ELSE l[j - 1]
  <2>1. InsertAt(l, i, area) \in Seq(Areas) /\ Inserted(l, i, area, InsertAt(l, i, area))
    BY <1>0, InsertIs
  <2>2. m = InsertAt(l, i, area)
    BY <1>2, <1>4 DEF InsertVma
  <2> QED BY <2>1, <2>2 DEF Inserted
<1>6. DOMAIN m = 1 .. Len(l) + 1
  BY <1>5
<1>7. \A j \in DOMAIN l : /\ l[j].start \in Int /\ l[j].end \in Int /\ l[j].start < l[j].end
                          /\ j < i => l[j].end <= area.start
                          /\ ~(j < i) => area.end <= l[j].start
  <2> TAKE j \in DOMAIN l
  <2>1. l[j].start \in Int /\ l[j].end \in Int
    BY <1>0, AreaType
  <2>2. l[j].start < l[j].end
    BY DEF Sorted
  <2> QED BY <1>1, <1>3, <2>1, <2>2 DEF Apart
<1>8. ASSUME NEW j \in DOMAIN m PROVE m[j].start < m[j].end
  <2>1. (j < i => j \in DOMAIN l) /\ (j > i => j - 1 \in DOMAIN l)
    BY <1>0, <1>6
  <2> QED BY <1>5, <1>6, <1>7, <2>1
<1>9. ASSUME NEW j \in DOMAIN m, NEW k \in DOMAIN m, j < k PROVE m[j].end <= m[k].start
  <2>1. /\ j < i => j \in DOMAIN l
        /\ j > i => j - 1 \in DOMAIN l
        /\ k < i => k \in DOMAIN l
        /\ k > i => k - 1 \in DOMAIN l
    BY <1>0, <1>6
  <2>2. \A a, b \in DOMAIN l : a < b => l[a].end <= l[b].start
    BY DEF Sorted
  <2>3. /\ m[j] = IF j < i THEN l[j] ELSE IF j = i THEN area ELSE l[j - 1]
        /\ m[k] = IF k < i THEN l[k] ELSE IF k = i THEN area ELSE l[k - 1]
    BY <1>5, <1>6
  <2>4. j \in Int /\ k \in Int /\ i \in Int
    BY <1>6
  <2>5. CASE k < i
    BY <1>9, <2>1, <2>2, <2>3, <2>4, <2>5
  <2>6. CASE k = i
    BY <1>7, <1>9, <2>1, <2>3, <2>4, <2>6
  <2>7. CASE k > i /\ j < i
    <3>1. j < k - 1
      BY <2>4, <2>7
    <3> QED BY <2>1, <2>2, <2>3, <2>4, <2>7, <3>1
  <2>8. CASE k > i /\ j = i
    <3>1. ~(k - 1 < i)
      BY <2>4, <2>8
    <3> QED BY <1>7, <2>1, <2>3, <2>4, <2>8, <3>1
  <2>9. CASE k > i /\ j > i
    <3>1. j - 1 < k - 1
      BY <1>9, <2>4
    <3> QED BY <2>1, <2>2, <2>3, <2>4, <2>9, <3>1
  <2> QED BY <2>4, <2>5, <2>6, <2>7, <2>8, <2>9
<1>10. Sorted(m)
  BY <1>5, <1>8, <1>9 DEF Sorted
<1>11. ASSUME NEW j \in DOMAIN l PROVE \E k \in DOMAIN m : m[k] = l[j]
  <2>1. CASE j < i
    <3>1. j \in DOMAIN m /\ m[j] = l[j]
      BY <1>0, <1>5, <1>6, <2>1
    <3> QED BY <3>1
  <2>2. CASE ~(j < i)
    <3>1. j + 1 \in DOMAIN m /\ m[j + 1] = l[(j + 1) - 1] /\ (j + 1) - 1 = j
      BY <1>0, <1>5, <1>6, <2>2
    <3> QED BY <3>1
  <2> QED BY <2>1, <2>2
<1> QED BY <1>4, <1>10, <1>11

\* The cache that find_vma() leaves is an area of the list, or what it was.
LEMMA CacheKept ==
  ASSUME NEW l, Sorted(l), NEW c, CacheOf(l, c), NEW a
  PROVE  CacheOf(l, CacheAfter(l, c, a))
<1>0. l \in Seq(Areas)
  BY DEF Sorted
<1>1. PICK i : i = FindVma(l, c, a)
  OBVIOUS
<1>2. CacheAfter(l, c, a) = IF i = 0 THEN c ELSE l[i].start
  BY <1>1 DEF CacheAfter
<1>3. i # 0 => i \in DOMAIN l /\ l[i].start \in Int
  BY <1>0, <1>1, FindFinds, AreaType
<1> QED BY <1>2, <1>3 DEF CacheOf

-----------------------------------------------------------------------------
(* user_mem_check() *)

Wanted(write) == IF write THEN "VM_WRITE" ELSE "VM_READ"

\* The page at a may be used, by area j.
Allows(l, j, a, write) ==
  /\ Covers(l[j], a)
  /\ Wanted(write) \in l[j].flags
  /\ (write /\ "VM_STACK" \in l[j].flags) => a # l[j].start

\* A range is usable when what its first area has of it is, and what is behind that.
LEMMA UsableStep ==
  ASSUME NEW l, Sorted(l), NEW c, NEW a \in Int, NEW hi \in Int, a < hi, NEW write \in BOOLEAN
  PROVE  LET i == FindVma(l, c, a)
         IN  Usable(l, a, hi, write)
               <=> StepPasses(l, i, a, write) /\ Usable(l, l[i].end, hi, write)
<1>0. l \in Seq(Areas)
  BY DEF Sorted
<1>1. PICK i : i = FindVma(l, c, a)
  OBVIOUS
<1>2. \/ i = 0 /\ \A j \in DOMAIN l : ~ Covers(l[j], a)
      \/ i \in DOMAIN l /\ Covers(l[i], a)
  BY <1>0, <1>1, FindFinds
<1>3. \A x, y : Usable(l, x, y, write) <=>
                  \A b \in x .. y - 1 : \E j \in DOMAIN l : Allows(l, j, b, write)
  BY DEF Usable, Allows, Wanted
<1>4. a \in a .. hi - 1
  OBVIOUS
<1>5. CASE i = 0
  <2>1. ~ StepPasses(l, i, a, write)
    BY <1>5 DEF StepPasses
  <2>2. 0 \notin DOMAIN l
    BY <1>0
  <2>3. ~ Usable(l, a, hi, write)
    BY <1>2, <1>3, <1>4, <1>5, <2>2 DEF Allows
  <2> QED BY <1>1, <2>1, <2>3
<1>6. CASE i \in DOMAIN l /\ Covers(l[i], a)
  <2>1. /\ i # 0 /\ l[i].start \in Int /\ l[i].end \in Int
        /\ l[i].start <= a /\ a < l[i].end
    BY <1>0, <1>6, AreaType DEF Covers
  <2>2. StepPasses(l, i, a, write) <=> Allows(l, i, a, write)
    <3>1. StepPasses(l, i, a, write) <=>
            /\ Wanted(write) \in l[i].flags
            /\ ~ (write /\ "VM_STACK" \in l[i].flags /\ a < l[i].start + 1)
      BY <2>1 DEF StepPasses, Wanted
    <3>2. a < l[i].start + 1 <=> a = l[i].start
      BY <2>1
    <3> QED BY <1>6, <3>1, <3>2 DEF Allows
  <2>3. ASSUME Usable(l, a, hi, write)
        PROVE  StepPasses(l, i, a, write) /\ Usable(l, l[i].end, hi, write)
    <3>1. PICK j \in DOMAIN l : Allows(l, j, a, write)
      BY <1>3, <1>4, <2>3
    <3>2. j = i
      BY <1>6, <3>1, OneCovers DEF Allows
    <3>3. \A b \in l[i].end .. hi - 1 : b \in a .. hi - 1
      BY <2>1
    <3>4. Usable(l, l[i].end, hi, write)
      BY <1>3, <2>3, <3>3
    <3> QED BY <2>2, <3>1, <3>2, <3>4
  <2>4. ASSUME StepPasses(l, i, a, write), Usable(l, l[i].end, hi, write)
        PROVE  Usable(l, a, hi, write)
    <3> SUFFICES ASSUME NEW b \in a .. hi - 1
                 PROVE  \E j \in DOMAIN l : Allows(l, j, b, write)
      BY <1>3
    <3>1. CASE b < l[i].end
      <4>1. Covers(l[i], b)
        BY <2>1, <3>1 DEF Covers
      <4>2. Allows(l, i, a, write)
        BY <2>2, <2>4
      <4>3. a # l[i].start => b # l[i].start
        BY <2>1
      <4>4. Allows(l, i, b, write)
        BY <4>1, <4>2, <4>3 DEF Allows
      <4> QED BY <1>6, <4>4
    <3>2. CASE ~(b < l[i].end)
      <4>1. b \in l[i].end .. hi - 1
        BY <2>1, <3>2
      <4> QED BY <1>3, <2>4, <4>1
    <3> QED BY <3>1, <3>2
  <2> QED BY <1>1, <2>3, <2>4
<1> QED BY <1>2, <1>5, <1>6

\* user_mem_check() passes what is usable, and nothing else, whatever the cache is.
LEMMA CheckExact ==
  ASSUME NV \in Nat, NEW l, Sorted(l), NEW c, NEW lo \in Nat, NEW hi \in Int,
         lo < hi, hi <= NV, NEW write \in BOOLEAN
  PROVE  UserMemCheck(l, c, lo, hi, write) <=> Usable(l, lo, hi, write)
<1> DEFINE Pass(f, a) == \/ a >= hi
                         \/ LET i == FindVma(l, c, a)
                            IN  StepPasses(l, i, a, write) /\ f[l[i].end]
           f == CHOOSE p : p = [a \in lo .. NV |-> Pass(p, a)]
           P == [a \in lo .. NV |-> Usable(l, a, hi, write)]
<1>0. l \in Seq(Areas)
  BY DEF Sorted
<1>1. ASSUME NEW a \in lo .. NV, NEW g,
             \A b \in lo .. NV : b > a => (g[b] <=> Usable(l, b, hi, write))
      PROVE  Pass(g, a) <=> Usable(l, a, hi, write)
  <2>1. CASE a >= hi
    <3>1. a .. hi - 1 = {}
      BY <2>1
    <3> QED BY <2>1, <3>1 DEF Usable
  <2>2. CASE ~(a >= hi)
    <3>1. PICK i : i = FindVma(l, c, a)
      OBVIOUS
    <3>2. i = 0 \/ (i \in DOMAIN l /\ Covers(l[i], a))
      BY <1>0, <3>1, FindFinds
    <3>3. Usable(l, a, hi, write)
            <=> StepPasses(l, i, a, write) /\ Usable(l, l[i].end, hi, write)
      BY <2>2, <3>1, UsableStep
    <3>4. StepPasses(l, i, a, write) => i # 0
      BY DEF StepPasses
    <3>5. i # 0 => l[i].end \in lo .. NV /\ l[i].end > a
      BY <1>0, <3>2, AreaType DEF Covers
    <3>6. StepPasses(l, i, a, write) => (g[l[i].end] <=> Usable(l, l[i].end, hi, write))
      BY <1>1, <3>4, <3>5
    <3>7. Pass(g, a) <=> StepPasses(l, i, a, write) /\ g[l[i].end]
      BY <2>2, <3>1
    <3> QED BY <3>3, <3>6, <3>7
  <2> QED BY <2>1, <2>2
<1>2. P = [a \in lo .. NV |-> Pass(P, a)]
  <2>1. \A b \in lo .. NV : P[b] <=> Usable(l, b, hi, write)
    OBVIOUS
  <2>2. \A a \in lo .. NV : Pass(P, a) <=> Usable(l, a, hi, write)
    <3> HIDE DEF P, Pass
    <3> QED BY <1>1, <2>1
  <2>3. \A a \in lo .. NV : Pass(P, a) = Usable(l, a, hi, write)
    <3>1. \A a : Usable(l, a, hi, write) \in BOOLEAN /\ Pass(P, a) \in BOOLEAN
      BY DEF Usable
    <3> HIDE DEF P, Pass
    <3> QED BY <2>2, <3>1
  <2> HIDE DEF Pass
  <2> QED BY <2>3
<1>3. f = [a \in lo .. NV |-> Pass(f, a)]
  <2> HIDE DEF P, Pass
  <2>1. \E p : p = [a \in lo .. NV |-> Pass(p, a)]
    BY <1>2
  <2> QED BY <2>1, Zenon
<1>4. UserMemCheck(l, c, lo, hi, write) <=> lo < hi /\ hi <= NV /\ f[lo]
  BY Zenon DEF UserMemCheck
<1> HIDE DEF f, Pass
<1> DEFINE T == {k \in Nat : NV - k \in lo .. NV
                             /\ ~ (f[NV - k] <=> Usable(l, NV - k, hi, write))}
<1>5. T = {}
  <2> SUFFICES ASSUME T # {} PROVE FALSE
    OBVIOUS
  <2>1. T \in SUBSET Nat
    OBVIOUS
  <2>2. PICK k \in T : \A y \in T : k <= y
    <3> HIDE DEF T
    <3> QED BY <2>1, LeastOf
  <2>3. PICK a \in lo .. NV : a = NV - k
    OBVIOUS
  <2>4. ASSUME NEW b \in lo .. NV, b > a PROVE f[b] <=> Usable(l, b, hi, write)
    <3>1. NV - b \in Nat /\ NV - (NV - b) = b /\ ~(k <= NV - b)
      BY <2>3, <2>4
    <3>2. NV - b \notin T
      <4> HIDE DEF T
      <4> QED BY <2>2, <3>1
    <3> QED BY <3>1, <3>2
  <2>5. Pass(f, a) <=> Usable(l, a, hi, write)
    BY <1>1, <2>4
  <2>6. f[a] = Pass(f, a)
    BY <1>3
  <2>7. ~ (f[a] <=> Usable(l, a, hi, write))
    BY <2>2, <2>3
  <2> QED BY <2>5, <2>6, <2>7
<1>6. f[lo] <=> Usable(l, lo, hi, write)
  <2>1. NV - lo \in Nat /\ NV - (NV - lo) = lo /\ lo \in lo .. NV
    OBVIOUS
  <2>2. NV - lo \notin T
    <3> HIDE DEF T
    <3> QED BY <1>5
  <2> QED BY <2>1, <2>2
<1> QED BY <1>4, <1>6

\* The walk of user_mem_check() leaves an area of the list in the cache, or what was there.
LEMMA CheckKeepsCache ==
  ASSUME NV \in Nat, NEW l, Sorted(l), NEW c, CacheOf(l, c), NEW lo \in Nat, NEW hi \in Int,
         NEW write \in BOOLEAN
  PROVE  CacheOf(l, CacheAfterCheck(l, c, lo, hi, write))
<1> DEFINE GoesOn(i, a) == /\ StepPasses(l, i, a, write) /\ l[i].end < hi
                           /\ FindVma(l, c, l[i].end) # 0
           After(f, a) == LET i == FindVma(l, c, a)
                          IN  IF i = 0 THEN c
                              ELSE IF GoesOn(i, a) THEN f[l[i].end] ELSE l[i].start
           f == CHOOSE p : p = [a \in lo .. NV |-> After(p, a)]
           V == {x \in Int : CacheOf(l, x)}
           n == NV - lo
<1> SUFFICES ASSUME lo < hi, hi <= NV PROVE f[lo] \in V
  <2>1. CacheAfterCheck(l, c, lo, hi, write) = IF lo < hi /\ hi <= NV THEN f[lo] ELSE c
    BY Zenon DEF CacheAfterCheck
  <2> HIDE DEF f
  <2> QED BY <2>1
<1>0. l \in Seq(Areas) /\ n \in Nat
  BY DEF Sorted
<1>1. ASSUME NEW a \in Int, NEW i, i = FindVma(l, c, a), i # 0
      PROVE  /\ l[i].start \in V
             /\ GoesOn(i, a) => l[i].end \in Int /\ l[i].end > a /\ l[i].end <= NV
  <2>1. i \in DOMAIN l /\ Covers(l[i], a)
    BY <1>0, <1>1, FindFinds
  <2>2. l[i].start \in Int /\ l[i].end \in Int
    BY <1>0, <2>1, AreaType
  <2>3. CacheOf(l, l[i].start)
    BY <2>1, <2>2 DEF CacheOf
  <2> QED BY <2>1, <2>2, <2>3 DEF Covers
<1>2. c \in V
  BY DEF CacheOf
<1>3. ASSUME NEW a \in lo .. NV, NEW g, \A b \in lo .. NV : b > a => g[b] \in V
      PROVE  After(g, a) \in V
  <2>1. PICK i : i = FindVma(l, c, a)
    OBVIOUS
  <2> HIDE DEF V, GoesOn
  <2>2. CASE i = 0
    BY <1>2, <2>1, <2>2
  <2>3. CASE i # 0
    <3>1. /\ l[i].start \in V
          /\ GoesOn(i, a) => l[i].end \in lo .. NV /\ l[i].end > a
      BY <1>1, <2>1, <2>3
    <3> QED BY <1>3, <2>1, <2>3, <3>1
  <2> QED BY <2>2, <2>3
<1>4. ASSUME NEW a \in lo .. NV, NEW g, NEW h, \A b \in lo .. NV : b > a => g[b] = h[b]
      PROVE  After(g, a) = After(h, a)
  <2>1. PICK i : i = FindVma(l, c, a)
    OBVIOUS
  <2> HIDE DEF V, GoesOn
  <2>2. CASE i = 0
    BY <2>1, <2>2
  <2>3. CASE i # 0
    <3>1. GoesOn(i, a) => l[i].end \in lo .. NV /\ l[i].end > a
      BY <1>1, <2>1, <2>3
    <3> QED BY <1>4, <2>1, <2>3, <3>1
  <2> QED BY <2>2, <2>3
<1> DEFINE Mirror(h) == [b \in lo .. NV |-> h[NV - b]]
           body == [x \in (0 .. n) \X [0 .. n -> V] |-> After(Mirror(x[2]), NV - x[1])]
<1>5. \E p : p = [a \in lo .. NV |-> After(p, a)]
  <2> HIDE DEF After, V
  <2>1. \A h : \A b \in lo .. NV : Mirror(h)[b] = h[NV - b]
    OBVIOUS
  <2>2. \A b \in lo .. NV : NV - b \in 0 .. n /\ NV - (NV - b) = b
    BY <1>0
  <2>3. \A k \in 0 .. n : NV - k \in lo .. NV /\ NV - (NV - k) = k
    BY <1>0
  <2>4. \A k \in 0 .. n, h \in [0 .. n -> V] : After(Mirror(h), NV - k) \in V
    <3> TAKE k \in 0 .. n, h \in [0 .. n -> V]
    <3>1. \A b \in lo .. NV : Mirror(h)[b] \in V
      BY <2>1, <2>2
    <3> HIDE DEF Mirror
    <3> QED BY <1>3, <2>3, <3>1
  <2>5. body \in [(0 .. n) \X [0 .. n -> V] -> V]
    <3> HIDE DEF Mirror, n
    <3> QED BY <2>4
  <2>6. \A k \in 0 .. n, h \in [0 .. n -> V] : body[<<k, h>>] = After(Mirror(h), NV - k)
    <3> HIDE DEF Mirror, n
    <3> QED OBVIOUS
  <2> HIDE DEF body
  <2>7. LooksBack(V, body, n)
    <3> SUFFICES ASSUME NEW k \in 0 .. n, NEW g \in [0 .. n -> V], NEW h \in [0 .. n -> V],
                        \A b \in 0 .. n : b < k => g[b] = h[b]
                 PROVE  body[<<k, g>>] = body[<<k, h>>]
      BY DEF LooksBack
    <3>1. \A b \in lo .. NV : b > NV - k => Mirror(g)[b] = Mirror(h)[b]
      <4> SUFFICES ASSUME NEW b \in lo .. NV, b > NV - k PROVE g[NV - b] = h[NV - b]
        BY <2>1
      <4>1. NV - b \in 0 .. n /\ NV - b < k
        BY <2>2
      <4> QED BY <4>1
    <3> HIDE DEF Mirror
    <3>2. After(Mirror(g), NV - k) = After(Mirror(h), NV - k)
      BY <1>4, <2>3, <3>1
    <3> QED BY <2>6, <3>2
  <2>8. PICK w : Recursive(V, body, n, w)
    <3> HIDE DEF n
    <3> QED BY <1>0, <1>2, <2>5, <2>7, CourseOfValues
  <2>9. w \in [0 .. n -> V] /\ \A k \in 0 .. n : w[k] = After(Mirror(w), NV - k)
    <3> HIDE DEF Mirror, n
    <3> QED BY <2>6, <2>8 DEF Recursive
  <2>10. \A a \in lo .. NV : w[NV - a] = After(Mirror(w), a)
    <3> HIDE DEF Mirror
    <3> TAKE a \in lo .. NV
    <3>1. NV - a \in 0 .. n /\ NV - (NV - a) = a
      BY <2>2
    <3>2. w[NV - a] = After(Mirror(w), NV - (NV - a))
      <4> HIDE DEF n
      <4> QED BY <2>9, <3>1
    <3> QED BY <3>1, <3>2
  <2>11. Mirror(w) = [a \in lo .. NV |-> After(Mirror(w), a)]
    BY <2>10
  <2> HIDE DEF Mirror
  <2> QED BY <2>11
<1>6. f = [a \in lo .. NV |-> After(f, a)]
  <2> HIDE DEF After
  <2> QED BY <1>5, Zenon
<1> HIDE DEF f, After, V
<1> DEFINE T == {k \in Nat : NV - k \in lo .. NV /\ f[NV - k] \notin V}
<1>7. T = {}
  <2> SUFFICES ASSUME T # {} PROVE FALSE
    OBVIOUS
  <2>1. T \in SUBSET Nat
    OBVIOUS
  <2>2. PICK k \in T : \A y \in T : k <= y
    <3> HIDE DEF T
    <3> QED BY <2>1, LeastOf
  <2>3. PICK a \in lo .. NV : a = NV - k
    OBVIOUS
  <2>4. ASSUME NEW b \in lo .. NV, b > a PROVE f[b] \in V
    <3>1. NV - b \in Nat /\ NV - (NV - b) = b /\ ~(k <= NV - b)
      BY <2>3, <2>4
    <3>2. NV - b \notin T
      <4> HIDE DEF T
      <4> QED BY <2>2, <3>1
    <3> QED BY <3>1, <3>2
  <2>5. After(f, a) \in V
    BY <1>3, <2>4
  <2>6. f[a] = After(f, a)
    BY <1>6
  <2> QED BY <2>2, <2>3, <2>5, <2>6
<1>8. NV - lo \in Nat /\ NV - (NV - lo) = lo /\ lo \in lo .. NV
  BY <1>0
<1>9. NV - lo \notin T
  <2> HIDE DEF T
  <2> QED BY <1>7
<1> QED BY <1>8, <1>9

-----------------------------------------------------------------------------
(* copy_string() *)

\* One page is checked as it is usable, also beyond user memory.
LEMMA PageExact ==
  ASSUME NV \in Nat, NEW l, Sorted(l), NEW c, NEW q \in Nat
  PROVE  UserMemCheck(l, c, q, q + 1, FALSE) <=> Usable(l, q, q + 1, FALSE)
<1>1. CASE q + 1 <= NV
  <2>1. q \in Nat /\ q + 1 \in Int /\ q < q + 1 /\ FALSE \in BOOLEAN
    OBVIOUS
  <2> QED BY <1>1, <2>1, CheckExact
<1>2. CASE ~(q + 1 <= NV)
  <2>1. ~ UserMemCheck(l, c, q, q + 1, FALSE)
    BY <1>2 DEF UserMemCheck
  <2>2. l \in Seq(Areas) /\ q \in q .. (q + 1) - 1
    BY DEF Sorted
  <2>3. \A j \in DOMAIN l : ~ Covers(l[j], q)
    <3> TAKE j \in DOMAIN l
    <3>1. l[j].end \in 1 .. NV
      BY <2>2, AreaType
    <3> QED BY <1>2, <3>1 DEF Covers
  <2> QED BY <2>1, <2>2, <2>3 DEF Usable
<1> QED BY <1>1, <1>2

\* A range is usable when its first page is, and what is behind it.
LEMMA UsableParts ==
  ASSUME NEW l, NEW q \in Int, NEW r \in Int, q < r
  PROVE  Usable(l, q, r, FALSE) <=> Usable(l, q, q + 1, FALSE) /\ Usable(l, q + 1, r, FALSE)
<1>1. \A b : b \in q .. r - 1 <=> b \in q .. (q + 1) - 1 \/ b \in q + 1 .. r - 1
  OBVIOUS
<1> QED BY <1>1 DEF Usable

\* A quotient is known by its bounds.
LEMMA QuotientIs ==
  ASSUME NEW p \in Nat \ {0}, NEW x \in Nat, NEW q \in Int, q * p <= x, x < q * p + p
  PROVE  x \div p = q
OBVIOUS

\* copy_string() copies a string when it fits and all of it may be read.
LEMMA CopyExact ==
  ASSUME NV \in Nat, PB \in Nat \ {0}, NEW l, Sorted(l), NEW c, NEW src \in Nat,
         NEW maxn \in Nat \ {0}, NEW len \in Nat
  PROVE  CopyString(l, c, PB, src, maxn, len) = Copyable(l, PB, src, maxn, len)
<1> DEFINE PartEnd(x) == Min({((x + PB) \div PB) * PB, src + maxn})
           Part(x)    == UserMemCheck(l, c, x \div PB, (PartEnd(x) + PB - 1) \div PB, FALSE)
           Copy(g, x) == /\ Part(x)
                         /\ \/ src + len < PartEnd(x)
                            \/ PartEnd(x) < src + maxn /\ g[PartEnd(x)]
           f     == CHOOSE p : p = [x \in src .. src + maxn |-> Copy(p, x)]
           last  == (src + len) \div PB + 1
           Good(x) == len < maxn /\ Usable(l, x \div PB, last, FALSE)
           Within(x) == x < src + maxn /\ x <= src + len
           P     == [x \in src .. src + maxn |->
                       IF Within(x) THEN Good(x) ELSE Part(x) /\ src + len < PartEnd(x)]
<1>1. ASSUME NEW x \in src .. src + maxn
      PROVE  /\ PartEnd(x) = IF ((x + PB) \div PB) * PB <= src + maxn
                             THEN ((x + PB) \div PB) * PB ELSE src + maxn
             /\ ((x + PB) \div PB) * PB \in Nat /\ PartEnd(x) \in Nat
  <2>1. PICK d \in Nat : d = ((x + PB) \div PB) * PB
    <3>1. (x + PB) \div PB \in Nat
      OBVIOUS
    <3>2. \A a, b \in Nat : a * b \in Nat
      OBVIOUS
    <3> QED BY <3>1, <3>2
  <2> PICK m \in Nat : m = src + maxn
    OBVIOUS
  <2>2. {d, m} \in SUBSET Nat
    OBVIOUS
  <2>3. d <= m => Min({d, m}) = d
    BY <2>2, MinIs, d <= d
  <2>4. m <= d => Min({d, m}) = m
    BY <2>2, MinIs, m <= m
  <2> QED BY <2>1, <2>3, <2>4
<1>2. ASSUME NEW x \in src .. src + maxn, x < src + maxn
      PROVE  /\ PartEnd(x) \in src .. src + maxn /\ x < PartEnd(x)
             /\ (PartEnd(x) + PB - 1) \div PB = x \div PB + 1
             /\ PartEnd(x) < src + maxn => PartEnd(x) \div PB = x \div PB + 1
             /\ \A y \in Nat : x <= y /\ y < PartEnd(x) => y \div PB = x \div PB
             /\ x \div PB \in Nat
  <2>1. PICK q \in Nat : q = x \div PB
    OBVIOUS
  <2>2. q * PB \in Int /\ q * PB <= x /\ x < q * PB + PB
    BY <2>1
  <2>3. (x + PB) \div PB = q + 1 /\ (q + 1) * PB = q * PB + PB
    BY <2>1
  <2> PICK z \in Int : z = q * PB
    BY <2>2
  <2>4. PartEnd(x) = IF z + PB <= src + maxn THEN z + PB ELSE src + maxn
    BY <1>1, <2>3
  <2> HIDE DEF PartEnd
  <2> PICK e \in Int : e = PartEnd(x)
    BY <1>1
  <2>5. x < e /\ e <= z + PB /\ e <= src + maxn /\ (e < src + maxn => e = z + PB)
    BY <1>2, <2>2, <2>4
  <2>6. (e + PB - 1) \div PB = q + 1
    <3>1. z + PB <= e + PB - 1 /\ e + PB - 1 < z + PB + PB
      BY <2>2, <2>5
    <3>2. (q + 1) * PB <= e + PB - 1 /\ e + PB - 1 < (q + 1) * PB + PB
      BY <2>3, <3>1
    <3>3. e + PB - 1 \in Nat /\ q + 1 \in Int
      BY <2>1, <2>2, <2>5
    <3> QED BY <3>2, <3>3, QuotientIs
  <2>7. e < src + maxn => e \div PB = q + 1
    <3> HAVE e < src + maxn
    <3>1. (q + 1) * PB <= e /\ e < (q + 1) * PB + PB
      BY <2>3, <2>5
    <3> QED BY <3>1
  <2>8. ASSUME NEW y \in Nat, x <= y, y < e PROVE y \div PB = q
    <3>1. q * PB <= y /\ y < q * PB + PB
      BY <2>2, <2>5, <2>8
    <3> QED BY <3>1
  <2> QED BY <2>1, <2>5, <2>6, <2>7, <2>8
<1>3. ASSUME NEW x \in src .. src + maxn, Within(x), NEW g,
             \A b \in src .. src + maxn : b > x /\ Within(b) => (g[b] <=> Good(b))
      PROVE  Copy(g, x) <=> Good(x)
  <2>1. x < src + maxn /\ x <= src + len
    BY <1>3
  <2> PICK e \in src .. src + maxn : e = PartEnd(x)
    BY <1>2, <2>1
  <2>2. /\ x < e /\ (e + PB - 1) \div PB = x \div PB + 1
        /\ e < src + maxn => e \div PB = x \div PB + 1
        /\ x \div PB \in Nat
    BY <1>2, <2>1
  <2>3. src + len < e => (src + len) \div PB = x \div PB
    <3>1. src + len \in Nat
      OBVIOUS
    <3> HIDE DEF PartEnd
    <3> QED BY <1>2, <2>1, <3>1
  <2>4. Part(x) <=> Usable(l, x \div PB, x \div PB + 1, FALSE)
    <3>1. Part(x) <=> UserMemCheck(l, c, x \div PB, x \div PB + 1, FALSE)
      BY <2>2
    <3> QED BY <2>2, <3>1, PageExact
  <2>5. Copy(g, x) <=> Part(x) /\ (src + len < e \/ (e < src + maxn /\ g[e]))
    OBVIOUS
  <2> HIDE DEF Copy, Part, PartEnd
  <2>6. CASE src + len < e
    <3>1. len < maxn /\ last = x \div PB + 1
      BY <2>3, <2>6
    <3> QED BY <2>4, <2>5, <2>6, <3>1
  <2>7. CASE ~(src + len < e) /\ ~(e < src + maxn)
    <3>1. ~(len < maxn)
      BY <2>7
    <3> QED BY <2>5, <2>7, <3>1
  <2>8. CASE ~(src + len < e) /\ e < src + maxn
    <3>1. Within(e) /\ e > x
      BY <2>2, <2>8
    <3>2. g[e] <=> Good(e)
      BY <1>3, <3>1
    <3>3. x \div PB < last
      <4> PICK q \in Nat : q = x \div PB
        BY <2>2
      <4>1. e \div PB = q + 1 /\ e <= src + len
        BY <2>2, <2>8
      <4>2. e \div PB <= (src + len) \div PB
        BY <4>1
      <4> QED BY <4>1, <4>2
    <3>4. Usable(l, x \div PB, last, FALSE) <=>
            Usable(l, x \div PB, x \div PB + 1, FALSE) /\ Usable(l, x \div PB + 1, last, FALSE)
      <4>1. last \in Int /\ x \div PB \in Int
        BY <2>2
      <4> HIDE DEF last
      <4> QED BY <3>3, <4>1, UsableParts
    <3>5. e \div PB = x \div PB + 1
      BY <2>2, <2>8
    <3> QED BY <2>4, <2>5, <2>8, <3>2, <3>4, <3>5
  <2> QED BY <2>6, <2>7, <2>8
<1>4. P = [x \in src .. src + maxn |-> Copy(P, x)]
  <2>1. \A b \in src .. src + maxn : Within(b) => (P[b] <=> Good(b))
    OBVIOUS
  <2>2. ASSUME NEW x \in src .. src + maxn PROVE P[x] = Copy(P, x)
    <3>1. CASE Within(x)
      <4>1. P[x] = Good(x)
        BY <3>1
      <4>2. Good(x) \in BOOLEAN /\ Copy(P, x) \in BOOLEAN
        BY DEF Usable
      <4>3. Copy(P, x) <=> Good(x)
        <5> HIDE DEF P, Good, Within, Copy
        <5> QED BY <1>3, <2>1, <3>1
      <4> HIDE DEF P, Good, Within, Copy
      <4> QED BY <4>1, <4>2, <4>3
    <3>2. CASE ~ Within(x)
      <4>1. P[x] = (Part(x) /\ src + len < PartEnd(x))
        BY <3>2
      <4>2. src + len < PartEnd(x) \/ ~(PartEnd(x) < src + maxn)
        <5>1. CASE x < src + maxn
          <6>1. src + len < x /\ x < PartEnd(x) /\ PartEnd(x) \in Int
            BY <1>2, <3>2, <5>1
          <6> HIDE DEF PartEnd
          <6> QED BY <6>1
        <5>2. CASE ~(x < src + maxn)
          <6>1. x = src + maxn /\ (x + PB) \div PB \in Nat
            BY <5>2
          <6>2. ~(((x + PB) \div PB) * PB <= x)
            <7> PICK q \in Nat : q = x \div PB
              OBVIOUS
            <7>1. x < q * PB + PB /\ (x + PB) \div PB = q + 1 /\ q * PB \in Int
              OBVIOUS
            <7>2. (q + 1) * PB = q * PB + PB
              OBVIOUS
            <7> QED BY <7>1, <7>2
          <6> QED BY <1>1, <6>1, <6>2, SMTT(30)
        <5> QED BY <5>1, <5>2
      <4> HIDE DEF P, Part, PartEnd
      <4> QED BY <4>1, <4>2
    <3> QED BY <3>1, <3>2
  <2>3. P = [x \in src .. src + maxn |-> P[x]]
    OBVIOUS
  <2> HIDE DEF P, Copy
  <2> QED BY <2>2, <2>3
<1>5. f = [x \in src .. src + maxn |-> Copy(f, x)]
  <2> HIDE DEF P, Copy
  <2>1. \E p : p = [x \in src .. src + maxn |-> Copy(p, x)]
    BY <1>4
  <2> QED BY <2>1, Zenon
<1>6. CopyString(l, c, PB, src, maxn, len) = f[src]
  BY Zenon DEF CopyString
<1> HIDE DEF f, Copy, Good, Within, Part, PartEnd, P
<1> DEFINE T == {k \in Nat : LET x == src + maxn - k
                             IN  x \in src .. src + maxn /\ Within(x) /\ ~ (f[x] <=> Good(x))}
<1>7. T = {}
  <2> SUFFICES ASSUME T # {} PROVE FALSE
    OBVIOUS
  <2>1. T \in SUBSET Nat
    OBVIOUS
  <2>2. PICK k \in T : \A y \in T : k <= y
    <3> HIDE DEF T
    <3> QED BY <2>1, LeastOf
  <2>3. PICK x \in src .. src + maxn : x = src + maxn - k
    BY <2>2
  <2>4. ASSUME NEW b \in src .. src + maxn, b > x, Within(b) PROVE f[b] <=> Good(b)
    <3>1. /\ src + maxn - b \in Nat /\ src + maxn - (src + maxn - b) = b
          /\ ~(k <= src + maxn - b)
      BY <2>3, <2>4
    <3>2. src + maxn - b \notin T
      <4> HIDE DEF T
      <4> QED BY <2>2, <3>1
    <3> QED BY <2>4, <3>1, <3>2
  <2>5. Within(x) /\ ~ (f[x] <=> Good(x))
    BY <2>2, <2>3
  <2>6. Copy(f, x) <=> Good(x)
    BY <1>3, <2>4, <2>5
  <2>7. f[x] = Copy(f, x)
    BY <1>5
  <2> QED BY <2>5, <2>6, <2>7
<1>8. f[src] <=> Good(src)
  <2>1. maxn \in Nat /\ src + maxn - maxn = src /\ src \in src .. src + maxn
    OBVIOUS
  <2>2. maxn \notin T
    <3> HIDE DEF T
    <3> QED BY <1>7, <2>1
  <2>3. Within(src)
    BY DEF Within
  <2> QED BY <2>1, <2>2, <2>3
<1>9. Copyable(l, PB, src, maxn, len) = Good(src)
  BY DEF Copyable, Good
<1>10. f[src] \in BOOLEAN /\ Good(src) \in BOOLEAN
  <2>1. src \in src .. src + maxn
    OBVIOUS
  <2>2. f[src] = Copy(f, src)
    BY <1>5, <2>1
  <2> QED BY <2>2 DEF Copy, Good, Usable
<1> QED BY <1>6, <1>8, <1>9, <1>10

-----------------------------------------------------------------------------
(* dup_mmap() *)

\* An area can be put into any list.
LEMMA InsertType ==
  ASSUME NEW l \in Seq(Areas), NEW area \in Areas
  PROVE  InsertVma(l, area) \in Seq(Areas)
<1> DEFINE above == {i \in DOMAIN l : l[i].start > area.start}
<1>1. above \in SUBSET Nat /\ DOMAIN l = 1 .. Len(l) /\ Len(l) \in Nat
  OBVIOUS
<1>2. above # {} => Min(above) \in above
  <2> HIDE DEF above
  <2> QED BY <1>1, LeastOf
<1>3. PlaceOf(l, area) = IF above = {} THEN Len(l) + 1 ELSE Min(above)
  BY DEF PlaceOf
<1>4. PlaceOf(l, area) \in 1 .. Len(l) + 1
  BY <1>1, <1>2, <1>3
<1> QED BY <1>4, InsertIs DEF InsertVma

\* The last k areas of l.
Behind(l, k, m) ==
  /\ m \in Seq(Areas) /\ Len(m) = k
  /\ \A j \in 1 .. k : m[j] = l[Len(l) - k + j]

\* The area before the last k goes to their front.
LEMMA InsertFirst ==
  ASSUME NEW l, Sorted(l), NEW k \in 1 .. Len(l), NEW m, Behind(l, k - 1, m)
  PROVE  Behind(l, k, InsertVma(m, l[Len(l) - k + 1]))
<1>0. l \in Seq(Areas) /\ Len(l) \in Nat /\ DOMAIN l = 1 .. Len(l)
  BY DEF Sorted
<1> PICK n \in Nat : n = Len(l)
  BY <1>0
<1>1. /\ m \in Seq(Areas) /\ Len(m) = k - 1 /\ DOMAIN m = 1 .. k - 1
      /\ \A j \in 1 .. k - 1 : m[j] = l[n - (k - 1) + j]
  BY DEF Behind
<1>2. PICK x \in DOMAIN l : x = n - k + 1
  BY <1>0
<1>3. l[x] \in Areas /\ l[x].start \in Int /\ l[x].end \in Int /\ l[x].start < l[x].end
  BY <1>0, AreaType DEF Sorted
<1>4. ASSUME NEW j \in 1 .. k - 1
      PROVE  /\ m[j].start \in Int /\ m[j].start > l[x].start
  <2>1. PICK i \in DOMAIN l : i = n - (k - 1) + j
    BY <1>0
  <2>2. m[j] = l[i] /\ x < i
    BY <1>1, <1>2, <2>1
  <2>3. l[x].end <= l[i].start
    BY <2>2 DEF Sorted
  <2>4. l[i].start \in Int
    BY <1>0, AreaType
  <2> QED BY <1>3, <2>2, <2>3, <2>4
<1>5. PlaceOf(m, l[x]) = 1
  <2> DEFINE above == {i \in DOMAIN m : m[i].start > l[x].start}
  <2>1. above = 1 .. k - 1
    BY <1>1, <1>4
  <2>2. PlaceOf(m, l[x]) = IF above = {} THEN Len(m) + 1 ELSE Min(above)
    BY DEF PlaceOf
  <2>3. CASE k = 1
    <3>1. above = {}
      BY <2>1, <2>3
    <3> HIDE DEF above
    <3> QED BY <1>1, <2>2, <2>3, <3>1
  <2>4. CASE k # 1
    <3>1. above \in SUBSET Nat /\ 1 \in above /\ \A y \in above : 1 <= y
      BY <2>1, <2>4
    <3> HIDE DEF above
    <3>2. Min(above) = 1
      BY <3>1, MinIs
    <3> QED BY <2>2, <3>1, <3>2
  <2> QED BY <2>3, <2>4
<1>y. PICK y : y = InsertAt(m, 1, l[x])
  OBVIOUS
<1>6. /\ y \in Seq(Areas) /\ Len(y) = k
      /\ \A j \in 1 .. k : y[j] = IF j < 1 THEN m[j] ELSE IF j = 1 THEN l[x] ELSE m[j - 1]
  <2>1. 1 \in 1 .. Len(m) + 1 /\ Len(m) + 1 = k
    BY <1>1
  <2>2. m \in Seq(Areas) /\ l[x] \in Areas
    BY <1>1, <1>3
  <2>3. InsertAt(m, 1, l[x]) \in Seq(Areas) /\ Inserted(m, 1, l[x], InsertAt(m, 1, l[x]))
    BY <2>1, <2>2, InsertIs
  <2> QED BY <1>y, <2>1, <2>3 DEF Inserted
<1>7. ASSUME NEW j \in 1 .. k PROVE y[j] = l[n - k + j]
  <2>1. CASE j = 1
    BY <1>2, <1>6, <2>1
  <2>2. CASE j # 1
    <3>1. j - 1 \in 1 .. k - 1 /\ n - (k - 1) + (j - 1) = n - k + j
      BY <2>2
    <3>2. y[j] = m[j - 1]
      BY <1>6, <2>2
    <3> QED BY <1>1, <3>1, <3>2
  <2> QED BY <2>1, <2>2
<1>8. Behind(l, k, y)
  BY <1>6, <1>7 DEF Behind
<1>9. InsertVma(m, l[Len(l) - k + 1]) = y
  BY <1>2, <1>5, <1>y DEF InsertVma
<1> QED BY <1>8, <1>9

\* The child of a fork gets the list as it is.
LEMMA DuplicateSame ==
  ASSUME NEW l, Sorted(l)
  PROVE  FoldLeft(InsertVma, <<>>, Reverse(l)) = l
<1>0. l \in Seq(Areas) /\ Len(l) \in Nat /\ DOMAIN l = 1 .. Len(l)
  BY DEF Sorted
<1> PICK n \in Nat : n = Len(l)
  BY <1>0
<1> PICK w : w = Reverse(l)
  OBVIOUS
<1>1. DOMAIN w = 1 .. n /\ \A k \in 1 .. n : w[k] = l[n - k + 1] /\ w[k] \in Areas
  <2>1. w = [k \in 1 .. n |-> l[(n - k) + 1]]
    BY DEF Reverse
  <2>2. \A k \in 1 .. n : n - k + 1 \in DOMAIN l
    BY <1>0
  <2> QED BY <1>0, <2>1, <2>2
<1> DEFINE Turn(it, s) == IF s = {} THEN <<>>
                          ELSE LET x == Max(s) IN InsertVma(it[s \ {x}], w[x])
           f == CHOOSE it : it = [s \in SUBSET (1 .. n) |-> Turn(it, s)]
           V == Seq(Areas)
           Put(k, v) == IF k \in 1 .. n THEN InsertVma(v, w[k]) ELSE v
           step == [a \in Nat \X V |-> Put(a[1], a[2])]
<1>2. FoldLeft(InsertVma, <<>>, w) = f[1 .. n]
  <2>1. FoldLeft(InsertVma, <<>>, w)
          = LET it[s \in SUBSET DOMAIN w] ==
                  IF s = {} THEN <<>> ELSE LET x == Max(s) IN InsertVma(it[s \ {x}], w[x])
            IN  it[DOMAIN w]
    BY Zenon DEF FoldLeft, MapThenFoldSet
  <2> QED BY <1>1, <2>1, Zenon
<1>3. \A s \in SUBSET (1 .. n) : s # {} => Max(s) \in s /\ \A y \in s : y <= Max(s)
  <2>1. \A s \in SUBSET (1 .. n) : s \in SUBSET (0 .. n)
    OBVIOUS
  <2> QED BY <2>1, GreatestOf
<1>4. step \in [Nat \X V -> V]
  <2>1. \A k \in Nat, v \in V : Put(k, v) \in V
    BY <1>1, InsertType
  <2> HIDE DEF Put, V
  <2> QED BY <2>1
<1>5. <<>> \in V
  OBVIOUS
<1>6. \A k \in 1 .. n, v \in V : step[<<k, v>>] = InsertVma(v, w[k])
  <2>1. \A k \in 1 .. n, v \in V : step[<<k, v>>] = Put(k, v)
    <3> HIDE DEF Put, V
    <3> QED OBVIOUS
  <2> QED BY <2>1
<1> HIDE DEF step, V
<1>7. PICK it : Folds(V, step, <<>>, n, it)
  BY <1>4, <1>5, FoldExists
<1>8. it = [s \in SUBSET (1 .. n) |-> Turn(it, s)]
  <2>1. it \in [SUBSET (1 .. n) -> V] /\ it[{}] = <<>>
    BY <1>7 DEF Folds
  <2>2. ASSUME NEW s \in SUBSET (1 .. n) PROVE it[s] = Turn(it, s)
    <3>1. CASE s = {}
      BY <2>1, <3>1
    <3>2. CASE s # {}
      <4>1. PICK x \in s : x = Max(s)
        BY <1>3, <3>2
      <4>2. \A y \in s : y <= x
        BY <1>3, <4>1
      <4>3. it[s] = step[<<x, it[s \ {x}]>>]
        BY <1>7, <4>2 DEF Folds
      <4>4. s \ {x} \in SUBSET (1 .. n) /\ x \in 1 .. n
        OBVIOUS
      <4>5. it[s] = InsertVma(it[s \ {x}], w[x])
        BY <1>6, <2>1, <4>3, <4>4
      <4> QED BY <3>2, <4>1, <4>5
    <3> QED BY <3>1, <3>2
  <2> HIDE DEF Turn
  <2> QED BY <2>1, <2>2
<1>9. f = [s \in SUBSET (1 .. n) |-> Turn(f, s)]
  <2> HIDE DEF Turn
  <2>1. \E g : g = [s \in SUBSET (1 .. n) |-> Turn(g, s)]
    BY <1>8
  <2> QED BY <2>1, Zenon
<1> HIDE DEF f
<1>10. f[{}] = <<>>
  <2>1. f[{}] = Turn(f, {})
    <3> HIDE DEF Turn
    <3> QED BY <1>9
  <2> QED BY <2>1
<1> DEFINE Q == {k \in 0 .. n : Behind(l, k, f[1 .. k])}
<1>11. 0 \in Q
  <2>1. 1 .. 0 = {}
    OBVIOUS
  <2>2. <<>> \in Seq(Areas) /\ Len(<<>>) = 0 /\ \A j \in 1 .. 0 : FALSE
    OBVIOUS
  <2>3. Behind(l, 0, f[1 .. 0])
    BY <1>10, <2>1, <2>2 DEF Behind
  <2> QED BY <2>3
<1>12. ASSUME NEW k \in 1 .. n, k - 1 \in Q PROVE k \in Q
  <2>1. Max(1 .. k) = k /\ 1 .. k # {}
    <3>1. 1 .. k \in SUBSET (1 .. n) /\ k \in 1 .. k
      OBVIOUS
    <3>2. Max(1 .. k) \in 1 .. k /\ \A y \in 1 .. k : y <= Max(1 .. k)
      BY <1>3, <3>1
    <3>3. k <= Max(1 .. k)
      BY <3>1, <3>2
    <3> QED BY <3>1, <3>2, <3>3
  <2>2. (1 .. k) \ {k} = 1 .. k - 1
    OBVIOUS
  <2>3. f[1 .. k] = Turn(f, 1 .. k)
    <3>1. 1 .. k \in SUBSET (1 .. n)
      OBVIOUS
    <3> HIDE DEF Turn
    <3> QED BY <1>9, <3>1
  <2>4. f[1 .. k] = InsertVma(f[1 .. k - 1], l[n - k + 1])
    BY <1>1, <2>1, <2>2, <2>3
  <2>5. Behind(l, k - 1, f[1 .. k - 1])
    BY <1>12
  <2>6. Behind(l, k, f[1 .. k])
    BY <2>4, <2>5, InsertFirst
  <2> QED BY <2>6
<1>13. n \in Q
  <2> HIDE DEF Q
  <2>1. \A k \in 0 .. n : k \in Q
    BY <1>11, <1>12, EveryRound
  <2> QED BY <2>1
<1>14. PICK y : y = f[1 .. n]
  OBVIOUS
<1>15. y \in Seq(Areas) /\ Len(y) = n /\ \A j \in 1 .. n : y[j] = l[j]
  <2>1. \A j \in 1 .. n : n - n + j = j
    OBVIOUS
  <2> QED BY <1>13, <1>14, <2>1 DEF Behind
<1>16. y = l
  BY <1>0, <1>15
<1> QED BY <1>2, <1>14, <1>16

-----------------------------------------------------------------------------
(* The calls. *)

\* What holds of mmap_list and mmap_cache between calls.
ListInv == Sorted(areas) /\ CacheOf(areas, cache)

\* mm_map() keeps the list in order.
LEMMA MapKeeps ==
  ASSUME ConstantsOK, ListInv, NEW area \in Requests, Map(area)
  PROVE  ListInv'
<1>1. Sorted(areas) /\ CacheOf(areas, cache)
  BY DEF ListInv
<1>2. PICK c : c = CacheAfter(areas, cache, area.start)
  OBVIOUS
<1>3. CacheOf(areas, c) /\ cache' = c
  BY <1>1, <1>2, CacheKept DEF Map
<1>4. CASE MmMap(areas, cache, area) # "mapped"
  <2>1. areas' = areas
    BY <1>4 DEF Map
  <2> QED BY <1>1, <1>3, <2>1 DEF ListInv
<1>5. CASE MmMap(areas, cache, area) = "mapped"
  <2>1. /\ area \in Areas /\ area.start \in 0 .. NV - 1 /\ area.end \in 1 .. NV
        /\ area.start < area.end /\ NV \in Nat
    BY DEF Requests, Areas, ConstantsOK
  <2>2. Apart(areas, area)
    BY <1>1, <1>5, <2>1, MapExact
  <2>3. PICK m : m = InsertVma(areas, area)
    OBVIOUS
  <2>4. /\ Sorted(m)
        /\ \A i \in DOMAIN areas : \E j \in DOMAIN m : m[j] = areas[i]
    BY <1>1, <2>1, <2>2, <2>3, InsertSorted
  <2>5. areas' = m
    BY <1>5, <2>3 DEF Map
  <2>6. CacheOf(m, c)
    BY <1>3, <2>4 DEF CacheOf
  <2> QED BY <1>3, <2>4, <2>5, <2>6 DEF ListInv
<1> QED BY <1>4, <1>5

\* Every call keeps it.
LEMMA CallKeeps ==
  ASSUME ConstantsOK, ListInv, [Next]_vars
  PROVE  ListInv'
<1>1. Sorted(areas) /\ CacheOf(areas, cache) /\ NV \in Nat
  BY DEF ListInv, ConstantsOK
<1>2. ASSUME NEW area \in Requests, Map(area) PROVE ListInv'
  BY <1>2, MapKeeps
<1>3. ASSUME NEW a \in 0 .. NV - 1, Lookup(a) PROVE ListInv'
  BY <1>1, <1>3, CacheKept DEF Lookup, ListInv
<1>4. ASSUME NEW lo \in 0 .. NV - 1, NEW hi \in 1 .. NV, NEW write \in BOOLEAN,
             Check(lo, hi, write)
      PROVE  ListInv'
  <2>1. lo \in Nat /\ hi \in Int
    BY <1>1
  <2>2. CacheOf(areas, CacheAfterCheck(areas, cache, lo, hi, write))
    BY <1>1, <2>1, CheckKeepsCache
  <2> QED BY <1>1, <1>4, <2>2 DEF Check, ListInv
<1>5. CASE Duplicate
  <2>1. areas' = areas /\ cache' = NoArea
    BY <1>1, <1>5, DuplicateSame DEF Duplicate
  <2>2. CacheOf(areas, NoArea)
    BY DEF CacheOf, NoArea
  <2> QED BY <1>1, <2>1, <2>2 DEF ListInv
<1>6. CASE UNCHANGED vars
  BY <1>1, <1>6 DEF vars, ListInv
<1> QED BY <1>2, <1>3, <1>4, <1>5, <1>6 DEF Next

\* A process has no area at first.
LEMMA StartsSorted == Init => ListInv
<1> SUFFICES ASSUME Init PROVE ListInv
  OBVIOUS
<1>1. areas = <<>> /\ cache = NoArea
  BY DEF Init
<1>2. <<>> \in Seq(Areas) /\ DOMAIN <<>> = {}
  OBVIOUS
<1>3. Sorted(areas)
  BY <1>1, <1>2 DEF Sorted
<1>4. CacheOf(areas, cache)
  BY <1>1 DEF CacheOf, NoArea
<1> QED BY <1>3, <1>4 DEF ListInv

\* What is promised of the calls follows.
LEMMA ListInvExact ==
  ASSUME ConstantsOK, ListInv
  PROVE  LookupsExact
<1>1. /\ Sorted(areas) /\ CacheOf(areas, cache) /\ areas \in Seq(Areas)
      /\ NV \in Nat /\ PB \in Nat \ {0} /\ MaxCopy \in Nat
  BY DEF ListInv, Sorted, ConstantsOK
<1>2. AreasSorted(areas, cache)
  BY <1>1 DEF AreasSorted, Sorted, CacheOf
<1>3. ASSUME NEW a \in 0 .. NV - 1
      PROVE  LET i == FindVma(areas, cache, a)
             IN  IF i = 0 THEN \A j \in DOMAIN areas : ~ Covers(areas[j], a)
                 ELSE Covers(areas[i], a)
  <2>1. 0 \notin DOMAIN areas
    BY <1>1
  <2> QED BY <1>1, <2>1, FindFinds
<1>4. ASSUME NEW area \in Requests
      PROVE  (MmMap(areas, cache, area) = "mapped")
               = (\A j \in DOMAIN areas :
                    area.end <= areas[j].start \/ areas[j].end <= area.start)
  <2>1. /\ area.start \in 0 .. NV - 1 /\ area.end \in 1 .. NV /\ area.start < area.end
    BY DEF Requests
  <2>2. MmMap(areas, cache, area) = "mapped" <=> Apart(areas, area)
    BY <1>1, <2>1, MapExact
  <2> QED BY <2>2 DEF Apart
<1>5. ASSUME NEW lo \in 0 .. NV - 1, NEW write \in BOOLEAN, NEW hi \in lo + 1 .. NV
      PROVE  UserMemCheck(areas, cache, lo, hi, write) = Usable(areas, lo, hi, write)
  <2>1. lo \in Nat /\ hi \in Int /\ lo < hi /\ hi <= NV
    BY <1>1
  <2>2. UserMemCheck(areas, cache, lo, hi, write) <=> Usable(areas, lo, hi, write)
    BY <1>1, <2>1, CheckExact
  <2>3. /\ UserMemCheck(areas, cache, lo, hi, write) \in BOOLEAN
        /\ Usable(areas, lo, hi, write) \in BOOLEAN
    BY DEF UserMemCheck, Usable
  <2> QED BY <2>2, <2>3
<1>6. ASSUME NEW src \in 0 .. NV * PB - 1, NEW maxn \in 1 .. MaxCopy, NEW len \in 0 .. MaxCopy
      PROVE  CopyString(areas, cache, PB, src, maxn, len) = Copyable(areas, PB, src, maxn, len)
  <2>1. src \in Nat /\ maxn \in Nat \ {0} /\ len \in Nat
    <3>1. NV * PB \in Int
      BY <1>1
    <3> QED BY <1>1, <3>1
  <2> QED BY <1>1, <2>1, CopyExact
<1> QED BY <1>2, <1>3, <1>4, <1>5, <1>6 DEF LookupsExact

\* The list of areas stays sorted, and what is looked up, mapped, checked and copied is
\* what its areas say, whatever mmap_cache holds (vmm.c).
THEOREM LookupsHold == ASSUME ConstantsOK PROVE Spec => []LookupsExact
<1>1. ListInv => LookupsExact
  BY ListInvExact
<1> QED BY <1>1, StartsSorted, CallKeeps, PTL DEF Spec

-----------------------------------------------------------------------------
(* sysfile_read() and sysfile_write() *)

\* What of the module SysFile is about the areas alone is the same there.
LEMMA SameCheck ==
  ASSUME NEW l, NEW c, NEW lo, NEW hi, NEW write
  PROVE  /\ Io!UserMemCheck(l, c, lo, hi, write) <=> UserMemCheck(l, c, lo, hi, write)
         /\ Io!Usable(l, lo, hi, write) <=> Usable(l, lo, hi, write)
         /\ Io!NoArea = NoArea
  BY Zenon DEF Io!UserMemCheck, UserMemCheck, Io!StepPasses, StepPasses, Io!FindVma, FindVma,
     Io!Covers, Covers, Io!Min, Min, Io!Usable, Usable, Io!NoArea, NoArea

\* So is the type of areas, and when they are sorted.
LEMMA SameAreas ==
  /\ Io!Areas = Areas
  /\ \A l, c : Io!AreasSorted(l, c) <=> AreasSorted(l, c)
  BY Zenon DEF Io!Areas, Areas, Io!Flags, Flags, Io!AreasSorted, AreasSorted, Io!NoArea, NoArea

\* The lesser and the greater of two numbers.
LEMMA TwoMin ==
  ASSUME NEW a \in Int, NEW b \in Int
  PROVE  /\ Io!Min({a, b}) = IF a <= b THEN a ELSE b
         /\ Io!Max({a, b}) = IF a <= b THEN b ELSE a
  BY DEF Io!Min, Io!Max

\* A range of bytes can be reached when all of its pages may be used.
LEMMA ReachesExact ==
  ASSUME Io!ConstantsOK, layout \in Layouts, NEW lo \in Nat, NEW n \in Nat \ {0},
         NEW write \in BOOLEAN
  PROVE  Io!Reaches(lo, n, write) <=>
           /\ lo + n <= NV * PB
           /\ Io!Usable(layout, lo \div PB, (lo + n + PB - 1) \div PB, write)
<1>1. NV \in Nat \ {0} /\ PB \in Nat \ {0}
  BY DEF Io!ConstantsOK
<1>2. Sorted(layout)
  BY SameAreas DEF Io!ConstantsOK, Sorted, AreasSorted
<1> PICK d \in Nat : d = lo \div PB
  BY <1>1
<1> PICK h \in Nat : h = (lo + n + PB - 1) \div PB
  BY <1>1
<1>3. d * PB <= lo /\ lo < d * PB + PB /\ d * PB \in Int
  BY <1>1
<1>4. h * PB <= lo + n + PB - 1 /\ lo + n + PB - 1 < h * PB + PB /\ h * PB \in Int
  BY <1>1
<1>5. \A x, y \in Nat : x <= y => x * PB <= y * PB
  BY <1>1
<1>6. /\ (d + 1) * PB = d * PB + PB /\ (NV + 1) * PB = NV * PB + PB
      /\ NV * PB \in Int /\ d + 1 \in Nat /\ NV + 1 \in Nat /\ PB \in Int
  BY <1>1
<1>7. d < h
  <2> SUFFICES ASSUME h <= d PROVE FALSE
    OBVIOUS
  <2>1. h * PB <= d * PB
    BY <1>5
  <2> QED BY <2>1, <1>3, <1>4, <1>6
<1>8. h <= NV <=> lo + n <= NV * PB
  <2>1. CASE h <= NV
    <3>1. h * PB <= NV * PB
      BY <1>1, <1>5, <2>1
    <3> QED BY <2>1, <3>1, <1>4, <1>6
  <2>2. CASE ~ (h <= NV)
    <3>1. NV + 1 <= h
      BY <1>1, <2>2
    <3>2. (NV + 1) * PB <= h * PB
      BY <1>5, <1>6, <3>1
    <3> QED BY <2>2, <3>2, <1>4, <1>6
  <2> QED BY <2>1, <2>2
<1>9. Io!Reaches(lo, n, write) <=> UserMemCheck(layout, NoArea, d, h, write)
  BY SameCheck DEF Io!Reaches
<1>10. CASE h <= NV
  <2>1. UserMemCheck(layout, NoArea, d, h, write) <=> Usable(layout, d, h, write)
    BY <1>1, <1>2, <1>7, <1>10, CheckExact
  <2> QED BY <1>8, <1>9, <1>10, <2>1, SameCheck
<1>11. CASE ~ (h <= NV)
  <2>1. ~ UserMemCheck(layout, NoArea, d, h, write)
    BY <1>11 DEF UserMemCheck
  <2> QED BY <1>8, <1>9, <1>11, <2>1
<1> QED BY <1>10, <1>11

\* A call that is under way or over, and the numbers of its record.
IoCall ==
  [at : {"read", "copy", "write", "back"}, op : {"read", "write"}, base : Nat, len : Nat,
   copied : Nat, ret : {"ok", "failed", "inval"}, piece : Nat, from : Nat, clean : BOOLEAN]

\* The user's memory does not let n bytes be moved from where the call is.
Refuses(n, write) ==
  ~ Io!Usable(layout, Io!Target \div PB, (Io!Target + n + PB - 1) \div PB, write)
    \/ Io!Target + n > NV * PB

ReadRefused == Refuses(call.piece, TRUE)
WriteRefused == Refuses(Io!Request, FALSE)

\* The user's buffer holds the first bytes that were read and nothing else has changed.
Filled ==
  \A a \in Io!Addresses :
    mem[a] = IF call.base <= a /\ a < call.base + call.copied
             THEN given[a - call.base + 1] ELSE Io!Fresh(a)

\* The file holds what was written, and what it held elsewhere.
Stored ==
  \A k \in DOMAIN file :
    file[k] = IF k \in call.from + 1 .. pos THEN mem[call.base + k - call.from - 1] ELSE k

\* What a read has done so far.
Reading ==
  /\ call.op = "read" /\ call.at # "write"
  /\ pos = call.from + Len(given) /\ call.copied <= call.len
  /\ call.at = "read" => Len(given) = call.copied /\ call.copied < call.len
  /\ call.at = "copy" =>
       /\ Len(given) = call.copied + call.piece /\ call.copied + call.piece <= call.len
       /\ call.piece \in 1 .. IoBuf
       /\ call.ret = "ok" \/ (call.ret = "failed" /\ ~ call.clean)
  /\ call.at = "back" =>
       \/ /\ Len(given) = call.copied
          /\ call.clean /\ call.copied < call.len => pos >= Len(file)
       \/ /\ Len(given) = call.copied + call.piece /\ call.piece \in 1 .. IoBuf
          /\ ReadRefused

\* What a write has done so far.
Writing ==
  /\ call.op = "write" /\ call.at \in {"write", "back"}
  /\ pos = call.from + call.copied /\ pos <= Len(file) /\ call.copied <= call.len
  /\ call.at = "write" => call.copied < call.len
  /\ call.at = "back" /\ call.clean /\ call.copied < call.len => WriteRefused

IoInv ==
  /\ layout \in Layouts /\ file \in Seq(Nat) /\ given \in Seq(Nat) /\ pos \in Nat
  /\ mem \in [Io!Addresses -> Nat]
  /\ \/ /\ call = Io!NoCall /\ given = <<>> /\ pos <= Len(file)
        /\ \A k \in DOMAIN file : file[k] = k
        /\ \A a \in Io!Addresses : mem[a] = Io!Fresh(a)
     \/ call \in IoCall /\ Reading /\ Filled
     \/ call \in IoCall /\ Writing /\ Stored

\* No call has begun.
LEMMA IoStarts == Io!ConstantsOK /\ Io!Init => IoInv
<1> SUFFICES ASSUME Io!ConstantsOK, Io!Init PROVE IoInv
  OBVIOUS
<1>1. FileLen \in Nat /\ NV * PB \in Int
  BY DEF Io!ConstantsOK
<1>2. file \in Seq(Nat) /\ Len(file) = FileLen /\ \A k \in DOMAIN file : file[k] = k
  BY <1>1 DEF Io!Init
<1>3. mem \in [Io!Addresses -> Nat] /\ \A a \in Io!Addresses : mem[a] = Io!Fresh(a)
  BY <1>1 DEF Io!Init, Io!Fresh, Io!Addresses
<1>4. layout \in Layouts /\ given = <<>> /\ pos \in 0 .. FileLen /\ call = Io!NoCall
  BY DEF Io!Init
<1>5. pos \in Nat /\ pos <= Len(file) /\ given \in Seq(Nat)
  BY <1>1, <1>2, <1>4
<1> QED BY <1>2, <1>3, <1>4, <1>5 DEF IoInv

\* A call begins.
LEMMA IoBegins ==
  ASSUME Io!ConstantsOK, IoInv, NEW op \in {"read", "write"}, NEW base \in Io!Addresses,
         NEW len \in Lengths, Io!Begin(op, base, len)
  PROVE  IoInv'
<1>1. len \in Nat \ {0} /\ base \in Nat
  BY DEF Io!ConstantsOK, Io!Addresses
<1>2. call.at = "user" /\ UNCHANGED <<layout, file, pos, mem, given>>
  BY DEF Io!Begin
<1>3. call' = [at |-> op, op |-> op, base |-> base, len |-> len, copied |-> 0, ret |-> "ok",
               piece |-> 0, from |-> pos, clean |-> TRUE]
  BY DEF Io!Begin
<1>4. /\ layout \in Layouts /\ file \in Seq(Nat) /\ pos \in Nat
      /\ mem \in [Io!Addresses -> Nat]
      /\ given = <<>> /\ pos <= Len(file)
      /\ \A k \in DOMAIN file : file[k] = k
      /\ \A a \in Io!Addresses : mem[a] = Io!Fresh(a)
  BY <1>2 DEF IoInv, IoCall
<1>5. call' \in IoCall
  BY <1>1, <1>3, <1>4 DEF IoCall
<1>6. given' \in Seq(Nat) /\ Len(given') = 0
  BY <1>2, <1>4
<1>7. CASE op = "read"
  <2>1. Reading'
    BY <1>1, <1>2, <1>3, <1>4, <1>6, <1>7 DEF Reading
  <2>2. Filled'
    BY <1>1, <1>2, <1>3, <1>4 DEF Filled, Io!Addresses, Io!Fresh
  <2> QED BY <1>2, <1>4, <1>5, <1>6, <2>1, <2>2 DEF IoInv
<1>8. CASE op = "write"
  <2>1. Writing'
    BY <1>1, <1>2, <1>3, <1>4, <1>8 DEF Writing
  <2>2. Stored'
    BY <1>1, <1>2, <1>3, <1>4 DEF Stored
  <2> QED BY <1>2, <1>4, <1>5, <1>6, <2>1, <2>2 DEF IoInv
<1> QED BY <1>7, <1>8

\* Others change the file while a read goes on.
LEMMA IoOther ==
  ASSUME Io!ConstantsOK, IoInv, Io!Other
  PROVE  IoInv'
<1>1. call.at \in {"read", "copy"} /\ UNCHANGED <<layout, pos, mem, given>>
  BY DEF Io!Other
<1>2. /\ layout \in Layouts /\ file \in Seq(Nat) /\ given \in Seq(Nat) /\ pos \in Nat
      /\ mem \in [Io!Addresses -> Nat] /\ call \in IoCall /\ Reading /\ Filled
  <2>1. call # Io!NoCall
    BY <1>1 DEF Io!NoCall
  <2>2. Writing => call.at \in {"write", "back"}
    BY DEF Writing
  <2>3. ~ Writing
    BY <1>1, <2>2
  <2> QED BY <2>1, <2>3 DEF IoInv
<1>3. /\ call' = [call EXCEPT !.clean = FALSE] /\ call' \in IoCall
  BY <1>2 DEF Io!Other, IoCall
<1>4. file' \in Seq(Nat)
  <2>1. ASSUME NEW n \in 0 .. Len(file) - 1, file' = SubSeq(file, 1, n) PROVE file' \in Seq(Nat)
    BY <1>2, <2>1
  <2>2. ASSUME NEW k \in DOMAIN file, file' = [file EXCEPT ![k] = 0] PROVE file' \in Seq(Nat)
    BY <1>2, <2>2
  <2> QED BY <2>1, <2>2 DEF Io!Other
<1>5. Reading' /\ Filled'
  BY <1>1, <1>2, <1>3 DEF Reading, Filled, IoCall, Io!Fresh
<1> QED BY <1>1, <1>2, <1>3, <1>4, <1>5 DEF IoInv

\* What comes next is what was to be asked for, at the address that is reached.
LEMMA RequestIs ==
  ASSUME Io!ConstantsOK, call \in IoCall, call.copied < call.len
  PROVE  /\ Io!Request \in Nat \ {0} /\ Io!Request <= IoBuf
         /\ Io!Request <= call.len - call.copied
         /\ Io!Target = call.base + call.copied /\ Io!Target \in Nat
<1>1. IoBuf \in Nat \ {0} /\ call.len \in Nat /\ call.copied \in Nat /\ call.base \in Nat
  BY DEF Io!ConstantsOK, IoCall
<1>2. call.len - call.copied \in Int
  BY <1>1
<1>3. Io!Request = IF IoBuf <= call.len - call.copied THEN IoBuf ELSE call.len - call.copied
  BY <1>1, <1>2, TwoMin DEF Io!Request
<1> QED BY <1>1, <1>3 DEF Io!Target

\* file_read() of a piece.
LEMMA IoReadPiece ==
  ASSUME Io!ConstantsOK, IoInv, Io!ReadPiece
  PROVE  IoInv'
<1>1. call.at = "read" /\ UNCHANGED <<layout, file, mem>>
  BY DEF Io!ReadPiece
<1>2. /\ layout \in Layouts /\ file \in Seq(Nat) /\ given \in Seq(Nat) /\ pos \in Nat
      /\ mem \in [Io!Addresses -> Nat] /\ call \in IoCall /\ Reading /\ Filled
  <2>1. call # Io!NoCall
    BY <1>1 DEF Io!NoCall
  <2>2. Writing => call.at \in {"write", "back"}
    BY DEF Writing
  <2>3. ~ Writing
    BY <1>1, <2>2
  <2> QED BY <2>1, <2>3 DEF IoInv
<1>3. /\ call.op = "read" /\ pos = call.from + Len(given) /\ Len(given) = call.copied
      /\ call.copied < call.len
  BY <1>1, <1>2 DEF Reading
<1> DEFINE left  == Len(file) - pos
           there == Io!Max({0, Io!Min({Io!Request, left})})
<1>4. /\ Io!Request \in Nat \ {0} /\ Io!Request <= IoBuf
      /\ Io!Request <= call.len - call.copied
  BY <1>2, <1>3, RequestIs
<1>5. /\ there \in Nat /\ there <= Io!Request
      /\ there <= left \/ there = 0
      /\ there = 0 => left <= 0
  <2>1. left \in Int /\ Len(file) \in Nat
    BY <1>2
  <2> HIDE DEF left
  <2>2. Io!Min({Io!Request, left}) = IF Io!Request <= left THEN Io!Request ELSE left
    BY <1>4, <2>1, TwoMin
  <2>3. Io!Min({Io!Request, left}) \in Int
    BY <1>4, <2>1, <2>2
  <2>4. \A m \in Int : Io!Max({0, m}) = IF 0 <= m THEN m ELSE 0
    BY TwoMin
  <2>5. there = IF 0 <= Io!Min({Io!Request, left}) THEN Io!Min({Io!Request, left}) ELSE 0
    BY <2>3, <2>4
  <2> HIDE DEF there
  <2> QED BY <1>4, <2>1, <2>2, <2>3, <2>5
<1>6. PICK n \in 0 .. there, failed \in BOOLEAN :
        /\ ~ failed => n = there
        /\ given' = given \o SubSeq(file, pos + 1, pos + n)
        /\ pos' = pos + n
        /\ \E c \in {[call EXCEPT !.piece = n, !.clean = @ /\ ~ failed,
                                  !.ret = IF failed THEN "failed" ELSE "ok"]} :
             call' = [c EXCEPT !.at = IF n = 0 THEN "back" ELSE "copy"]
  BY Zenon DEF Io!ReadPiece
<1> HIDE DEF there
<1>7. n \in Nat /\ n <= there
  BY <1>5, <1>6
<1>8. /\ call'.at = (IF n = 0 THEN "back" ELSE "copy") /\ call'.op = "read"
      /\ call'.base = call.base /\ call'.len = call.len /\ call'.copied = call.copied
      /\ call'.from = call.from /\ call'.piece = n
      /\ call'.clean = (call.clean /\ ~ failed)
      /\ call'.ret = (IF failed THEN "failed" ELSE "ok")
      /\ call' \in IoCall
  <2>1. PICK c : /\ c = [call EXCEPT !.piece = n, !.clean = @ /\ ~ failed,
                                     !.ret = IF failed THEN "failed" ELSE "ok"]
                 /\ call' = [c EXCEPT !.at = IF n = 0 THEN "back" ELSE "copy"]
    BY <1>6
  <2>2. /\ c.op = "read" /\ c.base = call.base /\ c.len = call.len
        /\ c.copied = call.copied /\ c.from = call.from /\ c.piece = n
        /\ c.clean = (call.clean /\ ~ failed)
        /\ c.ret = (IF failed THEN "failed" ELSE "ok") /\ c \in IoCall
    BY <1>2, <1>3, <1>7, <2>1 DEF IoCall
  <2> QED BY <2>1, <2>2, ZenonT(30) DEF IoCall
<1>9. /\ given' \in Seq(Nat) /\ Len(given') = Len(given) + n
      /\ \A i \in 1 .. Len(given) : given'[i] = given[i]
  <2>0. PICK more : more = SubSeq(file, pos + 1, pos + n)
    OBVIOUS
  <2>1. more \in Seq(Nat) /\ Len(more) = n
    <3>1. CASE n = 0
      BY <1>2, <2>0, <3>1
    <3>2. CASE n # 0
      <4>1. pos + n <= Len(file)
        BY <1>2, <1>5, <1>7, <3>2
      <4>2. pos + 1 \in 1 .. Len(file) + 1 /\ pos + n \in pos .. Len(file)
        BY <1>2, <1>7, <4>1
      <4> QED BY <1>2, <1>7, <2>0, <4>1, <4>2
    <3> QED BY <3>1, <3>2
  <2>2. given' = given \o more
    BY <1>6, <2>0
  <2>3. given \o more \in Seq(Nat) /\ Len(given \o more) = Len(given) + n
    BY <1>2, <1>7, <2>1, ConcatProperties
  <2>4. ASSUME NEW i \in 1 .. Len(given) PROVE (given \o more)[i] = given[i]
    BY <1>2, <2>1
  <2> QED BY <2>2, <2>3, <2>4
<1>10. Filled'
  <2>1. \A a \in Io!Addresses : a \in Int
    BY DEF Io!Addresses
  <2>2. call.base \in Nat /\ call.copied \in Nat
    BY <1>2 DEF IoCall
  <2>3. ASSUME NEW a \in Io!Addresses, call.base <= a, a < call.base + call.copied
        PROVE  given'[a - call.base + 1] = given[a - call.base + 1]
    <3>1. a - call.base + 1 \in 1 .. Len(given)
      BY <1>3, <2>1, <2>2, <2>3
    <3> QED BY <1>9, <3>1
  <2> QED BY <1>1, <1>2, <1>8, <2>3 DEF Filled, Io!Fresh
<1>11. Reading'
  <2>1. pos' = call'.from + Len(given')
    <3>1. call.from \in Nat /\ Len(given) \in Nat /\ Len(given') = Len(given) + n
      BY <1>2, <1>9 DEF IoCall
    <3>2. pos' = pos + n /\ call'.from = call.from
      BY <1>6, <1>8
    <3> QED BY <1>3, <1>7, <3>1, <3>2
  <2>2. CASE n = 0
    <3>1. ASSUME call'.clean PROVE pos' >= Len(file')
      <4>1. left <= 0
        BY <1>5, <1>6, <1>8, <2>2, <3>1
      <4> QED BY <1>1, <1>2, <1>6, <2>2, <4>1
    <3>2. Len(given') = call'.copied /\ call'.at = "back"
      BY <1>2, <1>3, <1>8, <1>9, <2>2
    <3> QED BY <1>3, <1>8, <2>1, <3>1, <3>2, <1>2 DEF Reading, IoCall
  <2>3. CASE n # 0
    <3>1. Len(given') = call'.copied + call'.piece /\ call'.at = "copy"
      BY <1>3, <1>8, <1>9, <2>3
    <3>2. call'.piece \in 1 .. IoBuf /\ call'.copied + call'.piece <= call'.len
      <4>1. IoBuf \in Nat /\ call.len \in Nat /\ call.copied \in Nat
        BY <1>2 DEF Io!ConstantsOK, IoCall
      <4> QED BY <1>4, <1>5, <1>7, <1>8, <2>3, <4>1
    <3> QED BY <1>2, <1>3, <1>8, <2>1, <3>1, <3>2 DEF Reading, IoCall
  <2> QED BY <2>2, <2>3
<1>12. pos' \in Nat
  BY <1>2, <1>6, <1>7
<1> QED BY <1>1, <1>2, <1>8, <1>9, <1>10, <1>11, <1>12 DEF IoInv, Io!Addresses

\* What a failed check of the pages means.
LEMMA RefusedHere ==
  ASSUME Io!ConstantsOK, layout \in Layouts, call \in IoCall, NEW n \in Nat \ {0},
         NEW write \in BOOLEAN
  PROVE  ~ Io!Reaches(Io!Target, n, write) <=> Refuses(n, write)
<1>1. Io!Target \in Nat
  BY DEF Io!Target, IoCall
<1>2. NV * PB \in Int
  BY DEF Io!ConstantsOK
<1> PICK t \in Nat : t = Io!Target
  BY <1>1
<1>3. ~ (t + n <= NV * PB) <=> t + n > NV * PB
  BY <1>2
<1> QED BY <1>1, <1>3, ReachesExact DEF Refuses

\* A call that goes on or ends keeps the rest of its record.
LEMMA Turns ==
  ASSUME NEW c \in IoCall
  PROVE  /\ Io!Turned(c) \in IoCall
         /\ Io!Turned(c) = [c EXCEPT !.at = Io!Turned(c).at]
         /\ Io!Turned(c).at = IF c.ret # "ok" \/ c.copied = c.len THEN "back" ELSE c.op
  BY DEF Io!Turned, IoCall

\* copy_to_user() of a piece.
LEMMA IoCopyOut ==
  ASSUME Io!ConstantsOK, IoInv, Io!CopyOut
  PROVE  IoInv'
<1>1. call.at = "copy" /\ UNCHANGED <<layout, file, pos, given>>
  BY DEF Io!CopyOut
<1>2. /\ layout \in Layouts /\ file \in Seq(Nat) /\ given \in Seq(Nat) /\ pos \in Nat
      /\ mem \in [Io!Addresses -> Nat] /\ call \in IoCall /\ Reading /\ Filled
  <2>1. call # Io!NoCall
    BY <1>1 DEF Io!NoCall
  <2>2. Writing => call.at \in {"write", "back"}
    BY DEF Writing
  <2>3. ~ Writing
    BY <1>1, <2>2
  <2> QED BY <2>1, <2>3 DEF IoInv
<1>3. /\ call.op = "read" /\ pos = call.from + Len(given) /\ call.piece \in 1 .. IoBuf
      /\ Len(given) = call.copied + call.piece /\ call.copied + call.piece <= call.len
      /\ call.ret = "ok" \/ (call.ret = "failed" /\ ~ call.clean)
  BY <1>1, <1>2 DEF Reading
<1> DEFINE n == call.piece
<1>4. /\ n \in Nat \ {0} /\ call.base \in Nat /\ call.copied \in Nat /\ call.len \in Nat
      /\ Io!Target = call.base + call.copied /\ Len(given) \in Nat
  BY <1>2, <1>3 DEF IoCall, Io!Target, Io!ConstantsOK
<1>5. CASE Io!Reaches(Io!Target, n, TRUE)
  <2>1. /\ mem' = [a \in Io!Addresses |->
                     IF a \in Io!Target .. Io!Target + n - 1
                     THEN given[Len(given) - n + 1 + a - Io!Target] ELSE mem[a]]
        /\ call' = Io!Turned(Io!Advanced(call, n))
    BY <1>5 DEF Io!CopyOut
  <2> PICK c : c = Io!Advanced(call, n)
    OBVIOUS
  <2>2. /\ c \in IoCall /\ c.copied = call.copied + n /\ c.op = "read" /\ c.len = call.len
        /\ c.base = call.base /\ c.from = call.from /\ c.ret = call.ret
        /\ c.clean = call.clean /\ c.piece = n
    BY <1>2, <1>3, <1>4 DEF Io!Advanced, IoCall
  <2>3. /\ call' \in IoCall /\ call' = [c EXCEPT !.at = call'.at]
        /\ call'.at = IF c.ret # "ok" \/ c.copied = c.len THEN "back" ELSE c.op
    BY <2>1, <2>2, Turns
  <2>4. /\ call'.copied = call.copied + n /\ call'.op = "read" /\ call'.len = call.len
        /\ call'.base = call.base /\ call'.from = call.from /\ call'.ret = call.ret
        /\ call'.clean = call.clean /\ call'.piece = n
    BY <2>2, <2>3 DEF IoCall
  <2>5. ASSUME NEW a \in Io!Addresses
        PROVE  /\ mem'[a] \in Nat
               /\ mem'[a] = IF call.base <= a /\ a < call.base + (call.copied + n)
                            THEN given[a - call.base + 1] ELSE Io!Fresh(a)
    <3>1. a \in Nat
      BY DEF Io!Addresses
    <3>2. a \in Io!Target .. Io!Target + n - 1 <=>
            call.base + call.copied <= a /\ a < call.base + (call.copied + n)
      BY <1>4, <3>1
    <3>3. CASE a \in Io!Target .. Io!Target + n - 1
      <4>1. Len(given) - n + 1 + a - Io!Target = a - call.base + 1
        BY <1>3, <1>4, <3>1, SMTT(30)
      <4>2. mem'[a] = given[a - call.base + 1]
        BY <2>1, <3>3, <4>1
      <4>3. a - call.base + 1 \in 1 .. Len(given)
        <5>1. call.base <= a /\ a < call.base + (call.copied + n)
          BY <1>4, <3>1, <3>3
        <5>2. Len(given) = call.copied + n
          BY <1>3
        <5> HIDE DEF n
        <5> QED BY <1>4, <3>1, <5>1, <5>2
      <4>4. given[a - call.base + 1] \in Nat
        BY <1>2, <4>3
      <4> QED BY <1>4, <3>1, <3>2, <3>3, <4>2, <4>4
    <3>4. CASE a \notin Io!Target .. Io!Target + n - 1
      <4>1. mem'[a] = mem[a]
        BY <2>1, <3>4
      <4>2. /\ mem[a] \in Nat
            /\ mem[a] = IF call.base <= a /\ a < call.base + call.copied
                        THEN given[a - call.base + 1] ELSE Io!Fresh(a)
        BY <1>2 DEF Filled
      <4>3. call.base <= a /\ a < call.base + call.copied <=>
              call.base <= a /\ a < call.base + (call.copied + n)
        BY <1>4, <3>1, <3>2, <3>4
      <4> QED BY <4>1, <4>2, <4>3
    <3> QED BY <3>3, <3>4
  <2>6. mem' \in [Io!Addresses -> Nat]
    BY <2>1, <2>5
  <2>7. Filled'
    BY <1>1, <2>4, <2>5 DEF Filled, Io!Fresh, Io!Addresses
  <2>8. Reading'
    <3>1. CASE call'.at = "back"
      <4>1. c.ret # "ok" \/ c.copied = c.len
        BY <2>2, <2>3, <3>1
      <4>2. ~ (call'.clean /\ call'.copied < call'.len)
        BY <1>3, <1>4, <2>2, <2>4, <4>1
      <4> QED BY <1>1, <1>3, <1>4, <2>4, <3>1, <4>2 DEF Reading
    <3>2. CASE call'.at # "back"
      <4>1. call'.at = "read" /\ call'.copied < call'.len
        BY <1>3, <1>4, <2>2, <2>3, <2>4, <3>2
      <4> QED BY <1>1, <1>3, <1>4, <2>4, <4>1 DEF Reading
    <3> QED BY <3>1, <3>2
  <2> QED BY <1>1, <1>2, <2>3, <2>6, <2>7, <2>8 DEF IoInv, Io!Addresses
<1>6. CASE ~ Io!Reaches(Io!Target, n, TRUE)
  <2>1. /\ mem' = mem
        /\ call' = Io!Turned([call EXCEPT !.ret = IF @ = "ok" THEN "inval" ELSE @])
    BY <1>6 DEF Io!CopyOut
  <2> PICK c : c = [call EXCEPT !.ret = IF @ = "ok" THEN "inval" ELSE @]
    OBVIOUS
  <2>2. /\ c \in IoCall /\ c.copied = call.copied /\ c.op = "read" /\ c.len = call.len
        /\ c.base = call.base /\ c.from = call.from /\ c.ret # "ok"
        /\ c.clean = call.clean /\ c.piece = n
    BY <1>2, <1>3 DEF IoCall
  <2>3. /\ call' \in IoCall /\ call' = [c EXCEPT !.at = call'.at] /\ call'.at = "back"
    BY <2>1, <2>2, Turns
  <2>4. /\ call'.copied = call.copied /\ call'.op = "read" /\ call'.len = call.len
        /\ call'.base = call.base /\ call'.from = call.from
        /\ call'.clean = call.clean /\ call'.piece = n
    BY <2>2, <2>3 DEF IoCall
  <2>5. Filled'
    BY <1>1, <1>2, <2>1, <2>4 DEF Filled, Io!Fresh
  <2>6. Refuses(n, TRUE)
    BY <1>2, <1>4, <1>6, RefusedHere
  <2>7. ReadRefused'
    BY <1>1, <2>4, <2>6 DEF ReadRefused, Refuses, Io!Target
  <2>8. Reading'
    BY <1>1, <1>3, <1>4, <2>3, <2>4, <2>7 DEF Reading
  <2> QED BY <1>1, <1>2, <2>1, <2>3, <2>5, <2>8 DEF IoInv, Io!Addresses
<1> QED BY <1>5, <1>6

\* copy_from_user() and file_write() of a piece.
LEMMA IoWritePiece ==
  ASSUME Io!ConstantsOK, IoInv, Io!WritePiece
  PROVE  IoInv'
<1>1. call.at = "write" /\ UNCHANGED <<layout, mem, given>>
  BY DEF Io!WritePiece
<1>2. /\ layout \in Layouts /\ file \in Seq(Nat) /\ given \in Seq(Nat) /\ pos \in Nat
      /\ mem \in [Io!Addresses -> Nat] /\ call \in IoCall /\ Writing /\ Stored
  <2>1. call # Io!NoCall
    BY <1>1 DEF Io!NoCall
  <2>2. Reading => call.at # "write"
    BY DEF Reading
  <2> QED BY <1>1, <2>1, <2>2 DEF IoInv
<1>3. /\ call.op = "write" /\ pos = call.from + call.copied /\ pos <= Len(file)
      /\ call.copied < call.len
  BY <1>1, <1>2 DEF Writing
<1>4. /\ Io!Request \in Nat \ {0} /\ Io!Request <= call.len - call.copied
      /\ Io!Target = call.base + call.copied /\ Io!Target \in Nat
      /\ call.base \in Nat /\ call.copied \in Nat /\ call.len \in Nat /\ call.from \in Nat
  BY <1>2, <1>3, RequestIs DEF IoCall
<1>5. CASE ~ Io!Reaches(Io!Target, Io!Request, FALSE)
  <2>1. call' = Io!Turned([call EXCEPT !.ret = "inval"]) /\ file' = file /\ pos' = pos
    BY <1>5 DEF Io!WritePiece
  <2>0. PICK c : c = [call EXCEPT !.ret = "inval"]
    OBVIOUS
  <2>2. /\ c \in IoCall /\ c.copied = call.copied /\ c.op = "write" /\ c.len = call.len
        /\ c.base = call.base /\ c.from = call.from /\ c.ret # "ok"
        /\ c.clean = call.clean
    BY <1>2, <1>3, <2>0 DEF IoCall
  <2>3. /\ call' \in IoCall /\ call' = [c EXCEPT !.at = call'.at] /\ call'.at = "back"
    BY <2>0, <2>1, <2>2, Turns
  <2>4. /\ call'.copied = call.copied /\ call'.op = "write" /\ call'.len = call.len
        /\ call'.base = call.base /\ call'.from = call.from /\ call'.clean = call.clean
    BY <2>2, <2>3 DEF IoCall
  <2>5. Stored'
    BY <1>1, <1>2, <2>1, <2>4 DEF Stored
  <2>6. Refuses(Io!Request, FALSE)
    BY <1>2, <1>4, <1>5, RefusedHere
  <2>7. WriteRefused'
    BY <1>1, <2>4, <2>6 DEF WriteRefused, Refuses, Io!Target, Io!Request, Io!Min
  <2>8. Writing'
    BY <1>3, <1>4, <2>1, <2>3, <2>4, <2>7 DEF Writing
  <2> QED BY <1>1, <1>2, <2>1, <2>3, <2>5, <2>8 DEF IoInv, Io!Addresses
<1>6. CASE Io!Reaches(Io!Target, Io!Request, FALSE)
  <2>1. PICK n \in 0 .. Io!Request, failed \in BOOLEAN :
          /\ ~ failed => n = Io!Request
          /\ file' = [k \in 1 .. Io!Max({Len(file), pos + n}) |->
                        IF k \in pos + 1 .. pos + n THEN mem[Io!Target + k - pos - 1]
                        ELSE file[k]]
          /\ pos' = pos + n
          /\ call' = Io!Turned([Io!Advanced(call, n) EXCEPT
                                  !.clean = @ /\ ~ failed,
                                  !.ret = IF failed THEN "failed" ELSE "ok"])
    BY <1>6, Zenon DEF Io!WritePiece
  <2>2. n \in Nat /\ n <= Io!Request
    BY <1>4, <2>1
  <2>3. PICK c : c = [Io!Advanced(call, n) EXCEPT
                       !.clean = @ /\ ~ failed, !.ret = IF failed THEN "failed" ELSE "ok"]
    OBVIOUS
  <2>4. /\ c \in IoCall /\ c.copied = call.copied + n /\ c.op = "write" /\ c.len = call.len
        /\ c.base = call.base /\ c.from = call.from /\ c.clean = (call.clean /\ ~ failed)
        /\ c.ret = (IF failed THEN "failed" ELSE "ok")
    <3>1. PICK d : d = Io!Advanced(call, n)
      OBVIOUS
    <3>2. /\ d \in IoCall /\ d.copied = call.copied + n /\ d.op = "write"
          /\ d.len = call.len /\ d.base = call.base /\ d.from = call.from
          /\ d.clean = call.clean
      <4>1. call.copied + n \in Nat
        BY <1>4, <2>2
      <4>2. d = [call EXCEPT !.copied = call.copied + n]
        BY <3>1 DEF Io!Advanced
      <4> QED BY <1>2, <1>3, <4>1, <4>2 DEF IoCall
    <3>3. c = [d EXCEPT !.clean = @ /\ ~ failed, !.ret = IF failed THEN "failed" ELSE "ok"]
      BY <2>3, <3>1
    <3> QED BY <3>2, <3>3 DEF IoCall
  <2>5. /\ call' \in IoCall /\ call' = [c EXCEPT !.at = call'.at]
        /\ call'.at = IF c.ret # "ok" \/ c.copied = c.len THEN "back" ELSE c.op
    BY <2>1, <2>3, <2>4, Turns
  <2>6. /\ call'.copied = call.copied + n /\ call'.op = "write" /\ call'.len = call.len
        /\ call'.base = call.base /\ call'.from = call.from
        /\ call'.clean = (call.clean /\ ~ failed)
    BY <2>4, <2>5 DEF IoCall
  <2>7. PICK top \in Nat : /\ top = Io!Max({Len(file), pos + n})
                           /\ top = IF Len(file) <= pos + n THEN pos + n ELSE Len(file)
    <3>1. Len(file) \in Int /\ pos + n \in Int /\ Len(file) \in Nat /\ pos + n \in Nat
      BY <1>2, <2>2
    <3> QED BY <3>1, TwoMin
  <2>8. Io!Target + Io!Request <= NV * PB /\ NV * PB \in Int
    <3>1. NV * PB \in Int
      BY DEF Io!ConstantsOK
    <3> QED BY <1>2, <1>4, <1>6, <3>1, ReachesExact
  <2>9. ASSUME NEW k \in 1 .. top
        PROVE  /\ file'[k] = IF k \in call.from + 1 .. pos + n
                             THEN mem[call.base + k - call.from - 1] ELSE k
               /\ file'[k] \in Nat
    <3>1. file'[k] = IF k \in pos + 1 .. pos + n THEN mem[Io!Target + k - pos - 1] ELSE file[k]
      BY <2>1, <2>7
    <3>2. CASE k \in pos + 1 .. pos + n
      <4>0. k \in Nat /\ pos \in Nat /\ pos = call.from + call.copied
        BY <1>2, <1>3
      <4>1. Io!Target + k - pos - 1 = call.base + k - call.from - 1
        BY <1>4, <4>0
      <4>2. call.base + k - call.from - 1 \in Io!Addresses
        <5>1. k >= pos + 1 /\ k <= pos + n
          BY <3>2, <4>0, <2>2
        <5> PICK v \in Int : v = NV * PB
          BY <2>8
        <5> PICK t \in Nat : t = Io!Target
          BY <1>4
        <5>2. t + Io!Request <= v
          BY <2>8
        <5>3. t = call.base + call.copied
          BY <1>4
        <5>4. call.base + k - call.from - 1 \in 0 .. v - 1
          BY <1>4, <2>2, <4>0, <5>1, <5>2, <5>3
        <5> QED BY <5>4 DEF Io!Addresses
      <4>3. k \in call.from + 1 .. pos + n
        BY <1>2, <1>3, <1>4, <2>2, <3>2, SMTT(30)
      <4> QED BY <1>2, <3>1, <3>2, <4>1, <4>2, <4>3
    <3>3. CASE k \notin pos + 1 .. pos + n
      <4>1. k \in DOMAIN file
        BY <1>2, <1>3, <2>2, <2>7, <3>3
      <4>2. /\ file[k] = IF k \in call.from + 1 .. pos
                         THEN mem[call.base + k - call.from - 1] ELSE k
            /\ file[k] \in Nat
        BY <1>2, <4>1 DEF Stored
      <4>3. k \in call.from + 1 .. pos <=> k \in call.from + 1 .. pos + n
        BY <1>2, <1>4, <2>2, <2>7, <3>3
      <4> QED BY <3>1, <3>3, <4>2, <4>3
    <3> QED BY <3>2, <3>3
  <2>10. file' \in Seq(Nat) /\ Len(file') = top /\ DOMAIN file' = 1 .. top
    <3>1. PICK g : g = [k \in 1 .. top |-> IF k \in pos + 1 .. pos + n
                                           THEN mem[Io!Target + k - pos - 1] ELSE file[k]]
      OBVIOUS
    <3>2. file' = g
      BY <2>1, <2>7, <3>1
    <3>3. \A k \in 1 .. top : g[k] \in Nat
      BY <2>9, <3>2
    <3>4. g \in [1 .. top -> Nat]
      BY <3>1, <3>3
    <3> QED BY <3>2, <3>4
  <2>11. Stored'
    <3> SUFFICES ASSUME NEW k \in DOMAIN file'
                 PROVE  file'[k] = IF k \in call'.from + 1 .. pos'
                                   THEN mem'[call'.base + k - call'.from - 1] ELSE k
      BY DEF Stored
    <3>1. k \in 1 .. top /\ pos' = pos + n /\ mem' = mem
      BY <1>1, <2>1, <2>10
    <3>2. call'.base = call.base /\ call'.from = call.from
      BY <2>6
    <3>3. file'[k] = IF k \in call.from + 1 .. pos + n
                     THEN mem[call.base + k - call.from - 1] ELSE k
      BY <2>9, <3>1
    <3> QED BY <3>1, <3>2, <3>3
  <2>12. Writing'
    <3>1. pos' = call'.from + call'.copied
      BY <1>2, <1>3, <1>4, <2>1, <2>2, <2>6
    <3>2. pos' <= Len(file') /\ call'.copied <= call'.len
      BY <1>2, <1>4, <2>1, <2>2, <2>6, <2>7, <2>10, SMTT(30)
    <3>3. CASE call'.at = "back"
      <4>1. ~ (call'.clean /\ call'.copied < call'.len)
        <5>1. CASE failed
          BY <2>6, <5>1
        <5>2. CASE ~ failed
          <6>1. c.copied = c.len
            BY <2>4, <2>5, <3>3, <5>2
          <6>2. call'.copied = call'.len /\ call'.copied \in Nat
            BY <1>4, <2>2, <2>4, <2>6, <6>1
          <6> QED BY <6>2
        <5> QED BY <5>1, <5>2
      <4> QED BY <2>6, <3>1, <3>2, <3>3, <4>1 DEF Writing
    <3>4. CASE call'.at # "back"
      <4>1. call'.at = "write" /\ call'.copied # call'.len
        BY <2>4, <2>5, <2>6, <3>4
      <4>2. call'.copied < call'.len
        BY <1>4, <2>2, <2>6, <3>2, <4>1
      <4> QED BY <2>6, <3>1, <3>2, <4>1, <4>2 DEF Writing
    <3> QED BY <3>3, <3>4
  <2>13. pos' \in Nat
    BY <1>2, <2>1, <2>2
  <2> QED BY <1>1, <1>2, <2>5, <2>10, <2>11, <2>12, <2>13 DEF IoInv, Io!Addresses
<1> QED BY <1>5, <1>6

\* Every step of the call and of others keeps it.
LEMMA IoKept ==
  ASSUME Io!ConstantsOK, IoInv, [Io!Next]_(Io!vars)
  PROVE  IoInv'
<1>1. ASSUME NEW op \in {"read", "write"}, NEW base \in Io!Addresses, NEW len \in Lengths,
             Io!Begin(op, base, len)
      PROVE  IoInv'
  BY <1>1, IoBegins
<1>2. CASE UNCHANGED Io!vars
  BY <1>2 DEF Io!vars, IoInv, Reading, Writing, Filled, Stored, ReadRefused, WriteRefused,
     Refuses, Io!Addresses, Io!Fresh, Io!Target, Io!Request, Io!Min, Io!NoCall
<1> QED BY <1>1, <1>2, IoReadPiece, IoCopyOut, IoWritePiece, IoOther DEF Io!Next

\* What is promised of a call that is over follows.
LEMMA IoInvExact ==
  ASSUME Io!ConstantsOK, IoInv
  PROVE  Io!TransfersExact
<1> SUFFICES ASSUME call.at = "back" PROVE Io!TransfersExact
  BY DEF Io!TransfersExact
<1>1. /\ file \in Seq(Nat) /\ given \in Seq(Nat) /\ call \in IoCall
      /\ (Reading /\ Filled) \/ (Writing /\ Stored)
  <2>1. call # Io!NoCall
    BY DEF Io!NoCall
  <2> QED BY <2>1 DEF IoInv
<1>2. /\ call.base \in Nat /\ call.copied \in Nat /\ call.len \in Nat /\ call.from \in Nat
      /\ pos \in Nat /\ Len(given) \in Nat
  BY <1>1 DEF IoCall, IoInv
<1> DEFINE counted == {a \in Io!Addresses : call.base <= a /\ a < call.base + call.copied}
<1>3. CASE Reading /\ Filled
  <2>1. /\ call.op = "read" /\ pos = call.from + Len(given)
        /\ \/ /\ Len(given) = call.copied
              /\ call.clean /\ call.copied < call.len => pos >= Len(file)
           \/ /\ Len(given) = call.copied + call.piece /\ call.piece \in 1 .. IoBuf
              /\ ReadRefused
    BY <1>3 DEF Reading
  <2>2. pos - call.from = Len(given)
    BY <1>2, <2>1
  <2>3. \A a \in Io!Addresses :
          mem[a] = IF a \in counted THEN given[a - call.base + 1] ELSE Io!Fresh(a)
    BY <1>3 DEF Filled
  <2>4. Len(given) # call.copied =>
          Refuses(call.piece, TRUE) /\ Len(given) - call.copied \in 1 .. IoBuf
    <3> HAVE Len(given) # call.copied
    <3>1. Len(given) = call.copied + call.piece /\ call.piece \in 1 .. IoBuf /\ ReadRefused
      BY <2>1
    <3>2. Len(given) - call.copied = call.piece
      BY <1>2, <3>1 DEF Io!ConstantsOK
    <3> QED BY <3>1, <3>2 DEF ReadRefused
  <2>5. call.clean /\ call.copied < call.len => Len(given) # call.copied \/ pos >= Len(file)
    BY <2>1
  <2> HIDE DEF counted
  <2> QED BY <2>1, <2>2, <2>3, <2>4, <2>5 DEF Io!TransfersExact, counted, Refuses
<1>4. CASE Writing /\ Stored
  <2>1. /\ call.op = "write" /\ pos = call.from + call.copied
        /\ call.clean /\ call.copied < call.len => WriteRefused
    BY <1>4 DEF Writing
  <2>2. pos - call.from = call.copied
    BY <1>2, <2>1
  <2> QED BY <1>4, <2>1, <2>2 DEF Io!TransfersExact, Stored, WriteRefused, Refuses
<1> QED BY <1>1, <1>3, <1>4

\* When read() or write() returns, the bytes it counts are those that were moved, in order and
\* without a gap, for user memory, buffers and files of any size, whatever others do to the
\* file that is read, whatever the disk refuses and whatever the areas are (sysfile.c).
THEOREM TransfersHold == ASSUME Io!ConstantsOK PROVE Io!Spec => []Io!TransfersExact
<1>1. Io!Init => IoInv
  BY IoStarts
<1>2. IoInv => Io!TransfersExact
  BY IoInvExact
<1> QED BY <1>1, <1>2, IoKept, PTL DEF Io!Spec
-----------------------------------------------------------------------------
(* The indices of pages, and operations that ask for frames in vain *)

Slots == 0 .. Span - 1

\* The levels of page tables: every index leads to one page.
LEMMA PageParts ==
  ASSUME SpaceConstantsOK, NEW a \in Nat
  PROVE  /\ Pdx0(a) \in Slots /\ Ptx(a) \in Slots /\ Pdx1(a) \in Nat
         /\ a = (Pdx1(a) * Span + Pdx0(a)) * Span + Ptx(a)
         /\ a \div Span = Pdx1(a) * Span + Pdx0(a)
<1>1. Span \in Nat \ {0, 1}
  BY DEF SpaceConstantsOK
<1>2. PICK q \in Nat : q = a \div Span
  BY <1>1
<1>3. PICK r \in Slots : r = a % Span
  BY <1>1 DEF Slots
<1>4. a = q * Span + r
  BY <1>1, <1>2, <1>3 DEF Slots
<1>5. PICK q1 \in Nat : q1 = q \div Span
  BY <1>1
<1>6. PICK r1 \in Slots : r1 = q % Span
  BY <1>1 DEF Slots
<1>7. q = q1 * Span + r1
  BY <1>1, <1>5, <1>6 DEF Slots
<1>8. a \div (Span * Span) = q1
  <2>1. PICK p \in Nat \ {0} : p = Span * Span
    BY <1>1
  <2>2. PICK x \in Nat : x = q1 * Span
    BY <1>1
  <2>3. PICK y \in Nat : y = r1 * Span
    BY <1>1 DEF Slots
  <2>4. y + Span <= p
    <3>1. (r1 + 1) * Span <= Span * Span
      BY <1>1 DEF Slots
    <3>2. (r1 + 1) * Span = r1 * Span + Span
      BY <1>1 DEF Slots
    <3> QED BY <1>1, <2>1, <2>3, <3>1, <3>2
  <2>5. q1 * p = x * Span
    BY <1>1, <2>1, <2>2
  <2>6. PICK z \in Nat : z = q1 * p
    BY <2>1
  <2>7. q * Span = z + y
    <3>1. q * Span = (x + r1) * Span
      BY <1>7, <2>2
    <3>2. (x + r1) * Span = x * Span + r1 * Span
      BY <1>1 DEF Slots
    <3> QED BY <2>3, <2>5, <2>6, <3>1, <3>2
  <2>8. q1 * p <= a /\ a < q1 * p + p
    <3>1. a = z + y + r
      BY <1>4, <2>7
    <3> QED BY <1>1, <2>1, <2>4, <2>6, <3>1 DEF Slots
  <2>9. a \div p = q1
    BY <2>8, QuotientIs
  <2> QED BY <2>1, <2>9
<1>9. Pdx1(a) = q1 /\ Pdx0(a) = r1 /\ Ptx(a) = r
  BY <1>2, <1>3, <1>6, <1>8 DEF Pdx1, Pdx0, Ptx
<1> QED BY <1>2, <1>4, <1>7, <1>9

\* So the first index of a page of user memory is one of a directory.
LEMMA FirstIndex ==
  ASSUME SpaceConstantsOK, NEW a \in UserPages
  PROVE  a \in Nat /\ Pdx1(a) \in Slots /\ Pdx0(a) \in Slots /\ Ptx(a) \in Slots
<1>1. Span \in Nat \ {0, 1} /\ a \in Nat /\ a < NV /\ NV = (Span * Span) * Span
  BY DEF SpaceConstantsOK, UserPages
<1>2. PICK i \in Nat : i = Pdx1(a)
  BY <1>1, PageParts
<1>3. PICK j \in Slots : j = Pdx0(a)
  BY <1>1, PageParts
<1>4. PICK k \in Slots : k = Ptx(a)
  BY <1>1, PageParts
<1>5. a = (i * Span + j) * Span + k
  BY <1>1, <1>2, <1>3, <1>4, PageParts
<1>6. i < Span
  <2> SUFFICES ASSUME i >= Span PROVE FALSE
    BY <1>1
  <2>1. i * Span >= Span * Span
    BY <1>1
  <2>2. PICK x \in Nat : x = i * Span
    BY <1>1
  <2>3. PICK y \in Nat : y = Span * Span
    BY <1>1
  <2>4. x + j >= y /\ x + j \in Nat
    BY <1>3, <2>1, <2>2, <2>3 DEF Slots
  <2>5. (x + j) * Span >= y * Span
    BY <1>1, <2>4
  <2>6. NV = y * Span
    BY <1>1, <2>3
  <2>7. PICK z \in Nat : z = (x + j) * Span
    BY <1>1, <2>4
  <2>8. a = z + k
    BY <1>5, <2>2, <2>7
  <2> QED BY <1>1, <1>4, <2>5, <2>6, <2>7, <2>8 DEF Slots
<1> QED BY <1>1, <1>2, <1>6, PageParts DEF Slots

\* And any three indices are those of one page.
LEMMA PageOf ==
  ASSUME SpaceConstantsOK, NEW i \in Slots, NEW j \in Slots, NEW k \in Slots
  PROVE  \E a \in UserPages : Pdx1(a) = i /\ Pdx0(a) = j /\ Ptx(a) = k
<1>1. Span \in Nat \ {0, 1} /\ NV = (Span * Span) * Span /\ NV \in Nat
  BY DEF SpaceConstantsOK
<1>2. i \in Nat /\ j \in Nat /\ k \in Nat /\ i + 1 <= Span /\ j + 1 <= Span /\ k + 1 <= Span
  BY <1>1 DEF Slots
<1>3. PICK x \in Nat : x = i * Span
  BY <1>1, <1>2
<1>4. PICK q \in Nat : q = x + j
  BY <1>2
<1>5. PICK y \in Nat : y = q * Span
  BY <1>1
<1>6. PICK a \in Nat : a = y + k
  BY <1>2
<1>7. Ptx(a) = k
  BY <1>1, <1>2, <1>5, <1>6, RemainderIs DEF Ptx
<1>8. a \div Span = q
  BY <1>1, <1>2, <1>5, <1>6, QuotientIs
<1>9. Pdx0(a) = j
  <2>1. /\ q = i * Span + j /\ Span \in Nat \ {0} /\ j \in 0 .. Span - 1
        /\ i \in Int /\ q \in Int
    BY <1>1, <1>2, <1>3, <1>4
  <2>2. q % Span = j
    BY <2>1, RemainderIs, Zenon
  <2> QED BY <1>8, <2>2 DEF Pdx0
<1>10. Pdx1(a) = i
  <2>1. a \div Span = Pdx1(a) * Span + Pdx0(a) /\ Pdx1(a) \in Nat
    BY PageParts
  <2>2. PICK p \in Nat : p = Pdx1(a)
    BY <2>1
  <2>3. x = p * Span
    <3>1. q = p * Span + j
      BY <1>8, <1>9, <2>1, <2>2
    <3>2. PICK w \in Nat : w = p * Span
      BY <1>1, <2>2
    <3> QED BY <1>2, <1>4, <3>1, <3>2
  <2>4. x \div Span = i /\ x \div Span = p
    <3>1. i * Span <= x /\ x < i * Span + Span
      BY <1>1, <1>2, <1>3
    <3>2. p * Span <= x /\ x < p * Span + Span
      BY <1>1, <2>3
    <3>3. x \div Span = i
      BY <1>1, <1>2, <3>1, QuotientIs
    <3>4. x \div Span = p
      BY <1>1, <2>2, <3>2, QuotientIs
    <3> QED BY <3>3, <3>4
  <2> QED BY <2>2, <2>4
<1>11. a < NV
  <2>1. x + Span <= Span * Span
    <3>1. (i + 1) * Span <= Span * Span
      BY <1>1, <1>2
    <3>2. (i + 1) * Span = i * Span + Span
      BY <1>1, <1>2
    <3> QED BY <1>3, <3>1, <3>2
  <2>2. PICK z \in Nat : z = Span * Span
    BY <1>1
  <2>3. q + 1 <= z
    BY <1>1, <1>2, <1>4, <2>1, <2>2
  <2>4. (q + 1) * Span <= z * Span /\ (q + 1) * Span = q * Span + Span
    BY <1>1, <2>2, <2>3
  <2>5. y + Span <= NV
    <3>1. PICK w \in Nat : w = z * Span
      BY <1>1, <2>2
    <3>2. NV = w
      BY <1>1, <2>2, <3>1
    <3>3. PICK u \in Nat : u = (q + 1) * Span
      BY <1>1
    <3>4. u <= w /\ u = y + Span
      BY <1>5, <2>4, <3>1, <3>3
    <3> QED BY <3>2, <3>4, Zenon
  <2>6. Span \in Nat /\ NV \in Nat
    BY <1>1
  <2> QED BY <1>2, <1>5, <1>6, <2>5, <2>6
<1> QED BY <1>1, <1>7, <1>9, <1>10, <1>11 DEF UserPages

\* Two pages with the same indices are one.
LEMMA SamePage ==
  ASSUME SpaceConstantsOK, NEW a \in UserPages, NEW b \in UserPages,
         Pdx1(a) = Pdx1(b), Pdx0(a) = Pdx0(b), Ptx(a) = Ptx(b)
  PROVE  a = b
<1>1. a \in Nat /\ b \in Nat
  BY FirstIndex
<1> QED BY <1>1, PageParts

\* The first index grows with the page.
LEMMA IndexGrows ==
  ASSUME SpaceConstantsOK, NEW a \in Nat, NEW b \in Nat, a <= b
  PROVE  Pdx1(a) <= Pdx1(b)
<1>1. PICK p \in Nat \ {0} : p = Span * Span
  BY DEF SpaceConstantsOK
<1>2. PICK i \in Nat : i = a \div p
  BY <1>1
<1>3. PICK j \in Nat : j = b \div p
  BY <1>1
<1>4. i * p <= a /\ a < i * p + p /\ j * p <= b /\ b < j * p + p
  BY <1>1, <1>2, <1>3
<1>5. i <= j
  <2> SUFFICES ASSUME j + 1 <= i PROVE FALSE
    BY <1>2, <1>3
  <2>1. (j + 1) * p <= i * p /\ (j + 1) * p = j * p + p
    BY <1>1, <1>2, <1>3
  <2>2. PICK x \in Nat : x = i * p
    BY <1>1, <1>2
  <2>3. PICK y \in Nat : y = j * p
    BY <1>1, <1>3
  <2> QED BY <1>1, <1>4, <2>1, <2>2, <2>3
<1> QED BY <1>1, <1>2, <1>3, <1>5 DEF Pdx1

\* Frames as a record of the six fields they have.
Rec(m) ==
  m = [used |-> m.used, ref |-> m.ref, tab |-> m.tab, val |-> m.val, data |-> m.data,
       out |-> m.out]

\* An operation has asked for a frame that is not there.
Gone(m) == Rec(m) /\ m.out = TRUE

\* What of an operation is left after it asked in vain makes no difference.
LEMMA GoneTaken ==
  ASSUME NEW m, Gone(m), NEW ref
  PROVE  Gone(Taken(m, ref)) /\ \A v : Gone([Taken(m, ref) EXCEPT !.val[Lowest(m)] = v])
<1>1. PICK t : t = Taken(m, ref)
  OBVIOUS
<1>2. Gone(t)
  BY <1>1 DEF Taken, Gone, Rec
<1>3. ASSUME NEW v
      PROVE  Gone([t EXCEPT !.val[Lowest(m)] = v])
  <2>1. PICK x : x = [t EXCEPT !.val[Lowest(m)] = v]
    OBVIOUS
  <2>2. Gone(x)
    BY <1>2, <2>1 DEF Gone, Rec
  <2> QED BY <2>1, <2>2
<1> QED BY <1>1, <1>2, <1>3

\* It asks for more in vain: get_pte() does.
LEMMA GoneTables ==
  ASSUME NEW m, Gone(m)
  PROVE  /\ \A f, i : Gone(WithTable(m, f, i))
         /\ \A root, a : Gone(WithTables(m, root, a))
<1>1. ASSUME NEW m1, Gone(m1), NEW f, NEW i
      PROVE  Gone(WithTable(m1, f, i))
  <2>1. PICK t : t = Taken(m1, 1)
    OBVIOUS
  <2>2. Gone(t)
    BY <1>1, <2>1, GoneTaken
  <2>3. PICK l : l = Lowest(m1)
    OBVIOUS
  <2>4. Gone([t EXCEPT !.tab[f][i].frame = l])
    BY <2>2 DEF Gone, Rec
  <2> QED BY <1>1, <2>1, <2>3, <2>4 DEF WithTable
<1> QED BY <1>1 DEF WithTables

\* So does page_remove_pte().
LEMMA GonePte ==
  ASSUME NEW m, Gone(m), NEW t, NEW i
  PROVE  Gone(RemovedPte(m, t, i))
<1>1. PICK f : f = m.tab[t][i].frame
  OBVIOUS
<1>2. PICK d : d = [m EXCEPT !.ref[f] = @ - 1]
  OBVIOUS
<1>3. Gone(d)
  BY <1>2 DEF Gone, Rec
<1>4. PICK r : r = Freed(d, f)
  OBVIOUS
<1>5. PICK e : e = IF d.ref[f] = 0 THEN r ELSE d
  OBVIOUS
<1>6. Gone(e)
  <2>1. Gone(r)
    BY <1>3, <1>4 DEF Gone, Rec, Freed
  <2> QED BY <1>3, <1>5, <2>1
<1>7. Gone([e EXCEPT !.tab[t][i] = Clear])
  BY <1>6 DEF Gone, Rec
<1> QED BY <1>1, <1>2, <1>4, <1>5, <1>7 DEF RemovedPte

\* What page_insert() does once the table t is there.
EnteredAt(k, t, i, f, write) ==
  LET old == k.tab[t][i].frame
      Counted == [k EXCEPT !.ref[f] = @ + 1, !.data = @ \cup {f}]
      Cleared == IF old = f THEN [Counted EXCEPT !.ref[f] = @ - 1] ELSE RemovedPte(Counted, t, i)
  IN  [Cleared EXCEPT !.tab[t][i] = [frame |-> f, write |-> write]]

\* page_insert() makes the entry in the table that get_pte() gives.
LEMMA InsertedIs ==
  ASSUME NEW m, NEW root, NEW a, NEW f, NEW write
  PROVE  LET k == WithTables(m, root, a)
         IN  PageInserted(m, root, a, f, write)
               = EnteredAt(k, Table(k, root, a), Ptx(a), f, write)
BY DEF PageInserted, EnteredAt

\* That entry makes no difference either, once a frame was asked for in vain.
LEMMA GoneEntered ==
  ASSUME NEW k, Gone(k), NEW t, NEW i, NEW f, NEW write
  PROVE  Gone(EnteredAt(k, t, i, f, write))
<1>1. PICK c : c = [k EXCEPT !.ref[f] = @ + 1, !.data = @ \cup {f}]
  OBVIOUS
<1>2. Gone(c)
  BY <1>1 DEF Gone, Rec
<1>3. PICK e : e = [c EXCEPT !.ref[f] = @ - 1]
  OBVIOUS
<1>4. Gone(e)
  BY <1>2, <1>3 DEF Gone, Rec
<1>5. PICK d : d = IF k.tab[t][i].frame = f THEN e ELSE RemovedPte(c, t, i)
  OBVIOUS
<1>6. Gone(d)
  BY <1>2, <1>4, <1>5, GonePte
<1>7. PICK n : n = [d EXCEPT !.tab[t][i] = [frame |-> f, write |-> write]]
  OBVIOUS
<1>8. Gone(n)
  BY <1>6, <1>7 DEF Gone, Rec
<1> QED BY <1>1, <1>3, <1>5, <1>7, <1>8 DEF EnteredAt

\* So page_insert(), pgdir_alloc_page() and the step of copy_range() make none.
LEMMA GoneInserted ==
  ASSUME NEW m, Gone(m)
  PROVE  /\ \A root, a, f, write : Gone(PageInserted(m, root, a, f, write))
         /\ \A root, a, write, v : Gone(PageAlloced(m, root, a, write, v))
         /\ \A to, from, a : Gone(CopiedPage(m, to, from, a))
<1>1. ASSUME NEW n, Gone(n), NEW root, NEW a, NEW f, NEW write
      PROVE  Gone(PageInserted(n, root, a, f, write))
  BY <1>1, GoneTables, GoneEntered, InsertedIs
<1>2. ASSUME NEW n, Gone(n), NEW root, NEW a, NEW write, NEW v
      PROVE  Gone(PageAlloced(n, root, a, write, v))
  BY <1>1, <1>2, GoneTaken DEF PageAlloced
<1>3. ASSUME NEW to, NEW from, NEW a
      PROVE  Gone(CopiedPage(m, to, from, a))
  <2>1. PICK n : n = WithTables(m, to, a)
    OBVIOUS
  <2>2. Gone(n)
    BY <2>1, GoneTables
  <2>3. PICK v : v = m.val[Pte(m, from, a).frame]
    OBVIOUS
  <2>4. PICK k : k = [Taken(n, 0) EXCEPT !.val[Lowest(n)] = v]
    OBVIOUS
  <2>5. Gone(k)
    BY <2>2, <2>4, GoneTaken
  <2>6. Gone(PageInserted(k, to, a, Lowest(n), Pte(m, from, a).write))
    BY <1>1, <2>5
  <2> QED BY <2>1, <2>3, <2>4, <2>6 DEF CopiedPage
<1> QED BY <1>1, <1>2, <1>3

-----------------------------------------------------------------------------
(* Frames as levels: what each frame is, and steps that change one of them *)

Tables == [Frames -> [Slots -> Entry]]

\* Frames of an operation that has not run out of them.
Typed(m) ==
  /\ Rec(m) /\ m.out = FALSE
  /\ m.used \in SUBSET Frames /\ m.ref \in [Frames -> Int] /\ m.tab \in Tables
  /\ m.val \in [Frames -> Values] /\ m.data \in SUBSET Frames

\* Each frame has a level: 3, a directory or a page on its way into a table; 2 and 1, a
\* table of the middle and of the last level; 0, a page; -1, lost; -2, free.
Levels == -2 .. 3

\* The level of a frame says whether it is allocated, holds a page and is counted.
Levelled(m, lev) ==
  /\ lev \in [Frames -> Levels] /\ lev[F + 1] = -2
  /\ \A f \in Frames : /\ f \in m.used <=> lev[f] # -2
                       /\ f \in m.data <=> lev[f] = 0
                       /\ m.ref[f] = IF lev[f] \in {-2, 3} THEN 0 ELSE 1

\* An entry leads one level down, and one that leads nowhere is zero.
Downward(m, lev) ==
  \A f \in Frames, i \in Slots :
    IF m.tab[f][i].frame = 0 THEN m.tab[f][i] = Clear
    ELSE lev[f] \in 1 .. 3 /\ lev[m.tab[f][i].frame] = lev[f] - 1

\* No two entries lead to one frame.
OneName(m) ==
  \A f, g \in Frames, i, j \in Slots :
    m.tab[f][i].frame # 0 /\ m.tab[f][i].frame = m.tab[g][j].frame => f = g /\ i = j

\* An entry leads to each table and to each page.
AllNamed(m, lev) ==
  \A f \in Frames : lev[f] \in 0 .. 2 => \E t \in Frames, i \in Slots : m.tab[t][i].frame = f

Shape(m, lev) ==
  Typed(m) /\ Levelled(m, lev) /\ Downward(m, lev) /\ OneName(m) /\ AllNamed(m, lev)

\* The directories, and the pages on their way.
Highest(lev) == {f \in Frames : lev[f] = 3}

\* The frames are those of directories and pages on their way R, of what these lead
\* to, and of empty tables that are lost.
Good(m, R) == \E lev : Shape(m, lev) /\ R = Highest(lev)

Bare(m, f) == \A i \in Slots : m.tab[f][i].frame = 0

\* Frames and entries.
LEMMA FrameType ==
  ASSUME SpaceConstantsOK
  PROVE  /\ F \in Nat \ {0} /\ Frames = 1 .. F + 1 /\ F + 1 \in Frames /\ 0 \notin Frames
         /\ Span \in Nat \ {0, 1} /\ 0 \in Slots
         /\ Entry = [frame : {0} \cup Frames, write : BOOLEAN]
         /\ Clear \in Entry /\ Clear.frame = 0 /\ EmptyTable \in [Slots -> Entry]
         /\ \A i \in Slots : EmptyTable[i] = Clear
         /\ FileData \in Values
<1>1. F \in Nat \ {0} /\ Span \in Nat \ {0, 1} /\ FileData \in Values
  BY DEF SpaceConstantsOK
<1>2. Frames = 1 .. F + 1 /\ F + 1 \in Frames /\ 0 \notin Frames /\ 0 \in Slots
  BY <1>1 DEF Frames, Slots
<1>3. 0 .. F + 1 = {0} \cup Frames
  BY <1>1, <1>2
<1>4. Entry = [frame : {0} \cup Frames, write : BOOLEAN]
  BY <1>3 DEF Entry
<1>5. Clear \in Entry /\ Clear.frame = 0
  BY <1>4 DEF Clear
<1>6. EmptyTable \in [Slots -> Entry] /\ \A i \in Slots : EmptyTable[i] = Clear
  BY <1>5 DEF EmptyTable, Slots
<1> QED BY <1>1, <1>2, <1>4, <1>5, <1>6

\* What an entry of a table is.
LEMMA EntryType ==
  ASSUME SpaceConstantsOK, NEW m, m.tab \in Tables, NEW f \in Frames, NEW i \in Slots
  PROVE  /\ m.tab[f] \in [Slots -> Entry] /\ m.tab[f][i] \in Entry
         /\ m.tab[f][i].frame \in {0} \cup Frames /\ m.tab[f][i].write \in BOOLEAN
BY FrameType DEF Tables

\* Frames without entries hold an empty table.
LEMMA BareEmpty ==
  ASSUME SpaceConstantsOK, NEW m, NEW lev, m.tab \in Tables, Downward(m, lev),
         NEW f \in Frames, Bare(m, f)
  PROVE  m.tab[f] = EmptyTable
<1>1. \A i \in Slots : m.tab[f][i] = Clear
  BY DEF Bare, Downward
<1>2. m.tab[f] \in [Slots -> Entry] /\ EmptyTable \in [Slots -> Entry]
  BY FrameType, EntryType DEF Tables
<1> QED BY <1>1, <1>2, FrameType

\* Only directories and tables have entries.
LEMMA LowBare ==
  ASSUME SpaceConstantsOK, NEW m, NEW lev, Shape(m, lev), NEW f \in Frames, lev[f] \notin 1 .. 3
  PROVE  Bare(m, f) /\ m.tab[f] = EmptyTable
<1>1. Bare(m, f)
  BY DEF Bare, Shape, Downward
<1> QED BY <1>1, BareEmpty DEF Shape, Typed

\* A frame that is taken.
LEMMA AddShape ==
  ASSUME SpaceConstantsOK, NEW m, NEW lev, Shape(m, lev), NEW f \in Frames, f # F + 1, lev[f] = -2,
         NEW n, Typed(n), n.used = m.used \cup {f}, n.data = m.data,
         \A x \in Frames : n.ref[x] = m.ref[x],
         \A x \in Frames, i \in Slots : n.tab[x][i] = m.tab[x][i]
  PROVE  \E new : Shape(n, new) /\ Highest(new) = Highest(lev) \cup {f}
<1>1. PICK new : new = [lev EXCEPT ![f] = 3]
  OBVIOUS
<1>2. lev \in [Frames -> Levels]
  BY DEF Shape, Levelled
<1>3. new \in [Frames -> Levels] /\ \A x \in Frames : new[x] = IF x = f THEN 3 ELSE lev[x]
  BY <1>1, <1>2 DEF Levels
<1>4. Bare(m, f)
  BY LowBare
<1>5. \A x \in Frames, i \in Slots : n.tab[x][i].frame # 0 => n.tab[x][i].frame # f /\ x # f
  <2>1. \A x \in Frames, i \in Slots : m.tab[x][i].frame # 0 => lev[m.tab[x][i].frame] \in 0 .. 2
    BY <1>2 DEF Shape, Downward, Levels
  <2> QED BY <1>4, <2>1 DEF Bare
<1>6. Levelled(n, new)
  BY <1>3, FrameType DEF Shape, Levelled
<1>7. Downward(n, new)
  <2>1. \A x \in Frames, i \in Slots :
          n.tab[x][i].frame = m.tab[x][i].frame /\ n.tab[x][i].frame \in {0} \cup Frames
    BY EntryType DEF Typed
  <2> QED BY <1>3, <1>5, <2>1 DEF Shape, Downward
<1>8. OneName(n)
  BY DEF Shape, OneName
<1>9. AllNamed(n, new)
  BY <1>3 DEF Shape, AllNamed
<1>10. Highest(new) = Highest(lev) \cup {f}
  BY <1>3 DEF Highest
<1>11. Shape(n, new)
  BY <1>6, <1>7, <1>8, <1>9 DEF Shape
<1> QED BY <1>10, <1>11

\* The entry i of the table t is made to lead to f.
Linked(m, n, t, i, f) ==
  /\ Typed(n) /\ n.used = m.used /\ n.val = m.val /\ n.tab[t][i].frame = f
  /\ \A x \in Frames : n.ref[x] = IF x = f THEN 1 ELSE m.ref[x]
  /\ \A x \in Frames, j \in Slots : x # t \/ j # i => n.tab[x][j] = m.tab[x][j]

\* A frame that an entry is made to lead to.
LEMMA LinkShape ==
  ASSUME SpaceConstantsOK, NEW m, NEW lev, Shape(m, lev), NEW f \in Frames, lev[f] = 3, Bare(m, f),
         NEW t \in Frames, lev[t] \in 1 .. 3, t # f, NEW i \in Slots, m.tab[t][i].frame = 0,
         NEW n, Linked(m, n, t, i, f), n.data = IF lev[t] = 1 THEN m.data \cup {f} ELSE m.data
  PROVE  \E new : Shape(n, new) /\ Highest(new) = Highest(lev) \ {f}
<1>0. /\ Typed(n) /\ n.used = m.used /\ n.tab[t][i].frame = f
      /\ \A x \in Frames : n.ref[x] = IF x = f THEN 1 ELSE m.ref[x]
      /\ \A x \in Frames, j \in Slots : x # t \/ j # i => n.tab[x][j] = m.tab[x][j]
  BY DEF Linked
<1>1. PICK new : new = [lev EXCEPT ![f] = lev[t] - 1]
  OBVIOUS
<1>2. lev \in [Frames -> Levels] /\ f # F + 1
  BY DEF Shape, Levelled
<1>3. /\ new \in [Frames -> Levels]
      /\ \A x \in Frames : new[x] = IF x = f THEN lev[t] - 1 ELSE lev[x]
  BY <1>1, <1>2 DEF Levels
<1>4. \A x \in Frames, j \in Slots : m.tab[x][j].frame # 0 => m.tab[x][j].frame # f /\ x # f
  <2>1. \A x \in Frames, j \in Slots : m.tab[x][j].frame # 0 => lev[m.tab[x][j].frame] \in 0 .. 2
    BY <1>2 DEF Shape, Downward, Levels
  <2> QED BY <2>1 DEF Bare
<1>5. Levelled(n, new)
  BY <1>0, <1>2, <1>3, FrameType DEF Shape, Levelled
<1>6. \A x \in Frames, j \in Slots : n.tab[x][j].frame \in {0} \cup Frames
  BY <1>0, EntryType DEF Typed
<1>7. Downward(n, new)
  <2> SUFFICES ASSUME NEW x \in Frames, NEW j \in Slots
               PROVE  IF n.tab[x][j].frame = 0 THEN n.tab[x][j] = Clear
                      ELSE new[x] \in 1 .. 3 /\ new[n.tab[x][j].frame] = new[x] - 1
    BY DEF Downward
  <2>1. CASE x = t /\ j = i
    BY <1>0, <1>3, <2>1, FrameType
  <2>2. CASE ~ (x = t /\ j = i)
    <3>1. n.tab[x][j] = m.tab[x][j]
      BY <1>0, <2>2
    <3> QED BY <1>3, <1>4, <1>6, <3>1 DEF Shape, Downward
  <2> QED BY <2>1, <2>2
<1>8. OneName(n)
  BY <1>0, <1>4 DEF Shape, OneName
<1>9. AllNamed(n, new)
  <2> SUFFICES ASSUME NEW x \in Frames, new[x] \in 0 .. 2
               PROVE  \E s \in Frames, j \in Slots : n.tab[s][j].frame = x
    BY DEF AllNamed
  <2>1. CASE x = f
    BY <1>0, <2>1
  <2>2. CASE x # f
    <3>1. PICK s \in Frames, j \in Slots : m.tab[s][j].frame = x
      BY <1>3, <2>2 DEF Shape, AllNamed
    <3>2. s # t \/ j # i
      BY <3>1, FrameType
    <3> QED BY <1>0, <3>1, <3>2
  <2> QED BY <2>1, <2>2
<1>10. Highest(new) = Highest(lev) \ {f}
  BY <1>3 DEF Highest
<1>11. Shape(n, new)
  BY <1>0, <1>5, <1>7, <1>8, <1>9 DEF Shape
<1> QED BY <1>10, <1>11

\* A page or a directory that is freed, with the entry that led to it.
LEMMA FreeShape ==
  ASSUME SpaceConstantsOK, NEW m, NEW lev, Shape(m, lev), NEW f \in Frames, lev[f] \in {0, 3},
         Bare(m, f), NEW n, Typed(n), n.used = m.used \ {f}, n.data = m.data \ {f},
         \A x \in Frames : n.ref[x] = IF x = f THEN 0 ELSE m.ref[x],
         \A x \in Frames, j \in Slots :
           n.tab[x][j] = IF m.tab[x][j].frame = f THEN Clear ELSE m.tab[x][j]
  PROVE  \E new : Shape(n, new) /\ Highest(new) = Highest(lev) \ {f}
<1>1. PICK new : new = [lev EXCEPT ![f] = -2]
  OBVIOUS
<1>2. lev \in [Frames -> Levels]
  BY DEF Shape, Levelled
<1>3. /\ new \in [Frames -> Levels]
      /\ \A x \in Frames : new[x] = IF x = f THEN -2 ELSE lev[x]
  BY <1>1, <1>2 DEF Levels
<1>4. Levelled(n, new)
  BY <1>3, FrameType DEF Shape, Levelled
<1>5. \A x \in Frames, j \in Slots : n.tab[x][j].frame # 0 =>
        /\ n.tab[x][j] = m.tab[x][j] /\ x # f /\ n.tab[x][j].frame # f
        /\ n.tab[x][j].frame \in Frames
  BY EntryType, FrameType DEF Typed, Bare
<1>6. Downward(n, new)
  <2> SUFFICES ASSUME NEW x \in Frames, NEW j \in Slots
               PROVE  IF n.tab[x][j].frame = 0 THEN n.tab[x][j] = Clear
                      ELSE new[x] \in 1 .. 3 /\ new[n.tab[x][j].frame] = new[x] - 1
    BY DEF Downward
  <2>1. CASE n.tab[x][j].frame = 0
    BY <2>1 DEF Shape, Downward
  <2>2. CASE n.tab[x][j].frame # 0
    <3>1. lev[x] \in 1 .. 3 /\ lev[n.tab[x][j].frame] = lev[x] - 1
      BY <1>5, <2>2 DEF Shape, Downward
    <3> QED BY <1>3, <1>5, <2>2, <3>1
  <2> QED BY <2>1, <2>2
<1>7. OneName(n)
  BY <1>5 DEF Shape, OneName
<1>8. AllNamed(n, new)
  <2> SUFFICES ASSUME NEW x \in Frames, new[x] \in 0 .. 2
               PROVE  \E s \in Frames, j \in Slots : n.tab[s][j].frame = x
    BY DEF AllNamed
  <2>1. x # f /\ lev[x] \in 0 .. 2
    BY <1>3
  <2>2. PICK s \in Frames, j \in Slots : m.tab[s][j].frame = x
    BY <2>1 DEF Shape, AllNamed
  <2> QED BY <2>1, <2>2
<1>9. Highest(new) = Highest(lev) \ {f}
  BY <1>3 DEF Highest
<1>10. Shape(n, new)
  BY <1>4, <1>6, <1>7, <1>8 DEF Shape
<1> QED BY <1>9, <1>10

\* A table of the middle that is freed: those it led to are lost.
LEMMA LoseShape ==
  ASSUME SpaceConstantsOK, NEW m, NEW lev, Shape(m, lev), NEW f \in Frames, lev[f] = 2,
         \A j \in Slots : m.tab[f][j].frame # 0 => Bare(m, m.tab[f][j].frame),
         NEW n, Typed(n), n.used = m.used \ {f}, n.data = m.data \ {f},
         \A x \in Frames : n.ref[x] = IF x = f THEN 0 ELSE m.ref[x],
         \A x \in Frames, j \in Slots :
           n.tab[x][j] = IF x = f \/ m.tab[x][j].frame = f THEN Clear ELSE m.tab[x][j]
  PROVE  \E new : Shape(n, new) /\ Highest(new) = Highest(lev)
<1> DEFINE lost(x) == \E j \in Slots : m.tab[f][j].frame = x
<1>1. PICK new : new = [x \in Frames |-> IF x = f THEN -2 ELSE IF lost(x) THEN -1 ELSE lev[x]]
  OBVIOUS
<1>2. lev \in [Frames -> Levels]
  BY DEF Shape, Levelled
<1>3. \A x \in Frames : lost(x) => lev[x] = 1 /\ Bare(m, x) /\ x # f
  <2> SUFFICES ASSUME NEW x \in Frames, NEW j \in Slots, m.tab[f][j].frame = x
               PROVE  lev[x] = 1 /\ Bare(m, x) /\ x # f
    OBVIOUS
  <2>1. x # 0
    BY FrameType
  <2>2. lev[x] = lev[f] - 1
    BY <2>1 DEF Shape, Downward
  <2> QED BY <2>1, <2>2
<1>4. \A x \in Frames : /\ new[x] \in Levels
                        /\ x = f => new[x] = -2
                        /\ x # f /\ lost(x) => new[x] = -1
                        /\ x # f /\ ~ lost(x) => new[x] = lev[x]
  <2>1. \A x \in Frames : new[x] = IF x = f THEN -2 ELSE IF lost(x) THEN -1 ELSE lev[x]
    BY <1>1
  <2> HIDE DEF lost
  <2> QED BY <1>2, <2>1 DEF Levels
<1> HIDE DEF lost
<1>5. new \in [Frames -> Levels]
  <2>1. new = [x \in Frames |-> new[x]]
    BY <1>1
  <2> QED BY <1>4, <2>1
<1>6. F + 1 # f /\ ~ lost(F + 1)
  BY <1>3, FrameType DEF Shape, Levelled
<1>7. Levelled(n, new)
  <2>1. new[F + 1] = -2
    BY <1>4, <1>6, FrameType DEF Shape, Levelled
  <2>2. \A x \in Frames : /\ x \in n.used <=> new[x] # -2
                          /\ x \in n.data <=> new[x] = 0
                          /\ n.ref[x] = IF new[x] \in {-2, 3} THEN 0 ELSE 1
    <3> SUFFICES ASSUME NEW x \in Frames
                 PROVE  /\ x \in n.used <=> new[x] # -2
                        /\ x \in n.data <=> new[x] = 0
                        /\ n.ref[x] = IF new[x] \in {-2, 3} THEN 0 ELSE 1
      OBVIOUS
    <3>1. /\ x \in m.used <=> lev[x] # -2
          /\ x \in m.data <=> lev[x] = 0
          /\ m.ref[x] = IF lev[x] \in {-2, 3} THEN 0 ELSE 1
      BY DEF Shape, Levelled
    <3> QED BY <1>3, <1>4, <3>1
  <2> QED BY <1>5, <2>1, <2>2 DEF Levelled
<1>8. \A x \in Frames, j \in Slots : n.tab[x][j].frame # 0 =>
        /\ n.tab[x][j] = m.tab[x][j] /\ x # f /\ n.tab[x][j].frame # f
        /\ n.tab[x][j].frame \in Frames
  BY EntryType, FrameType DEF Typed
<1>9. \A x \in Frames, j \in Slots : n.tab[x][j].frame # 0 =>
        ~ lost(x) /\ ~ lost(n.tab[x][j].frame)
  <2> SUFFICES ASSUME NEW x \in Frames, NEW j \in Slots, n.tab[x][j].frame # 0
               PROVE  ~ lost(x) /\ ~ lost(n.tab[x][j].frame)
    OBVIOUS
  <2>1. ~ lost(x)
    BY <1>3, <1>8 DEF Bare
  <2>2. m.tab[x][j].frame # 0 /\ x # f /\ n.tab[x][j].frame = m.tab[x][j].frame
    BY <1>8
  <2>3. \A k \in Slots : m.tab[f][k].frame # m.tab[x][j].frame
    BY <2>2 DEF Shape, OneName
  <2> QED BY <2>1, <2>2, <2>3 DEF lost
<1>10. Downward(n, new)
  <2> SUFFICES ASSUME NEW x \in Frames, NEW j \in Slots
               PROVE  IF n.tab[x][j].frame = 0 THEN n.tab[x][j] = Clear
                      ELSE new[x] \in 1 .. 3 /\ new[n.tab[x][j].frame] = new[x] - 1
    BY DEF Downward
  <2>1. CASE n.tab[x][j].frame = 0
    BY <2>1 DEF Shape, Downward
  <2>2. CASE n.tab[x][j].frame # 0
    <3>1. lev[x] \in 1 .. 3 /\ lev[n.tab[x][j].frame] = lev[x] - 1
      BY <1>8, <2>2 DEF Shape, Downward
    <3>2. new[x] = lev[x] /\ new[n.tab[x][j].frame] = lev[n.tab[x][j].frame]
      BY <1>4, <1>8, <1>9, <2>2
    <3> QED BY <2>2, <3>1, <3>2
  <2> QED BY <2>1, <2>2
<1>11. OneName(n)
  BY <1>8 DEF Shape, OneName
<1>12. AllNamed(n, new)
  <2> SUFFICES ASSUME NEW x \in Frames, new[x] \in 0 .. 2
               PROVE  \E s \in Frames, j \in Slots : n.tab[s][j].frame = x
    BY DEF AllNamed
  <2>1. x # f /\ ~ lost(x) /\ lev[x] \in 0 .. 2
    BY <1>4
  <2>2. PICK s \in Frames, j \in Slots : m.tab[s][j].frame = x
    BY <2>1 DEF Shape, AllNamed
  <2>3. s # f
    BY <2>1, <2>2 DEF lost
  <2> QED BY <2>1, <2>2, <2>3
<1>13. Highest(new) = Highest(lev)
  <2>1. \A x \in Frames : new[x] = 3 <=> lev[x] = 3
    BY <1>3, <1>4
  <2> QED BY <2>1 DEF Highest
<1> QED BY <1>7, <1>10, <1>11, <1>12, <1>13 DEF Shape

\* A page that is written to.
LEMMA ValueShape ==
  ASSUME NEW m, NEW lev, Shape(m, lev), NEW n, Typed(n), n.used = m.used, n.data = m.data,
         n.ref = m.ref, n.tab = m.tab
  PROVE  Shape(n, lev)
BY DEF Shape, Levelled, Downward, OneName, AllNamed

\* The table of the middle level for the page a.
Mid(m, r, a) == m.tab[r][Pdx1(a)].frame

\* What a process finds in a page: whether it may write, and what is there.
Cell(m, r, a) ==
  IF Pte(m, r, a).frame = 0 THEN <<>> ELSE <<Pte(m, r, a).write, m.val[Pte(m, r, a).frame]>>

Cells(m, r) == [a \in UserPages |-> Cell(m, r, a)]

\* The entries of a directory that are in use.
Tops(m, r) == {i \in Slots : m.tab[r][i].frame # 0}

\* Nothing happens to the directory, or the page on its way, r.
Kept(m, n, r) == Tops(n, r) = Tops(m, r) /\ Cells(n, r) = Cells(m, r) /\ n.val[r] = m.val[r]

\* Nothing happens to those of S.
AllKept(m, n, S) == \A x \in S : Kept(m, n, x)

\* A directory without entries leads to no table.
LEMMA BareTops ==
  ASSUME NEW m, NEW r
  PROVE  Bare(m, r) <=> Tops(m, r) = {}
BY DEF Bare, Tops

\* What two steps leave alone, both together do.
LEMMA KeptOn ==
  ASSUME NEW m, NEW n, NEW o, NEW r, Kept(m, n, r), Kept(n, o, r)
  PROVE  Kept(m, o, r)
BY DEF Kept

\* A page that is mapped is not an empty cell.
LEMMA CellIs ==
  ASSUME NEW m, NEW r, NEW a
  PROVE  Cell(m, r, a) = <<>> <=> Pte(m, r, a).frame = 0
<1>1. \A x, y : <<x, y>> # <<>>
  OBVIOUS
<1> QED BY <1>1 DEF Cell

\* The way from a directory to a page.
LEMMA Way ==
  ASSUME SpaceConstantsOK, NEW m, NEW lev, Shape(m, lev), NEW r \in Frames, lev[r] = 3,
         NEW a \in UserPages
  PROVE  /\ Mid(m, r, a) \in {0} \cup Frames
         /\ Mid(m, r, a) # 0 => lev[Mid(m, r, a)] = 2
         /\ Mid(m, r, a) = 0 => Table(m, r, a) = 0
         /\ Mid(m, r, a) # 0 => Table(m, r, a) = m.tab[Mid(m, r, a)][Pdx0(a)].frame
         /\ Table(m, r, a) \in {0} \cup Frames
         /\ Table(m, r, a) # 0 => lev[Table(m, r, a)] = 1
         /\ Table(m, r, a) = 0 => Pte(m, r, a) = Clear
         /\ Table(m, r, a) # 0 => Pte(m, r, a) = m.tab[Table(m, r, a)][Ptx(a)]
         /\ Pte(m, r, a) \in Entry
         /\ Pte(m, r, a).frame # 0 => /\ Pte(m, r, a).frame \in Frames
                                      /\ lev[Pte(m, r, a).frame] = 0
<1>1. Pdx1(a) \in Slots /\ Pdx0(a) \in Slots /\ Ptx(a) \in Slots
  BY FirstIndex
<1>2. m.tab \in Tables /\ Downward(m, lev)
  BY DEF Shape, Typed
<1>3. /\ Mid(m, r, a) \in {0} \cup Frames
      /\ Mid(m, r, a) # 0 => lev[Mid(m, r, a)] = 2
  BY <1>1, <1>2, EntryType DEF Mid, Downward
<1>4. /\ Mid(m, r, a) = 0 => Table(m, r, a) = 0
      /\ Mid(m, r, a) # 0 => Table(m, r, a) = m.tab[Mid(m, r, a)][Pdx0(a)].frame
  BY DEF Mid, Table
<1>5. /\ Table(m, r, a) \in {0} \cup Frames
      /\ Table(m, r, a) # 0 => lev[Table(m, r, a)] = 1
  BY <1>1, <1>2, <1>3, <1>4, EntryType DEF Downward
<1>6. /\ Table(m, r, a) = 0 => Pte(m, r, a) = Clear
      /\ Table(m, r, a) # 0 => Pte(m, r, a) = m.tab[Table(m, r, a)][Ptx(a)]
  BY DEF Pte
<1>7. /\ Pte(m, r, a) \in Entry
      /\ Pte(m, r, a).frame # 0 => /\ Pte(m, r, a).frame \in Frames
                                   /\ lev[Pte(m, r, a).frame] = 0
  BY <1>1, <1>2, <1>5, <1>6, EntryType, FrameType DEF Downward
<1> QED BY <1>3, <1>4, <1>5, <1>6, <1>7

\* A page whose way is not touched is the same.
LEMMA SameWay ==
  ASSUME SpaceConstantsOK, NEW m, NEW lev, Shape(m, lev), NEW r \in Frames, lev[r] = 3,
         NEW a \in UserPages, NEW n, Mid(n, r, a) = Mid(m, r, a),
         Mid(m, r, a) # 0 =>
           n.tab[Mid(m, r, a)][Pdx0(a)].frame = m.tab[Mid(m, r, a)][Pdx0(a)].frame,
         Table(m, r, a) # 0 => n.tab[Table(m, r, a)][Ptx(a)] = m.tab[Table(m, r, a)][Ptx(a)],
         Pte(m, r, a).frame # 0 => n.val[Pte(m, r, a).frame] = m.val[Pte(m, r, a).frame]
  PROVE  Table(n, r, a) = Table(m, r, a) /\ Pte(n, r, a) = Pte(m, r, a)
         /\ Cell(n, r, a) = Cell(m, r, a)
<1>1. Table(n, r, a) = Table(m, r, a)
  BY DEF Table, Mid
<1>2. Pte(n, r, a) = Pte(m, r, a)
  BY <1>1 DEF Pte
<1> QED BY <1>1, <1>2 DEF Cell

\* Two ways that meet are one.
LEMMA OneWay ==
  ASSUME SpaceConstantsOK, NEW m, NEW lev, Shape(m, lev),
         NEW r \in Frames, lev[r] = 3, NEW a \in UserPages,
         NEW s \in Frames, lev[s] = 3, NEW b \in UserPages
  PROVE  /\ Mid(m, r, a) # 0 /\ Mid(m, r, a) = Mid(m, s, b) => r = s /\ Pdx1(a) = Pdx1(b)
         /\ Table(m, r, a) # 0 /\ Table(m, r, a) = Table(m, s, b)
              => r = s /\ Mid(m, r, a) = Mid(m, s, b) /\ Pdx1(a) = Pdx1(b) /\ Pdx0(a) = Pdx0(b)
         /\ Pte(m, r, a).frame # 0 /\ Pte(m, r, a).frame = Pte(m, s, b).frame => r = s /\ a = b
<1>1. /\ Pdx1(a) \in Slots /\ Pdx0(a) \in Slots /\ Ptx(a) \in Slots
      /\ Pdx1(b) \in Slots /\ Pdx0(b) \in Slots /\ Ptx(b) \in Slots
  BY FirstIndex
<1>2. OneName(m)
  BY DEF Shape
<1>3. Mid(m, r, a) # 0 /\ Mid(m, r, a) = Mid(m, s, b) => r = s /\ Pdx1(a) = Pdx1(b)
  BY <1>1, <1>2 DEF Mid, OneName
<1>4. Table(m, r, a) # 0 /\ Table(m, r, a) = Table(m, s, b)
        => r = s /\ Mid(m, r, a) = Mid(m, s, b) /\ Pdx1(a) = Pdx1(b) /\ Pdx0(a) = Pdx0(b)
  <2> SUFFICES ASSUME Table(m, r, a) # 0, Table(m, r, a) = Table(m, s, b)
               PROVE  r = s /\ Mid(m, r, a) = Mid(m, s, b) /\ Pdx1(a) = Pdx1(b)
                      /\ Pdx0(a) = Pdx0(b)
    OBVIOUS
  <2>1. /\ Mid(m, r, a) \in Frames /\ Table(m, r, a) = m.tab[Mid(m, r, a)][Pdx0(a)].frame
        /\ Mid(m, r, a) # 0
    BY Way, FrameType
  <2>2. Mid(m, s, b) \in Frames /\ Table(m, s, b) = m.tab[Mid(m, s, b)][Pdx0(b)].frame
    BY Way, FrameType
  <2>3. Mid(m, r, a) = Mid(m, s, b) /\ Pdx0(a) = Pdx0(b)
    <3>1. PICK x \in Frames : x = Mid(m, r, a)
      BY <2>1
    <3>2. PICK y \in Frames : y = Mid(m, s, b)
      BY <2>2
    <3>3. /\ m.tab[x][Pdx0(a)].frame # 0
          /\ m.tab[x][Pdx0(a)].frame = m.tab[y][Pdx0(b)].frame
      BY <2>1, <2>2, <3>1, <3>2
    <3> QED BY <1>1, <1>2, <3>1, <3>2, <3>3 DEF OneName
  <2> QED BY <1>3, <2>1, <2>3
<1>5. Pte(m, r, a).frame # 0 /\ Pte(m, r, a).frame = Pte(m, s, b).frame => r = s /\ a = b
  <2> SUFFICES ASSUME Pte(m, r, a).frame # 0, Pte(m, r, a).frame = Pte(m, s, b).frame
               PROVE  r = s /\ a = b
    OBVIOUS
  <2>1. /\ Table(m, r, a) \in Frames /\ Pte(m, r, a) = m.tab[Table(m, r, a)][Ptx(a)]
        /\ Table(m, r, a) # 0
    BY Way, FrameType
  <2>2. Table(m, s, b) \in Frames /\ Pte(m, s, b) = m.tab[Table(m, s, b)][Ptx(b)]
    BY Way, FrameType
  <2>3. Table(m, r, a) = Table(m, s, b) /\ Ptx(a) = Ptx(b)
    BY <1>1, <1>2, <2>1, <2>2 DEF OneName
  <2> QED BY <1>4, <2>1, <2>3, SamePage
<1> QED BY <1>3, <1>4, <1>5

-----------------------------------------------------------------------------
(* What directories hold: get_pte(), page_insert() and pgdir_alloc_page() *)

NoCells == [a \in UserPages |-> <<>>]

\* alloc_page() gives a frame that is not in use, or the one that is not there.
LEMMA LowestIs ==
  ASSUME SpaceConstantsOK, NEW m, m.used \in SUBSET Frames
  PROVE  Lowest(m) \in Frames /\ (Lowest(m) # F + 1 => Lowest(m) \notin m.used)
<1> DEFINE T == {f \in Frames : f \notin m.used \ {F + 1}}
<1>1. F + 1 \in T /\ T \in SUBSET Nat /\ F \in Nat
  BY FrameType
<1>2. PICK x \in T : \A y \in T : x <= y
  BY <1>1, LeastOf
<1>3. x \in Frames /\ x \notin m.used \ {F + 1}
  OBVIOUS
<1>4. 1 .. x - 1 \subseteq m.used
  <2> SUFFICES ASSUME NEW y \in 1 .. x - 1, y \notin m.used PROVE FALSE
    OBVIOUS
  <2>1. x \in Nat /\ y \in Nat /\ y < x /\ x <= F + 1
    BY <1>1, <1>2, <1>3
  <2>2. y \in Frames
    BY <1>1, <2>1, FrameType
  <2>3. y \in T
    BY <2>2
  <2> QED BY <1>2, <2>1, <2>3
<1>5. Lowest(m) \in Frames /\ Lowest(m) \notin m.used \ {F + 1}
  BY <1>3, <1>4, Zenon DEF Lowest
<1> QED BY <1>5

\* A frame that is taken becomes a directory, or a page on its way.
LEMMA AddGood ==
  ASSUME SpaceConstantsOK, NEW m, NEW R, Good(m, R), NEW f \in Frames, f \notin m.used, f # F + 1,
         NEW n, Typed(n), n.used = m.used \cup {f}, n.data = m.data, n.tab = m.tab,
         \A x \in Frames : n.ref[x] = IF x = f THEN 0 ELSE m.ref[x],
         \A x \in Frames : x # f => n.val[x] = m.val[x]
  PROVE  /\ Good(n, R \cup {f}) /\ f \notin R /\ Tops(n, f) = {} /\ Cells(n, f) = NoCells
         /\ \A r \in R : Kept(m, n, r)
<1>1. PICK lev : Shape(m, lev) /\ R = Highest(lev)
  BY DEF Good
<1>2. lev[f] = -2 /\ \A x \in Frames : n.ref[x] = m.ref[x]
  BY <1>1 DEF Shape, Levelled
<1>4. PICK new : Shape(n, new) /\ Highest(new) = R \cup {f}
  <2>1. \A x \in Frames, i \in Slots : n.tab[x][i] = m.tab[x][i]
    OBVIOUS
  <2>2. \E w : Shape(n, w) /\ Highest(w) = Highest(lev) \cup {f}
    BY <1>1, <1>2, <2>1, AddShape
  <2> QED BY <1>1, <2>2
<1>5. f \notin R
  BY <1>1, <1>2 DEF Highest
<1>6. Bare(n, f)
  BY <1>1, <1>2, LowBare DEF Bare
<1>7. Tops(n, f) = {}
  BY <1>6, BareTops
<1>8. Cells(n, f) = NoCells
  <2> SUFFICES ASSUME NEW a \in UserPages PROVE Cell(n, f, a) = <<>>
    BY DEF Cells, NoCells
  <2>1. Pdx1(a) \in Slots
    BY FirstIndex
  <2>2. n.tab[f][Pdx1(a)].frame = 0
    BY <1>6, <2>1 DEF Bare
  <2>3. Pte(n, f, a) = Clear
    BY <2>2 DEF Table, Pte
  <2> QED BY <2>3, FrameType DEF Cell
<1>9. ASSUME NEW r \in R
      PROVE  Kept(m, n, r)
  <2>1. r \in Frames /\ lev[r] = 3 /\ r # f
    BY <1>1, <1>5 DEF Highest
  <2>2. ASSUME NEW a \in UserPages
        PROVE  Cell(n, r, a) = Cell(m, r, a)
    <3>1. Pte(m, r, a).frame # 0 => Pte(m, r, a).frame \in Frames /\ Pte(m, r, a).frame # f
      BY <1>1, <1>2, <2>1, Way
    <3>2. Mid(n, r, a) = Mid(m, r, a)
      BY DEF Mid
    <3>3. Pte(m, r, a).frame # 0 => n.val[Pte(m, r, a).frame] = m.val[Pte(m, r, a).frame]
      BY <3>1
    <3> QED BY <1>1, <2>1, <3>2, <3>3, SameWay
  <2>3. Cells(n, r) = Cells(m, r)
    BY <2>2 DEF Cells
  <2> QED BY <2>1, <2>3 DEF Kept, Tops
<1>10. Good(n, R \cup {f})
  BY <1>4 DEF Good
<1> QED BY <1>5, <1>7, <1>8, <1>9, <1>10

\* A page that is taken and holds v.
Holding(m, v) == [Taken(m, 0) EXCEPT !.val[Lowest(m)] = v]

\* The frame f is new, and nothing is in it.
Fresh(m, n, R, f) ==
  /\ Good(n, R \cup {f}) /\ f \notin R /\ f \in Frames
  /\ Tops(n, f) = {} /\ Cells(n, f) = NoCells
  /\ \A r \in R : Kept(m, n, r)

\* alloc_page() gives a frame that nobody has, or there is none.
LEMMA TakenAny ==
  ASSUME SpaceConstantsOK, NEW m, NEW R, Good(m, R), NEW n, NEW f, f = Lowest(m), NEW u \in Values,
         n = Taken(m, 0) \/ n = Holding(m, u)
  PROVE  \/ Gone(n)
         \/ Fresh(m, n, R, f) /\ (n = Holding(m, u) => n.val[f] = u)
<1>1. Typed(m)
  BY DEF Good, Shape
<1>2. f \in Frames /\ (f # F + 1 => f \notin m.used)
  BY <1>1, LowestIs DEF Typed
<1>3. PICK t : t = Taken(m, 0)
  OBVIOUS
<1>9. \A v : Holding(m, v) = [t EXCEPT !.val[f] = v]
  BY <1>3 DEF Holding
<1>4. /\ Rec(t) /\ t.used = m.used \cup {f} /\ t.ref = [m.ref EXCEPT ![f] = 0] /\ t.tab = m.tab
      /\ t.val = m.val /\ t.data = m.data /\ t.out = (f = F + 1)
  <2>1. /\ Rec(t) /\ t.used = m.used \cup {f} /\ t.ref = [m.ref EXCEPT ![f] = 0] /\ t.tab = m.tab
        /\ t.val = m.val /\ t.data = m.data /\ t.out = (m.out \/ f = F + 1)
    BY <1>1, <1>3 DEF Typed, Rec, Taken
  <2>2. (m.out \/ f = F + 1) = (f = F + 1)
    BY <1>1 DEF Typed
  <2> QED BY <2>1, <2>2
<1>5. ASSUME NEW v, n = [t EXCEPT !.val[f] = v]
      PROVE  /\ Rec(n) /\ n.used = t.used /\ n.ref = t.ref /\ n.tab = t.tab
             /\ n.val = [t.val EXCEPT ![f] = v] /\ n.data = t.data /\ n.out = t.out
  BY <1>4, <1>5 DEF Rec
<1>6. /\ Rec(n) /\ n.used = t.used /\ n.ref = t.ref /\ n.tab = t.tab /\ n.data = t.data
      /\ n.out = t.out /\ \E v \in Values : n.val = [m.val EXCEPT ![f] = v]
      /\ \A v : n = [t EXCEPT !.val[f] = v] => n.val = [m.val EXCEPT ![f] = v]
  <2>1. \A v : n = [t EXCEPT !.val[f] = v] => n.val = [m.val EXCEPT ![f] = v]
    BY <1>4, <1>5
  <2>2. CASE n = t
    <3>1. m.val[f] \in Values /\ m.val = [m.val EXCEPT ![f] = m.val[f]]
      BY <1>1, <1>2 DEF Typed
    <3> QED BY <1>4, <2>1, <2>2, <3>1, Zenon
  <2>3. CASE n = [t EXCEPT !.val[f] = u]
    BY <1>5, <2>1, <2>3
  <2> QED BY <1>3, <1>9, <2>2, <2>3
<1>7. CASE f = F + 1
  BY <1>4, <1>6, <1>7 DEF Gone
<1>8. CASE f # F + 1
  <2>1. PICK v \in Values : n.val = [m.val EXCEPT ![f] = v]
    BY <1>6
  <2>2. Typed(n)
    <3>1. n.ref \in [Frames -> Int] /\ n.val \in [Frames -> Values]
      BY <1>1, <1>2, <1>4, <1>6, <2>1 DEF Typed
    <3>2. n.used \in SUBSET Frames /\ n.data \in SUBSET Frames /\ n.tab \in Tables
      BY <1>1, <1>2, <1>4, <1>6 DEF Typed
    <3>3. n.out = FALSE
      BY <1>4, <1>6, <1>8
    <3> QED BY <1>6, <3>1, <3>2, <3>3 DEF Typed
  <2>3. \A x \in Frames : n.ref[x] = IF x = f THEN 0 ELSE m.ref[x]
    BY <1>1, <1>2, <1>4, <1>6 DEF Typed
  <2>4. \A x \in Frames : x # f => n.val[x] = m.val[x]
    BY <1>1, <1>2, <2>1 DEF Typed
  <2>5. n.used = m.used \cup {f} /\ n.data = m.data /\ n.tab = m.tab
    BY <1>4, <1>6
  <2>6. /\ Good(n, R \cup {f}) /\ f \notin R /\ Tops(n, f) = {} /\ Cells(n, f) = NoCells
        /\ \A r \in R : Kept(m, n, r)
    <3>1. f \in Frames /\ f \notin m.used /\ f # F + 1 /\ Good(m, R)
      BY <1>2, <1>8
    <3> QED BY <2>2, <2>3, <2>4, <2>5, <3>1, AddGood
  <2>7. ASSUME n = Holding(m, u)
        PROVE  n.val[f] = u
    <3>1. n.val = [m.val EXCEPT ![f] = u]
      BY <1>6, <1>9, <2>7
    <3> QED BY <1>1, <1>2, <3>1 DEF Typed
  <2> QED BY <1>2, <2>6, <2>7 DEF Fresh
<1> QED BY <1>7, <1>8

\* A page that is taken for a directory, and one that holds something.
LEMMA TakenGood ==
  ASSUME SpaceConstantsOK, NEW m, NEW R, Good(m, R), NEW f, f = Lowest(m),
         NEW n, n = Taken(m, 0)
  PROVE  Gone(n) \/ Fresh(m, n, R, f)
BY TakenAny, FrameType

\* alloc_page() for a page, which then holds v, unless there is no frame.
LEMMA TakenHolds ==
  ASSUME SpaceConstantsOK, NEW m, NEW R, Good(m, R), NEW f, f = Lowest(m), NEW v \in Values,
         NEW n, n = Holding(m, v)
  PROVE  Gone(n) \/ (Fresh(m, n, R, f) /\ n.val[f] = v)
BY TakenAny

\* The directory r has a table at the entry i, and the same pages.
Widened(m, n, r, i) == Tops(n, r) = Tops(m, r) \cup {i} /\ Cells(n, r) = Cells(m, r)

\* The directory r gets the page a, and at most the table that this needs.
Gets(m, n, r, a, c) ==
  Tops(n, r) \subseteq Tops(m, r) \cup {Pdx1(a)} /\ Cells(n, r) = [Cells(m, r) EXCEPT ![a] = c]

\* An entry of a directory leads to a new table.
LEMMA LinkTop ==
  ASSUME SpaceConstantsOK, NEW m, NEW R, Good(m, R), NEW f \in R, Tops(m, f) = {},
         NEW r \in R, r # f, NEW i \in Slots, m.tab[r][i].frame = 0,
         NEW n, Linked(m, n, r, i, f), n.data = m.data
  PROVE  /\ Good(n, R \ {f}) /\ Widened(m, n, r, i)
         /\ \A x \in R : x # f /\ x # r => Kept(m, n, x)
<1>1. PICK lev : Shape(m, lev) /\ R = Highest(lev)
  BY DEF Good
<1>2. f \in Frames /\ lev[f] = 3 /\ Bare(m, f) /\ r \in Frames /\ lev[r] = 3
  BY <1>1, BareTops DEF Highest
<1>3. Good(n, R \ {f})
  <2>1. /\ Shape(m, lev) /\ f \in Frames /\ lev[f] = 3 /\ Bare(m, f) /\ r \in Frames
        /\ lev[r] \in 1 .. 3 /\ r # f /\ i \in Slots /\ m.tab[r][i].frame = 0
        /\ Linked(m, n, r, i, f) /\ n.data = (IF lev[r] = 1 THEN m.data \cup {f} ELSE m.data)
    BY <1>1, <1>2
  <2>2. \E new : Shape(n, new) /\ Highest(new) = Highest(lev) \ {f}
    BY <2>1, LinkShape
  <2> QED BY <1>1, <2>2 DEF Good
<1>4. Tops(n, r) = Tops(m, r) \cup {i}
  BY <1>2, FrameType DEF Tops, Linked
<1>5. ASSUME NEW x \in R, x # f
      PROVE  Cells(n, x) = Cells(m, x)
  <2> SUFFICES ASSUME NEW a \in UserPages PROVE Cell(n, x, a) = Cell(m, x, a)
    BY DEF Cells
  <2>1. Pdx1(a) \in Slots /\ Pdx0(a) \in Slots /\ Ptx(a) \in Slots
    BY FirstIndex
  <2>2. x \in Frames /\ lev[x] = 3
    BY <1>1 DEF Highest
  <2>3. CASE x = r /\ Pdx1(a) = i
    <3>1. Mid(n, x, a) = f /\ f # 0 /\ Mid(m, x, a) = 0
      BY <1>2, <2>3, FrameType DEF Mid, Linked
    <3>2. n.tab[f][Pdx0(a)].frame = 0
      BY <1>2, <2>1 DEF Linked, Bare
    <3>3. Table(n, x, a) = 0 /\ Table(m, x, a) = 0
      BY <3>1, <3>2 DEF Mid, Table
    <3> QED BY <3>3, FrameType DEF Cell, Pte
  <2>4. CASE ~ (x = r /\ Pdx1(a) = i)
    <3>1. Mid(n, x, a) = Mid(m, x, a)
      BY <2>1, <2>2, <2>4 DEF Mid, Linked
    <3>2. Mid(m, x, a) # 0 => Mid(m, x, a) \in Frames /\ Mid(m, x, a) # r
      BY <1>1, <1>2, <2>2, Way
    <3>3. Table(m, x, a) # 0 => Table(m, x, a) \in Frames /\ Table(m, x, a) # r
      BY <1>1, <1>2, <2>2, Way
    <3>4. Mid(m, x, a) # 0 =>
            n.tab[Mid(m, x, a)][Pdx0(a)].frame = m.tab[Mid(m, x, a)][Pdx0(a)].frame
      BY <2>1, <3>2 DEF Linked
    <3>5. Table(m, x, a) # 0 => n.tab[Table(m, x, a)][Ptx(a)] = m.tab[Table(m, x, a)][Ptx(a)]
      BY <2>1, <3>3 DEF Linked
    <3>6. n.val = m.val
      BY DEF Linked
    <3> QED BY <1>1, <2>2, <3>1, <3>4, <3>5, <3>6, SameWay
  <2> QED BY <2>3, <2>4
<1>6. ASSUME NEW x \in R, x # f, x # r
      PROVE  Kept(m, n, x)
  <2>1. x \in Frames
    BY <1>1 DEF Highest
  <2>2. \A j \in Slots : n.tab[x][j] = m.tab[x][j]
    BY <1>6, <2>1 DEF Linked
  <2>3. Tops(n, x) = Tops(m, x)
    BY <2>2 DEF Tops
  <2>4. n.val[x] = m.val[x]
    BY DEF Linked
  <2> QED BY <1>5, <1>6, <2>3, <2>4 DEF Kept
<1>7. Widened(m, n, r, i)
  BY <1>4, <1>5 DEF Widened
<1> QED BY <1>3, <1>6, <1>7

\* An entry of a table of the middle level leads to a new table.
LEMMA LinkMid ==
  ASSUME SpaceConstantsOK, NEW m, NEW R, Good(m, R), NEW f \in R, Tops(m, f) = {},
         NEW r \in R, r # f, NEW b \in UserPages, Mid(m, r, b) # 0, Table(m, r, b) = 0,
         NEW n, Linked(m, n, Mid(m, r, b), Pdx0(b), f), n.data = m.data
  PROVE  Good(n, R \ {f}) /\ \A x \in R : x # f => Kept(m, n, x)
<1>1. PICK lev : Shape(m, lev) /\ R = Highest(lev)
  BY DEF Good
<1>2. f \in Frames /\ lev[f] = 3 /\ Bare(m, f) /\ r \in Frames /\ lev[r] = 3
  BY <1>1, BareTops DEF Highest
<1>3. PICK t : t = Mid(m, r, b)
  OBVIOUS
<1>4. /\ t \in Frames /\ lev[t] = 2 /\ t # f /\ Pdx0(b) \in Slots
      /\ m.tab[t][Pdx0(b)].frame = 0
  BY <1>1, <1>2, <1>3, Way, FirstIndex
<1>5. /\ Typed(n) /\ n.used = m.used /\ n.tab[t][Pdx0(b)].frame = f
      /\ n.data = IF lev[t] = 1 THEN m.data \cup {f} ELSE m.data
      /\ \A x \in Frames : n.ref[x] = IF x = f THEN 1 ELSE m.ref[x]
      /\ \A x \in Frames, j \in Slots : x # t \/ j # Pdx0(b) => n.tab[x][j] = m.tab[x][j]
      /\ n.val = m.val
  BY <1>3, <1>4 DEF Linked
<1>6. Good(n, R \ {f})
  <2>1. /\ Shape(m, lev) /\ f \in Frames /\ lev[f] = 3 /\ Bare(m, f) /\ t \in Frames
        /\ lev[t] \in 1 .. 3 /\ t # f /\ Pdx0(b) \in Slots /\ m.tab[t][Pdx0(b)].frame = 0
        /\ Linked(m, n, t, Pdx0(b), f)
        /\ n.data = (IF lev[t] = 1 THEN m.data \cup {f} ELSE m.data)
    BY <1>1, <1>2, <1>3, <1>4
  <2>2. \E new : Shape(n, new) /\ Highest(new) = Highest(lev) \ {f}
    BY <2>1, LinkShape
  <2> QED BY <1>1, <2>2 DEF Good
<1>7. ASSUME NEW x \in R, x # f
      PROVE  Kept(m, n, x)
  <2>1. x \in Frames /\ lev[x] = 3 /\ x # t
    BY <1>1, <1>4 DEF Highest
  <2>2. \A j \in Slots : n.tab[x][j] = m.tab[x][j]
    BY <1>5, <2>1
  <2>3. Tops(n, x) = Tops(m, x)
    BY <2>2 DEF Tops
  <2>4. ASSUME NEW a \in UserPages
        PROVE  Cell(n, x, a) = Cell(m, x, a)
    <3>1. Pdx1(a) \in Slots /\ Pdx0(a) \in Slots /\ Ptx(a) \in Slots
      BY FirstIndex
    <3>2. Mid(n, x, a) = Mid(m, x, a)
      BY <2>2, <3>1 DEF Mid
    <3>3. CASE Mid(m, x, a) = t /\ Pdx0(a) = Pdx0(b)
      <4>1. Table(n, x, a) = f /\ Table(m, x, a) = 0
        BY <1>4, <1>5, <3>2, <3>3, FrameType DEF Table, Mid
      <4>2. f # 0 /\ n.tab[f][Ptx(a)] = m.tab[f][Ptx(a)] /\ m.tab[f][Ptx(a)].frame = 0
        BY <1>2, <1>4, <1>5, <3>1, FrameType DEF Bare
      <4> QED BY <4>1, <4>2, FrameType DEF Cell, Pte
    <3>4. CASE ~ (Mid(m, x, a) = t /\ Pdx0(a) = Pdx0(b))
      <4>1. Mid(m, x, a) # 0 => Mid(m, x, a) \in Frames
        BY <1>1, <2>1, Way
      <4>2. Table(m, x, a) # 0 => Table(m, x, a) \in Frames /\ Table(m, x, a) # t
        BY <1>1, <1>4, <2>1, Way
      <4>3. Mid(m, x, a) # 0 =>
              n.tab[Mid(m, x, a)][Pdx0(a)].frame = m.tab[Mid(m, x, a)][Pdx0(a)].frame
        BY <1>5, <3>1, <3>4, <4>1
      <4>4. Table(m, x, a) # 0 => n.tab[Table(m, x, a)][Ptx(a)] = m.tab[Table(m, x, a)][Ptx(a)]
        BY <1>5, <3>1, <4>2
      <4> QED BY <1>1, <1>5, <2>1, <3>2, <4>3, <4>4, SameWay
    <3> QED BY <3>3, <3>4
  <2>5. Cells(n, x) = Cells(m, x)
    BY <2>4 DEF Cells
  <2> QED BY <1>5, <2>3, <2>5 DEF Kept
<1> QED BY <1>6, <1>7

\* An entry of a table of the last level leads to a page.
LEMMA LinkPage ==
  ASSUME SpaceConstantsOK, NEW m, NEW R, Good(m, R), NEW f \in R, Tops(m, f) = {},
         NEW r \in R, r # f, NEW b \in UserPages, Table(m, r, b) # 0, Cell(m, r, b) = <<>>,
         NEW n, Linked(m, n, Table(m, r, b), Ptx(b), f), n.data = m.data \cup {f}
  PROVE  /\ Good(n, R \ {f})
         /\ Gets(m, n, r, b, <<n.tab[Table(m, r, b)][Ptx(b)].write, m.val[f]>>)
         /\ AllKept(m, n, R \ {f, r})
<1>0. PICK w : w = n.tab[Table(m, r, b)][Ptx(b)].write
  OBVIOUS
<1>1. PICK lev : Shape(m, lev) /\ R = Highest(lev)
  BY DEF Good
<1>2. f \in Frames /\ lev[f] = 3 /\ Bare(m, f) /\ r \in Frames /\ lev[r] = 3
  BY <1>1, BareTops DEF Highest
<1>3. PICK t : t = Table(m, r, b)
  OBVIOUS
<1>4. /\ t \in Frames /\ lev[t] = 1 /\ t # f /\ Ptx(b) \in Slots /\ t # 0
      /\ m.tab[t][Ptx(b)].frame = 0
  <2>1. t \in Frames /\ lev[t] = 1 /\ Pte(m, r, b) = m.tab[t][Ptx(b)]
    BY <1>1, <1>2, <1>3, Way
  <2> QED BY <1>2, <2>1, CellIs, FirstIndex, FrameType
<1>5. /\ Typed(n) /\ n.used = m.used /\ n.tab[t][Ptx(b)].frame = f
      /\ n.data = IF lev[t] = 1 THEN m.data \cup {f} ELSE m.data
      /\ \A x \in Frames : n.ref[x] = IF x = f THEN 1 ELSE m.ref[x]
      /\ \A x \in Frames, j \in Slots : x # t \/ j # Ptx(b) => n.tab[x][j] = m.tab[x][j]
      /\ n.val = m.val /\ n.tab[t][Ptx(b)].write = w
  BY <1>0, <1>3, <1>4 DEF Linked
<1>6. Good(n, R \ {f})
  <2>1. /\ Shape(m, lev) /\ f \in Frames /\ lev[f] = 3 /\ Bare(m, f) /\ t \in Frames
        /\ lev[t] \in 1 .. 3 /\ t # f /\ Ptx(b) \in Slots /\ m.tab[t][Ptx(b)].frame = 0
        /\ Linked(m, n, t, Ptx(b), f)
        /\ n.data = (IF lev[t] = 1 THEN m.data \cup {f} ELSE m.data)
    BY <1>1, <1>2, <1>3, <1>4
  <2>2. \E new : Shape(n, new) /\ Highest(new) = Highest(lev) \ {f}
    BY <2>1, LinkShape
  <2> QED BY <1>1, <2>2 DEF Good
<1>7. ASSUME NEW x \in R, x # f
      PROVE  /\ Tops(n, x) = Tops(m, x)
             /\ \A a \in UserPages : ~ (x = r /\ a = b) => Cell(n, x, a) = Cell(m, x, a)
             /\ \A a \in UserPages : Table(n, x, a) = Table(m, x, a)
  <2>1. x \in Frames /\ lev[x] = 3 /\ x # t
    BY <1>1, <1>4 DEF Highest
  <2>2. \A j \in Slots : n.tab[x][j] = m.tab[x][j]
    BY <1>5, <2>1
  <2>3. Tops(n, x) = Tops(m, x)
    BY <2>2 DEF Tops
  <2>4. ASSUME NEW a \in UserPages
        PROVE  /\ Table(n, x, a) = Table(m, x, a)
               /\ ~ (x = r /\ a = b) => Cell(n, x, a) = Cell(m, x, a)
    <3>1. Pdx1(a) \in Slots /\ Pdx0(a) \in Slots /\ Ptx(a) \in Slots
      BY FirstIndex
    <3>2. Mid(n, x, a) = Mid(m, x, a)
      BY <2>2, <3>1 DEF Mid
    <3>3. Mid(m, x, a) # 0 => Mid(m, x, a) \in Frames /\ Mid(m, x, a) # t
      BY <1>1, <1>4, <2>1, Way
    <3>4. Mid(m, x, a) # 0 =>
            n.tab[Mid(m, x, a)][Pdx0(a)].frame = m.tab[Mid(m, x, a)][Pdx0(a)].frame
      BY <1>5, <3>1, <3>3
    <3>5. Table(n, x, a) = Table(m, x, a)
      BY <3>2, <3>4 DEF Table, Mid
    <3>6. ASSUME ~ (x = r /\ a = b)
          PROVE  Cell(n, x, a) = Cell(m, x, a)
      <4>1. Table(m, x, a) # 0 => Table(m, x, a) \in Frames
        BY <1>1, <2>1, Way
      <4>2. ~ (Table(m, x, a) = t /\ Ptx(a) = Ptx(b))
        <5> SUFFICES ASSUME Table(m, x, a) = t, Ptx(a) = Ptx(b) PROVE FALSE
          OBVIOUS
        <5>1. x = r /\ Pdx1(a) = Pdx1(b) /\ Pdx0(a) = Pdx0(b)
          BY <1>1, <1>2, <1>3, <1>4, <2>1, OneWay
        <5>2. a = b
          BY <5>1, SamePage
        <5> QED BY <3>6, <5>1, <5>2
      <4>3. Table(m, x, a) # 0 => n.tab[Table(m, x, a)][Ptx(a)] = m.tab[Table(m, x, a)][Ptx(a)]
        BY <1>5, <3>1, <4>1, <4>2
      <4> QED BY <1>1, <1>5, <2>1, <3>2, <3>4, <4>3, SameWay
    <3> QED BY <3>5, <3>6
  <2> QED BY <2>3, <2>4
<1>8. Cells(n, r) = [Cells(m, r) EXCEPT ![b] = <<w, m.val[f]>>]
  <2>1. Table(n, r, b) = t
    BY <1>3, <1>7
  <2>2. Pte(n, r, b) = n.tab[t][Ptx(b)]
    BY <1>4, <2>1 DEF Pte
  <2>3. Cell(n, r, b) = <<w, m.val[f]>>
    BY <1>2, <1>5, <2>2, FrameType DEF Cell
  <2>4. \A a \in UserPages : Cell(n, r, a) = IF a = b THEN <<w, m.val[f]>> ELSE Cell(m, r, a)
    BY <1>7, <2>3
  <2> QED BY <2>4 DEF Cells
<1>9. ASSUME NEW x \in R, x # f, x # r
      PROVE  Kept(m, n, x)
  <2>1. Cells(n, x) = Cells(m, x)
    BY <1>7, <1>9 DEF Cells
  <2> QED BY <1>5, <1>7, <1>9, <2>1 DEF Kept
<1>10. Gets(m, n, r, b, <<w, m.val[f]>>)
  BY <1>2, <1>7, <1>8 DEF Gets
<1>11. AllKept(m, n, R \ {f, r})
  BY <1>9 DEF AllKept
<1> QED BY <1>0, <1>6, <1>10, <1>11

\* get_pte() with a new table.
Extended(m, t, i) == [Taken(m, 1) EXCEPT !.tab[t][i].frame = Lowest(m)]

\* get_pte() takes a frame for a table and makes an entry lead to it.
LEMMA NewTable ==
  ASSUME SpaceConstantsOK, NEW m, Typed(m), NEW t \in Frames, NEW i \in Slots,
         NEW f, f = Lowest(m), NEW k, k = Taken(m, 0),
         NEW n, n = Extended(m, t, i)
  PROVE  /\ Gone(k) => Gone(n)
         /\ Typed(k) => Linked(k, n, t, i, f) /\ n.data = k.data
<1>1. f \in Frames
  BY LowestIs DEF Typed
<1>2. /\ k.used = m.used \cup {f} /\ k.ref = [m.ref EXCEPT ![f] = 0] /\ k.tab = m.tab
      /\ k.val = m.val /\ k.data = m.data /\ k.out = (m.out \/ f = F + 1)
  BY DEF Typed, Rec, Taken
<1>3. PICK s : s = Taken(m, 1)
  OBVIOUS
<1>4. /\ Rec(s) /\ s.used = m.used \cup {f} /\ s.ref = [m.ref EXCEPT ![f] = 1] /\ s.tab = m.tab
      /\ s.val = m.val /\ s.data = m.data /\ s.out = (m.out \/ f = F + 1)
  BY <1>3 DEF Typed, Rec, Taken
<1>5. n = [s EXCEPT !.tab[t][i].frame = f]
  BY <1>3 DEF Extended
<1>6. /\ Rec(n) /\ n.used = s.used /\ n.ref = s.ref /\ n.val = s.val /\ n.data = s.data
      /\ n.out = s.out /\ n.tab = [s.tab EXCEPT ![t][i].frame = f]
  BY <1>4, <1>5 DEF Rec
<1>7. Gone(k) => Gone(n)
  BY <1>2, <1>4, <1>6 DEF Gone
<1>8. ASSUME Typed(k)
      PROVE  Linked(k, n, t, i, f) /\ n.data = k.data
  <2>1. m.tab \in Tables /\ m.tab[t] \in [Slots -> Entry] /\ m.tab[t][i] \in Entry
    BY EntryType DEF Typed
  <2>2. PICK e : e = [m.tab[t][i] EXCEPT !.frame = f]
    OBVIOUS
  <2>3. e \in Entry /\ e.frame = f
    <3>1. PICK x \in [frame : {0} \cup Frames, write : BOOLEAN] : x = m.tab[t][i]
      BY <2>1, FrameType
    <3>2. e = [x EXCEPT !.frame = f]
      BY <2>2, <3>1
    <3>3. e = [frame |-> f, write |-> x.write]
      BY <3>2
    <3> QED BY <1>1, <3>3, FrameType
  <2>4. PICK row \in [Slots -> Entry] : row = [m.tab[t] EXCEPT ![i] = e]
    BY <2>1, <2>3
  <2>10. n.tab = [m.tab EXCEPT ![t] = row] /\ row[i] = e
         /\ \A j \in Slots : j # i => row[j] = m.tab[t][j]
    BY <1>4, <1>6, <2>1, <2>2, <2>4
  <2>5. n.tab \in Tables /\ n.tab[t][i] = e
        /\ \A x \in Frames, j \in Slots : x # t \/ j # i => n.tab[x][j] = k.tab[x][j]
    BY <1>2, <2>1, <2>4, <2>10 DEF Tables
  <2>6. \A x \in Frames : n.ref[x] = IF x = f THEN 1 ELSE k.ref[x]
    BY <1>1, <1>2, <1>4, <1>6 DEF Typed
  <2>7. n.ref \in [Frames -> Int]
    BY <1>1, <1>4, <1>6 DEF Typed
  <2>8. n.out = FALSE /\ n.used \in SUBSET Frames /\ n.val \in [Frames -> Values]
        /\ n.data \in SUBSET Frames
    BY <1>2, <1>4, <1>6, <1>8 DEF Typed
  <2>9. Typed(n)
    BY <1>6, <2>5, <2>7, <2>8 DEF Typed
  <2> QED BY <1>2, <1>4, <1>6, <2>3, <2>5, <2>6, <2>9 DEF Linked
<1> QED BY <1>7, <1>8

\* get_pte() at the directory.
LEMMA TopTable ==
  ASSUME SpaceConstantsOK, NEW m, NEW R, Good(m, R), NEW r \in R, NEW i \in Slots,
         NEW n, n = WithTable(m, r, i)
  PROVE  \/ Gone(n)
         \/ /\ Good(n, R) /\ n.tab[r][i].frame # 0 /\ n.val[r] = m.val[r]
            /\ Widened(m, n, r, i)
            /\ \A x \in R \ {r} : Kept(m, n, x)
<1>1. CASE m.tab[r][i].frame # 0
  BY <1>1 DEF WithTable, Tops, Kept, Widened
<1>2. CASE m.tab[r][i].frame = 0
  <2>1. Typed(m) /\ r \in Frames
    BY DEF Good, Shape, Highest
  <2>2. PICK f : f = Lowest(m)
    OBVIOUS
  <2>3. PICK k : k = Taken(m, 0)
    OBVIOUS
  <2>4. n = Extended(m, r, i)
    BY <1>2 DEF WithTable, Extended
  <2>5. /\ Gone(k) => Gone(n)
        /\ Typed(k) => Linked(k, n, r, i, f) /\ n.data = k.data
    BY <2>1, <2>2, <2>3, <2>4, NewTable
  <2>6. CASE Gone(k)
    BY <2>5, <2>6
  <2>7. CASE ~ Gone(k)
    <3>1. /\ Good(k, R \cup {f}) /\ f \notin R /\ f \in Frames /\ Tops(k, f) = {}
          /\ \A x \in R : Kept(m, k, x)
      BY <2>2, <2>3, <2>7, TakenGood DEF Fresh
    <3>2. Typed(k)
      BY <3>1 DEF Good, Shape
    <3>3. Linked(k, n, r, i, f) /\ n.data = k.data
      BY <2>5, <3>2
    <3>4. k.tab[r][i].frame = 0 /\ r # f
      BY <1>2, <3>1 DEF Kept, Tops
    <3>5. PICK S : S = R \cup {f}
      OBVIOUS
    <3>6. /\ Good(n, S \ {f}) /\ Widened(k, n, r, i)
          /\ \A x \in S : x # f /\ x # r => Kept(k, n, x)
      <4>1. /\ Good(k, S) /\ f \in S /\ Tops(k, f) = {} /\ r \in S /\ r # f /\ i \in Slots
            /\ k.tab[r][i].frame = 0 /\ Linked(k, n, r, i, f) /\ n.data = k.data
        BY <3>1, <3>3, <3>4, <3>5
      <4> QED BY <4>1, LinkTop
    <3>7. S \ {f} = R
      BY <3>1, <3>5
    <3>8. \A x \in R \ {r} : Kept(m, n, x)
      BY <3>1, <3>5, <3>6, KeptOn
    <3>9. n.tab[r][i].frame # 0 /\ n.val[r] = m.val[r]
      BY <3>1, <3>3, FrameType DEF Linked, Kept
    <3> QED BY <3>1, <3>6, <3>7, <3>8, <3>9 DEF Kept, Widened
  <2> QED BY <2>6, <2>7
<1> QED BY <1>1, <1>2

\* get_pte() at a table of the middle level.
LEMMA MidTable ==
  ASSUME SpaceConstantsOK, NEW m, NEW R, Good(m, R), NEW r \in R, NEW a \in UserPages,
         Mid(m, r, a) # 0, NEW n, n = WithTable(m, Mid(m, r, a), Pdx0(a))
  PROVE  \/ Gone(n)
         \/ Good(n, R) /\ Table(n, r, a) # 0 /\ \A x \in R : Kept(m, n, x)
<1>1. Typed(m) /\ r \in Frames /\ Pdx1(a) \in Slots /\ Pdx0(a) \in Slots
  BY FirstIndex DEF Good, Shape, Highest
<1>2. Mid(m, r, a) \in Frames
  BY <1>1, EntryType DEF Mid, Typed
<1>3. Table(m, r, a) = m.tab[Mid(m, r, a)][Pdx0(a)].frame
  BY DEF Table, Mid
<1>4. CASE Table(m, r, a) # 0
  BY <1>3, <1>4 DEF WithTable, Kept
<1>5. CASE Table(m, r, a) = 0
  <2>2. PICK f : f = Lowest(m)
    OBVIOUS
  <2>3. PICK k : k = Taken(m, 0)
    OBVIOUS
  <2>4. n = Extended(m, Mid(m, r, a), Pdx0(a))
    BY <1>3, <1>5 DEF WithTable, Extended
  <2>5. /\ Gone(k) => Gone(n)
        /\ Typed(k) => Linked(k, n, Mid(m, r, a), Pdx0(a), f) /\ n.data = k.data
    BY <1>1, <1>2, <2>2, <2>3, <2>4, NewTable
  <2>6. CASE Gone(k)
    BY <2>5, <2>6
  <2>7. CASE ~ Gone(k)
    <3>1. /\ Good(k, R \cup {f}) /\ f \notin R /\ f \in Frames /\ Tops(k, f) = {}
          /\ \A x \in R : Kept(m, k, x)
      BY <2>2, <2>3, <2>7, TakenGood DEF Fresh
    <3>2. Typed(k)
      BY <3>1 DEF Good, Shape
    <3>3. Linked(k, n, Mid(m, r, a), Pdx0(a), f) /\ n.data = k.data
      BY <2>5, <3>2
    <3>4. k.tab = m.tab
      BY <1>1, <2>3 DEF Typed, Rec, Taken
    <3>5. Mid(k, r, a) = Mid(m, r, a) /\ Table(k, r, a) = 0 /\ r # f
      BY <1>5, <3>1, <3>4 DEF Mid, Table
    <3>6. PICK S : S = R \cup {f}
      OBVIOUS
    <3>7. Good(n, S \ {f}) /\ \A x \in S : x # f => Kept(k, n, x)
      <4>1. Linked(k, n, Mid(k, r, a), Pdx0(a), f)
        BY <3>3, <3>5
      <4> QED BY <3>1, <3>3, <3>5, <3>6, <4>1, LinkMid
    <3>8. S \ {f} = R
      BY <3>1, <3>6
    <3>9. \A x \in R : Kept(m, n, x)
      BY <3>1, <3>6, <3>7, KeptOn
    <3>10. Table(n, r, a) # 0
      <4>1. n.tab[Mid(m, r, a)][Pdx0(a)].frame = f /\ f # 0
        BY <3>1, <3>3, FrameType DEF Linked
      <4>2. Mid(m, r, a) # r
        <5>1. PICK lev : Shape(m, lev) /\ R = Highest(lev)
          BY DEF Good
        <5>2. lev[Mid(m, r, a)] = 2
          BY <1>1, <5>1, Way DEF Highest
        <5> QED BY <5>1, <5>2 DEF Highest
      <4>3. Mid(n, r, a) = Mid(m, r, a)
        BY <1>1, <3>3, <3>4, <4>2 DEF Linked, Mid
      <4> QED BY <4>1, <4>3 DEF Table, Mid
    <3> QED BY <3>7, <3>8, <3>9, <3>10
  <2> QED BY <2>6, <2>7
<1> QED BY <1>4, <1>5

\* get_pte() finds or makes the table for a page, and nothing else changes.
LEMMA TablesGood ==
  ASSUME SpaceConstantsOK, NEW m, NEW R, Good(m, R), NEW r \in R, NEW a \in UserPages,
         NEW n, n = WithTables(m, r, a)
  PROVE  \/ Gone(n)
         \/ /\ Good(n, R) /\ Table(n, r, a) # 0 /\ n.val[r] = m.val[r]
            /\ Widened(m, n, r, Pdx1(a))
            /\ \A x \in R \ {r} : Kept(m, n, x)
<1>1. Pdx1(a) \in Slots
  BY FirstIndex
<1>2. PICK k : k = WithTable(m, r, Pdx1(a))
  OBVIOUS
<1>3. n = WithTable(k, Mid(k, r, a), Pdx0(a))
  BY <1>2 DEF WithTables, Mid
<1>4. CASE Gone(k)
  BY <1>3, <1>4, GoneTables
<1>5. CASE ~ Gone(k)
  <2>1. /\ Good(k, R) /\ Mid(k, r, a) # 0 /\ k.val[r] = m.val[r]
        /\ Widened(m, k, r, Pdx1(a))
        /\ \A x \in R \ {r} : Kept(m, k, x)
    BY <1>1, <1>2, <1>5, TopTable DEF Mid
  <2>2. \/ Gone(n)
        \/ Good(n, R) /\ Table(n, r, a) # 0 /\ \A x \in R : Kept(k, n, x)
    BY <1>3, <2>1, MidTable
  <2> QED BY <2>1, <2>2, KeptOn DEF Kept, Widened
<1> QED BY <1>4, <1>5

\* page_insert() of a page where there is none.
LEMMA InsertedGood ==
  ASSUME SpaceConstantsOK, NEW m, NEW R, Good(m, R), NEW f \in R, Tops(m, f) = {},
         NEW r \in R, r # f, NEW a \in UserPages, Cell(m, r, a) = <<>>, NEW w \in BOOLEAN,
         NEW n, n = PageInserted(m, r, a, f, w)
  PROVE  \/ Gone(n)
         \/ /\ Good(n, R \ {f}) /\ Gets(m, n, r, a, <<w, m.val[f]>>)
            /\ \A x \in R : x # f /\ x # r => Kept(m, n, x)
<1>1. PICK k : k = WithTables(m, r, a)
  OBVIOUS
<1>2. PICK t : t = Table(k, r, a)
  OBVIOUS
<1>3. n = EnteredAt(k, t, Ptx(a), f, w)
  BY <1>1, <1>2, InsertedIs
<1>4. CASE Gone(k)
  BY <1>3, <1>4, GoneEntered
<1>5. CASE ~ Gone(k)
  <2>1. /\ Good(k, R) /\ t # 0 /\ Widened(m, k, r, Pdx1(a))
        /\ \A x \in R \ {r} : Kept(m, k, x)
    BY <1>1, <1>2, <1>5, TablesGood
  <2>2. PICK lev : Shape(k, lev) /\ R = Highest(lev)
    BY <2>1 DEF Good
  <2>3. r \in Frames /\ lev[r] = 3 /\ f \in Frames /\ lev[f] = 3 /\ Typed(k) /\ f # 0
    BY <2>2, FrameType DEF Highest, Shape
  <2>4. t \in Frames /\ Pte(k, r, a) = k.tab[t][Ptx(a)] /\ Ptx(a) \in Slots
    BY <1>2, <2>1, <2>2, <2>3, Way, FirstIndex
  <2>5. Cell(k, r, a) = <<>> /\ Tops(k, f) = {} /\ k.val[f] = m.val[f]
    BY <2>1 DEF Widened, Kept, Cells
  <2>6. k.tab[t][Ptx(a)].frame = 0
    BY <2>4, <2>5, CellIs
  <2>7. PICK c : c = [k EXCEPT !.ref[f] = @ + 1, !.data = @ \cup {f}]
    OBVIOUS
  <2>8. /\ Rec(c) /\ c.used = k.used /\ c.ref = [k.ref EXCEPT ![f] = k.ref[f] + 1]
        /\ c.tab = k.tab /\ c.val = k.val /\ c.data = k.data \cup {f} /\ c.out = FALSE
    BY <2>3, <2>7 DEF Typed, Rec
  <2>9. RemovedPte(c, t, Ptx(a)) = c
    BY <2>6, <2>8 DEF RemovedPte
  <2>10. PICK e : e = [frame |-> f, write |-> w]
    OBVIOUS
  <2>11. n = [c EXCEPT !.tab[t][Ptx(a)] = e]
    BY <1>3, <2>3, <2>6, <2>7, <2>9, <2>10 DEF EnteredAt
  <2>12. /\ Rec(n) /\ n.used = k.used /\ n.ref = c.ref /\ n.val = k.val
         /\ n.data = k.data \cup {f} /\ n.out = FALSE
         /\ n.tab = [k.tab EXCEPT ![t] = [k.tab[t] EXCEPT ![Ptx(a)] = e]]
    BY <2>8, <2>11 DEF Rec
  <2>13. e \in Entry /\ e.frame = f /\ e.write = w
    BY <2>3, <2>10, FrameType
  <2>14. PICK row \in [Slots -> Entry] : row = [k.tab[t] EXCEPT ![Ptx(a)] = e]
    BY <2>3, <2>4, <2>13, EntryType DEF Typed
  <2>15. row[Ptx(a)] = e /\ \A j \in Slots : j # Ptx(a) => row[j] = k.tab[t][j]
    BY <2>3, <2>4, <2>14, EntryType DEF Typed
  <2>16. n.tab \in Tables /\ n.tab[t][Ptx(a)] = e
         /\ \A x \in Frames, j \in Slots : x # t \/ j # Ptx(a) => n.tab[x][j] = k.tab[x][j]
    <3>1. n.tab = [k.tab EXCEPT ![t] = row] /\ k.tab \in Tables
      BY <2>3, <2>12, <2>14 DEF Typed
    <3> QED BY <2>4, <2>15, <3>1 DEF Tables
  <2>17. k.ref[f] = 0
    BY <2>2, <2>3 DEF Shape, Levelled
  <2>18. n.ref \in [Frames -> Int]
         /\ \A x \in Frames : n.ref[x] = IF x = f THEN 1 ELSE k.ref[x]
    BY <2>3, <2>8, <2>12, <2>17 DEF Typed
  <2>19. Typed(n)
    BY <2>3, <2>12, <2>16, <2>18 DEF Typed
  <2>20. Linked(k, n, t, Ptx(a), f)
    BY <2>12, <2>13, <2>16, <2>18, <2>19 DEF Linked
  <2>21. /\ Good(n, R \ {f}) /\ Gets(k, n, r, a, <<w, k.val[f]>>)
         /\ \A x \in R : x # f /\ x # r => Kept(k, n, x)
    <3>1. /\ Good(k, R) /\ Tops(k, f) = {} /\ r # f /\ Table(k, r, a) # 0
          /\ Cell(k, r, a) = <<>> /\ Linked(k, n, Table(k, r, a), Ptx(a), f)
          /\ n.data = k.data \cup {f} /\ n.tab[Table(k, r, a)][Ptx(a)].write = w
      BY <1>2, <2>1, <2>5, <2>12, <2>13, <2>16, <2>20
    <3>2. /\ Good(n, R \ {f})
          /\ Gets(k, n, r, a, <<n.tab[Table(k, r, a)][Ptx(a)].write, k.val[f]>>)
          /\ AllKept(k, n, R \ {f, r})
      BY <3>1, LinkPage
    <3> QED BY <3>1, <3>2 DEF AllKept
  <2>22. Gets(m, n, r, a, <<w, m.val[f]>>)
    BY <2>1, <2>5, <2>21 DEF Gets, Widened
  <2>23. \A x \in R : x # f /\ x # r => Kept(m, n, x)
    BY <2>1, <2>21, KeptOn
  <2> QED BY <2>21, <2>22, <2>23
<1> QED BY <1>4, <1>5

\* pgdir_alloc_page() of a page where there is none.
LEMMA AllocedGood ==
  ASSUME SpaceConstantsOK, NEW m, NEW R, Good(m, R), NEW r \in R, NEW a \in UserPages,
         Cell(m, r, a) = <<>>, NEW w \in BOOLEAN, NEW v \in Values,
         NEW n, n = PageAlloced(m, r, a, w, v)
  PROVE  \/ Gone(n)
         \/ /\ Good(n, R) /\ Gets(m, n, r, a, <<w, v>>)
            /\ \A x \in R \ {r} : Kept(m, n, x)
<1>1. PICK f : f = Lowest(m)
  OBVIOUS
<1>2. PICK k : k = Holding(m, v)
  OBVIOUS
<1>3. n = PageInserted(k, r, a, f, w)
  BY <1>1, <1>2 DEF PageAlloced, Holding
<1>4. CASE Gone(k)
  BY <1>3, <1>4, GoneInserted
<1>5. CASE ~ Gone(k)
  <2>1. /\ Good(k, R \cup {f}) /\ f \notin R /\ Tops(k, f) = {} /\ k.val[f] = v
        /\ \A x \in R : Kept(m, k, x)
    <3>1. Fresh(m, k, R, f) /\ k.val[f] = v
      BY <1>1, <1>2, <1>5, TakenHolds
    <3> QED BY <3>1 DEF Fresh
  <2>2. PICK S : S = R \cup {f}
    OBVIOUS
  <2>3. Cell(k, r, a) = <<>>
    BY <2>1 DEF Kept, Cells
  <2>4. \/ Gone(n)
        \/ /\ Good(n, S \ {f}) /\ Gets(k, n, r, a, <<w, k.val[f]>>)
           /\ \A x \in S : x # f /\ x # r => Kept(k, n, x)
    <3>1. /\ Good(k, S) /\ f \in S /\ Tops(k, f) = {} /\ r \in S /\ r # f
          /\ Cell(k, r, a) = <<>>
      BY <2>1, <2>2, <2>3
    <3> QED BY <1>3, <3>1, InsertedGood
  <2>5. CASE Gone(n)
    BY <2>5
  <2>6. CASE ~ Gone(n)
    <3>1. S \ {f} = R
      BY <2>1, <2>2
    <3>2. Gets(m, n, r, a, <<w, v>>)
      BY <2>1, <2>4, <2>6 DEF Gets, Kept
    <3>3. \A x \in R \ {r} : Kept(m, n, x)
      BY <2>1, <2>2, <2>4, <2>6, KeptOn
    <3> QED BY <2>4, <2>6, <3>1, <3>2, <3>3
  <2> QED BY <2>5, <2>6
<1> QED BY <1>4, <1>5

\* The step of copy_range(): the child gets what the parent has.
LEMMA CopiedGood ==
  ASSUME SpaceConstantsOK, NEW m, NEW R, Good(m, R), NEW r \in R, NEW s \in R, r # s,
         NEW a \in UserPages, Cell(m, r, a) = <<>>, NEW n, n = CopiedPage(m, r, s, a)
  PROVE  \/ Gone(n)
         \/ /\ Good(n, R) /\ Gets(m, n, r, a, Cell(m, s, a))
            /\ \A x \in R \ {r} : Kept(m, n, x)
<1>1. PICK e : e = Pte(m, s, a)
  OBVIOUS
<1>2. CASE e.frame = 0
  <2>1. n = m
    BY <1>1, <1>2 DEF CopiedPage
  <2>2. Cell(m, s, a) = <<>>
    BY <1>1, <1>2, CellIs
  <2>3. Gets(m, m, r, a, <<>>)
    BY DEF Gets, Cells
  <2> QED BY <2>1, <2>2, <2>3 DEF Kept
<1>3. CASE e.frame # 0
  <2>1. PICK lev : Shape(m, lev) /\ R = Highest(lev)
    BY DEF Good
  <2>2. e \in Entry /\ e.frame \in Frames /\ Typed(m)
    BY <1>1, <1>3, <2>1, Way DEF Highest, Shape
  <2>3. PICK v \in Values : v = m.val[e.frame]
    BY <2>2 DEF Typed
  <2>4. Cell(m, s, a) = <<e.write, v>> /\ e.write \in BOOLEAN
    BY <1>1, <1>3, <2>2, <2>3 DEF Cell, Entry
  <2>5. PICK k : k = WithTables(m, r, a)
    OBVIOUS
  <2>6. n = PageAlloced(k, r, a, e.write, v)
    BY <1>1, <1>3, <2>3, <2>5 DEF CopiedPage, PageAlloced
  <2>7. CASE Gone(k)
    BY <2>6, <2>7, GoneInserted
  <2>8. CASE ~ Gone(k)
    <3>1. Good(k, R) /\ Widened(m, k, r, Pdx1(a)) /\ \A x \in R \ {r} : Kept(m, k, x)
      BY <2>5, <2>8, TablesGood
    <3>2. Cell(k, r, a) = <<>>
      BY <3>1 DEF Widened, Cells
    <3>3. \/ Gone(n)
          \/ /\ Good(n, R) /\ Gets(k, n, r, a, <<e.write, v>>)
             /\ \A x \in R \ {r} : Kept(k, n, x)
      BY <2>4, <2>6, <3>1, <3>2, AllocedGood
    <3>4. Gets(k, n, r, a, <<e.write, v>>) => Gets(m, n, r, a, <<e.write, v>>)
      BY <3>1 DEF Gets, Widened
    <3> QED BY <2>4, <3>1, <3>3, <3>4, KeptOn
  <2> QED BY <2>7, <2>8
<1> QED BY <1>2, <1>3

-----------------------------------------------------------------------------
(* Entries and tables that go: page_remove_pte() and exit_range() *)

\* The tables of the last level are the same.
SameTables(m, n, r) == \A b \in UserPages : Table(n, r, b) = Table(m, r, b)

\* The directory r loses the page a, and no table.
Loses(m, n, r, a) ==
  /\ Tops(n, r) = Tops(m, r) /\ Cells(n, r) = [Cells(m, r) EXCEPT ![a] = <<>>]
  /\ SameTables(m, n, r)

\* free_page()
LEMMA FreedIs ==
  ASSUME SpaceConstantsOK, NEW m, Typed(m), NEW f \in Frames, NEW n, n = Freed(m, f)
  PROVE  /\ Typed(n) /\ n.used = m.used \ {f} /\ n.data = m.data \ {f}
         /\ n.tab = [m.tab EXCEPT ![f] = EmptyTable]
         /\ \A x \in Frames : n.ref[x] = IF x = f THEN 0 ELSE m.ref[x]
         /\ \A x \in Frames : x # f => n.val[x] = m.val[x]
<1>1. /\ Rec(n) /\ n.used = m.used \ {f} /\ n.ref = [m.ref EXCEPT ![f] = 0]
      /\ n.tab = [m.tab EXCEPT ![f] = EmptyTable] /\ n.val = [m.val EXCEPT ![f] = FileData]
      /\ n.data = m.data \ {f} /\ n.out = m.out
  BY DEF Typed, Rec, Freed
<1>2. n.ref \in [Frames -> Int] /\ n.tab \in Tables
  BY <1>1, FrameType DEF Typed, Tables
<1>3. n.val \in [Frames -> Values]
  BY <1>1, FrameType DEF Typed
<1>4. n.used \in SUBSET Frames /\ n.data \in SUBSET Frames /\ n.out = FALSE
  BY <1>1 DEF Typed
<1> QED BY <1>1, <1>2, <1>3, <1>4 DEF Typed

\* What is left of an entry.
ClearedAt(m, t, i) == [m EXCEPT !.tab[t][i] = Clear]

\* The entry is cleared, and all else is the same.
Clears(m, n, t, i) ==
  /\ Typed(n) /\ n.used = m.used /\ n.data = m.data /\ n.ref = m.ref /\ n.val = m.val
  /\ \A x \in Frames, j \in Slots :
       n.tab[x][j] = IF x = t /\ j = i THEN Clear ELSE m.tab[x][j]

\* An entry that is cleared.
LEMMA ClearedIs ==
  ASSUME SpaceConstantsOK, NEW m, Typed(m), NEW t \in Frames, NEW i \in Slots,
         NEW n, n = ClearedAt(m, t, i)
  PROVE  Clears(m, n, t, i)
<1>1. PICK row : row = [m.tab[t] EXCEPT ![i] = Clear]
  OBVIOUS
<1>2. /\ Rec(n) /\ n.used = m.used /\ n.ref = m.ref /\ n.val = m.val /\ n.data = m.data
      /\ n.out = m.out /\ n.tab = [m.tab EXCEPT ![t] = row]
  BY <1>1 DEF Typed, Rec, ClearedAt
<1>3. m.tab \in Tables /\ m.tab[t] \in [Slots -> Entry]
  BY EntryType DEF Typed
<1>4. row \in [Slots -> Entry] /\ \A j \in Slots : row[j] = IF j = i THEN Clear ELSE m.tab[t][j]
  BY <1>1, <1>3, FrameType
<1>5. n.tab \in Tables
      /\ \A x \in Frames, j \in Slots :
           n.tab[x][j] = IF x = t /\ j = i THEN Clear ELSE m.tab[x][j]
  BY <1>2, <1>3, <1>4 DEF Tables
<1>6. Typed(n)
  BY <1>2, <1>5 DEF Typed
<1> QED BY <1>2, <1>5, <1>6 DEF Clears

\* page_remove_pte(): the page is freed, for no one else has it.
LEMMA RemovedGood ==
  ASSUME SpaceConstantsOK, NEW m, NEW R, Good(m, R), NEW r \in R, NEW a \in UserPages,
         Table(m, r, a) # 0, NEW n, n = RemovedPte(m, Table(m, r, a), Ptx(a))
  PROVE  Good(n, R) /\ Loses(m, n, r, a) /\ AllKept(m, n, R \ {r})
<1>1. PICK lev : Shape(m, lev) /\ R = Highest(lev)
  BY DEF Good
<1>2. PICK t : t = Table(m, r, a)
  OBVIOUS
<1>3. r \in Frames /\ lev[r] = 3 /\ Typed(m) /\ Ptx(a) \in Slots
  BY <1>1, FirstIndex DEF Highest, Shape
<1>4. t \in Frames /\ lev[t] = 1 /\ Pte(m, r, a) = m.tab[t][Ptx(a)]
  BY <1>1, <1>2, <1>3, Way
<1>5. PICK f : f = m.tab[t][Ptx(a)].frame
  OBVIOUS
<1>6. CASE f = 0
  <2>1. n = m
    BY <1>2, <1>5, <1>6 DEF RemovedPte
  <2>2. Cell(m, r, a) = <<>>
    BY <1>4, <1>5, <1>6, CellIs
  <2>3. Loses(m, m, r, a)
    BY <2>2 DEF Loses, Cells, SameTables
  <2> QED BY <2>1, <2>3 DEF AllKept, Kept
<1>7. CASE f # 0
  <2>1. f \in Frames /\ lev[f] = 0 /\ f # t
    BY <1>1, <1>3, <1>4, <1>5, <1>7, Way
  <2>2. m.ref[f] = 1 /\ Bare(m, f)
    BY <1>1, <2>1, LowBare DEF Shape, Levelled
  <2>3. PICK d : d = [m EXCEPT !.ref[f] = @ - 1]
    OBVIOUS
  <2>4. /\ Rec(d) /\ d.used = m.used /\ d.ref = [m.ref EXCEPT ![f] = m.ref[f] - 1]
        /\ d.tab = m.tab /\ d.val = m.val /\ d.data = m.data /\ d.out = FALSE
    BY <1>3, <2>3 DEF Typed, Rec
  <2>5. Typed(d) /\ d.ref[f] = 0 /\ \A x \in Frames : x # f => d.ref[x] = m.ref[x]
    <3>1. d.ref \in [Frames -> Int] /\ d.ref[f] = 0
          /\ \A x \in Frames : x # f => d.ref[x] = m.ref[x]
      BY <1>3, <2>1, <2>2, <2>4 DEF Typed
    <3> QED BY <1>3, <2>4, <3>1 DEF Typed
  <2>6. PICK g : g = Freed(d, f)
    OBVIOUS
  <2>7. n = ClearedAt(g, t, Ptx(a))
    BY <1>2, <1>5, <1>7, <2>3, <2>5, <2>6 DEF RemovedPte, ClearedAt
  <2>8. /\ Typed(g) /\ g.used = d.used \ {f} /\ g.data = d.data \ {f}
        /\ g.tab = [d.tab EXCEPT ![f] = EmptyTable]
        /\ \A x \in Frames : g.ref[x] = IF x = f THEN 0 ELSE d.ref[x]
        /\ \A x \in Frames : x # f => g.val[x] = d.val[x]
    BY <2>1, <2>5, <2>6, FreedIs
  <2>9. /\ Typed(n) /\ n.used = g.used /\ n.data = g.data /\ n.ref = g.ref /\ n.val = g.val
        /\ \A x \in Frames, j \in Slots :
             n.tab[x][j] = IF x = t /\ j = Ptx(a) THEN Clear ELSE g.tab[x][j]
    <3>1. Clears(g, n, t, Ptx(a))
      BY <1>3, <1>4, <2>7, <2>8, ClearedIs
    <3> QED BY <3>1 DEF Clears
  <2>10. \A x \in Frames, j \in Slots :
           n.tab[x][j] = IF m.tab[x][j].frame = f THEN Clear ELSE m.tab[x][j]
    <3> SUFFICES ASSUME NEW x \in Frames, NEW j \in Slots
                 PROVE  n.tab[x][j] = IF m.tab[x][j].frame = f THEN Clear ELSE m.tab[x][j]
      OBVIOUS
    <3>1. CASE x = t /\ j = Ptx(a)
      BY <1>5, <2>9, <3>1
    <3>2. CASE ~ (x = t /\ j = Ptx(a))
      <4>1. m.tab[x][j].frame # f
        BY <1>1, <1>3, <1>4, <1>5, <1>7, <3>2 DEF Shape, OneName
      <4>2. m.tab[f] = EmptyTable /\ m.tab \in Tables
        BY <1>1, <1>3, <2>1, LowBare DEF Typed
      <4>3. g.tab[x][j] = m.tab[x][j]
        BY <2>1, <2>4, <2>8, <4>2 DEF Tables
      <4> QED BY <2>9, <3>2, <4>1, <4>3
    <3> QED BY <3>1, <3>2
  <2>11. Good(n, R)
    <3>1. \A x \in Frames : n.ref[x] = IF x = f THEN 0 ELSE m.ref[x]
      BY <2>5, <2>8, <2>9
    <3>2. n.used = m.used \ {f} /\ n.data = m.data \ {f} /\ Typed(n) /\ lev[f] \in {0, 3}
      BY <2>1, <2>4, <2>8, <2>9
    <3>3. \E new : Shape(n, new) /\ Highest(new) = Highest(lev) \ {f}
      BY <1>1, <2>1, <2>2, <2>10, <3>1, <3>2, FreeShape
    <3>4. Highest(lev) \ {f} = R
      BY <1>1, <2>1 DEF Highest
    <3> QED BY <3>3, <3>4 DEF Good
  <2>12. ASSUME NEW x \in R
         PROVE  /\ Tops(n, x) = Tops(m, x) /\ SameTables(m, n, x)
                /\ \A b \in UserPages : x # r \/ b # a => Cell(n, x, b) = Cell(m, x, b)
                /\ x # r => n.val[x] = m.val[x]
    <3>1. x \in Frames /\ lev[x] = 3 /\ x # f
      BY <1>1, <2>1 DEF Highest
    <3>2. \A y \in Frames, j \in Slots : lev[y] \in 2 .. 3 => n.tab[y][j].frame = m.tab[y][j].frame
      <4>1. \A y \in Frames, j \in Slots : m.tab[y][j].frame = f => lev[y] = 1
        BY <1>1, <1>7, <2>1 DEF Shape, Downward, Levelled, Levels
      <4> QED BY <2>10, <4>1
    <3>3. Tops(n, x) = Tops(m, x)
      BY <3>1, <3>2 DEF Tops
    <3>4. ASSUME NEW b \in UserPages
          PROVE  /\ Table(n, x, b) = Table(m, x, b)
                 /\ x # r \/ b # a => Cell(n, x, b) = Cell(m, x, b)
      <4>1. Pdx1(b) \in Slots /\ Pdx0(b) \in Slots /\ Ptx(b) \in Slots
        BY FirstIndex
      <4>2. Mid(n, x, b) = Mid(m, x, b)
        BY <3>1, <3>2, <4>1 DEF Mid
      <4>3. Mid(m, x, b) # 0 => Mid(m, x, b) \in Frames /\ lev[Mid(m, x, b)] = 2
        BY <1>1, <3>1, Way
      <4>4. Mid(m, x, b) # 0 =>
              n.tab[Mid(m, x, b)][Pdx0(b)].frame = m.tab[Mid(m, x, b)][Pdx0(b)].frame
        BY <3>2, <4>1, <4>3
      <4>5. Table(n, x, b) = Table(m, x, b)
        BY <4>2, <4>4 DEF Table, Mid
      <4>6. ASSUME x # r \/ b # a
            PROVE  Cell(n, x, b) = Cell(m, x, b)
        <5>1. Pte(m, x, b).frame # f
          BY <1>1, <1>3, <1>4, <1>5, <1>7, <3>1, <4>6, OneWay
        <5>2. Table(m, x, b) # 0 => /\ Table(m, x, b) \in Frames
                                    /\ Pte(m, x, b) = m.tab[Table(m, x, b)][Ptx(b)]
          BY <1>1, <3>1, Way
        <5>3. Table(m, x, b) # 0 => n.tab[Table(m, x, b)][Ptx(b)] = m.tab[Table(m, x, b)][Ptx(b)]
          BY <2>10, <4>1, <5>1, <5>2
        <5>4. Pte(m, x, b).frame # 0 => Pte(m, x, b).frame \in Frames
          BY <1>1, <3>1, Way
        <5>5. Pte(m, x, b).frame # 0 => n.val[Pte(m, x, b).frame] = m.val[Pte(m, x, b).frame]
          BY <2>4, <2>8, <2>9, <5>1, <5>4
        <5> QED BY <1>1, <3>1, <4>2, <4>4, <5>3, <5>5, SameWay
      <4> QED BY <4>5, <4>6
    <3>5. n.val[x] = m.val[x]
      BY <2>4, <2>8, <2>9, <3>1
    <3> QED BY <3>3, <3>4, <3>5 DEF SameTables
  <2>13. Cell(n, r, a) = <<>>
    <3>1. Table(n, r, a) = t /\ t # 0
      BY <1>2, <2>12 DEF SameTables
    <3>2. n.tab[t][Ptx(a)] = Clear
      BY <1>3, <1>4, <1>5, <2>10
    <3> QED BY <3>1, <3>2, FrameType DEF Cell, Pte
  <2>14. Loses(m, n, r, a)
    <3>1. Cells(n, r) = [Cells(m, r) EXCEPT ![a] = <<>>]
      BY <2>12, <2>13 DEF Cells
    <3> QED BY <2>12, <3>1 DEF Loses
  <2>15. AllKept(m, n, R \ {r})
    <3> SUFFICES ASSUME NEW x \in R, x # r PROVE Kept(m, n, x)
      BY DEF AllKept
    <3>1. Cells(n, x) = Cells(m, x)
      BY <2>12 DEF Cells
    <3> QED BY <2>12, <3>1 DEF Kept
  <2> QED BY <2>11, <2>14, <2>15
<1> QED BY <1>6, <1>7

\* exit_range() frees the table of the middle level at the entry i.
Exited(m, r, i) == ClearedAt(Freed(m, m.tab[r][i].frame), r, i)

\* The directory r has an entry less, and no page.
Narrowed(m, n, r, i) == Tops(n, r) = Tops(m, r) \ {i} /\ Cells(n, r) = NoCells

\* A table of the middle level that leads to no page is freed; what it leads to is lost.
LEMMA ExitedGood ==
  ASSUME SpaceConstantsOK, NEW m, NEW R, Good(m, R), NEW r \in R, NEW i \in Slots,
         m.tab[r][i].frame # 0, Cells(m, r) = NoCells, NEW n, n = Exited(m, r, i)
  PROVE  Good(n, R) /\ Narrowed(m, n, r, i) /\ AllKept(m, n, R \ {r})
<1>1. PICK lev : Shape(m, lev) /\ R = Highest(lev)
  BY DEF Good
<1>2. r \in Frames /\ lev[r] = 3 /\ Typed(m)
  BY <1>1 DEF Highest, Shape
<1>3. PICK f : f = m.tab[r][i].frame
  OBVIOUS
<1>4. f \in Frames /\ lev[f] = 2 /\ f # r /\ f # 0
  BY <1>1, <1>2, <1>3, EntryType DEF Shape, Typed, Downward
<1>5. PICK g : g = Freed(m, f)
  OBVIOUS
<1>6. /\ Typed(g) /\ g.used = m.used \ {f} /\ g.data = m.data \ {f}
      /\ g.tab = [m.tab EXCEPT ![f] = EmptyTable]
      /\ \A x \in Frames : g.ref[x] = IF x = f THEN 0 ELSE m.ref[x]
      /\ \A x \in Frames : x # f => g.val[x] = m.val[x]
  BY <1>2, <1>4, <1>5, FreedIs
<1>7. /\ Typed(n) /\ n.used = g.used /\ n.data = g.data /\ n.ref = g.ref /\ n.val = g.val
      /\ \A x \in Frames, j \in Slots :
           n.tab[x][j] = IF x = r /\ j = i THEN Clear ELSE g.tab[x][j]
  <2>1. n = ClearedAt(g, r, i)
    BY <1>3, <1>5 DEF Exited
  <2>2. Clears(g, n, r, i)
    BY <1>2, <1>6, <2>1, ClearedIs
  <2> QED BY <2>2 DEF Clears
<1>8. \A x \in Frames, j \in Slots :
        n.tab[x][j] = IF x = f \/ m.tab[x][j].frame = f THEN Clear ELSE m.tab[x][j]
  <2> SUFFICES ASSUME NEW x \in Frames, NEW j \in Slots
               PROVE  n.tab[x][j] = IF x = f \/ m.tab[x][j].frame = f THEN Clear ELSE m.tab[x][j]
    OBVIOUS
  <2>1. m.tab[x][j].frame = f => x = r /\ j = i
    BY <1>1, <1>2, <1>3, <1>4 DEF Shape, OneName
  <2>2. g.tab[x][j] = IF x = f THEN Clear ELSE m.tab[x][j]
    BY <1>2, <1>4, <1>6, FrameType DEF Typed, Tables
  <2> QED BY <1>3, <1>7, <2>1, <2>2
<1>9. ASSUME NEW j \in Slots, m.tab[f][j].frame # 0
      PROVE  Bare(m, m.tab[f][j].frame)
  <2> SUFFICES ASSUME NEW k \in Slots PROVE m.tab[m.tab[f][j].frame][k].frame = 0
    BY DEF Bare
  <2>1. PICK a \in UserPages : Pdx1(a) = i /\ Pdx0(a) = j /\ Ptx(a) = k
    BY PageOf
  <2>2. Table(m, r, a) = m.tab[f][j].frame
    BY <1>3, <1>4, <2>1 DEF Table
  <2>3. Pte(m, r, a) = m.tab[m.tab[f][j].frame][k]
    BY <1>9, <2>1, <2>2 DEF Pte
  <2>4. Cell(m, r, a) = <<>>
    BY DEF Cells, NoCells
  <2> QED BY <2>3, <2>4, CellIs
<1>10. Good(n, R)
  <2>1. \A x \in Frames : n.ref[x] = IF x = f THEN 0 ELSE m.ref[x]
    BY <1>6, <1>7
  <2>2. n.used = m.used \ {f} /\ n.data = m.data \ {f} /\ Typed(n)
    BY <1>6, <1>7
  <2>3. \A j \in Slots : m.tab[f][j].frame # 0 => Bare(m, m.tab[f][j].frame)
    BY <1>9
  <2>4. \E new : Shape(n, new) /\ Highest(new) = Highest(lev)
    BY <1>1, <1>4, <1>8, <2>1, <2>2, <2>3, LoseShape
  <2> QED BY <1>1, <2>4 DEF Good
<1>11. \A x \in Frames, j \in Slots : x # f /\ ~ (x = r /\ j = i) => n.tab[x][j] = m.tab[x][j]
  <2> SUFFICES ASSUME NEW x \in Frames, NEW j \in Slots, x # f, ~ (x = r /\ j = i)
               PROVE  n.tab[x][j] = m.tab[x][j]
    OBVIOUS
  <2>1. m.tab[x][j].frame # f
    BY <1>1, <1>2, <1>3, <1>4 DEF Shape, OneName
  <2> QED BY <1>8, <2>1
<1>12. ASSUME NEW x \in R, NEW b \in UserPages, ~ (x = r /\ Pdx1(b) = i)
       PROVE  Cell(n, x, b) = Cell(m, x, b)
  <2>1. x \in Frames /\ lev[x] = 3 /\ x # f
    BY <1>1, <1>4 DEF Highest
  <2>2. Pdx1(b) \in Slots /\ Pdx0(b) \in Slots /\ Ptx(b) \in Slots
    BY FirstIndex
  <2>3. Mid(n, x, b) = Mid(m, x, b)
    BY <1>11, <1>12, <2>1, <2>2 DEF Mid
  <2>4. Mid(m, x, b) # f
    BY <1>1, <1>2, <1>3, <1>4, <1>12, <2>1, <2>2 DEF Mid, Shape, OneName
  <2>5. Mid(m, x, b) # 0 => Mid(m, x, b) \in Frames /\ lev[Mid(m, x, b)] = 2
    BY <1>1, <2>1, Way
  <2>6. Mid(m, x, b) # 0 =>
          n.tab[Mid(m, x, b)][Pdx0(b)].frame = m.tab[Mid(m, x, b)][Pdx0(b)].frame
    <3>1. Mid(m, x, b) # 0 => Mid(m, x, b) # r
      BY <1>2, <2>5
    <3>2. PICK t : t = Mid(m, x, b)
      OBVIOUS
    <3> QED BY <1>11, <2>2, <2>4, <2>5, <3>1, <3>2
  <2>7. Table(m, x, b) # 0 => Table(m, x, b) \in Frames /\ lev[Table(m, x, b)] = 1
    BY <1>1, <2>1, Way
  <2>8. Table(m, x, b) # 0 => n.tab[Table(m, x, b)][Ptx(b)] = m.tab[Table(m, x, b)][Ptx(b)]
    BY <1>2, <1>4, <1>11, <2>2, <2>7
  <2>9. Pte(m, x, b).frame # 0 => Pte(m, x, b).frame \in Frames /\ lev[Pte(m, x, b).frame] = 0
    BY <1>1, <2>1, Way
  <2>10. Pte(m, x, b).frame # 0 => n.val[Pte(m, x, b).frame] = m.val[Pte(m, x, b).frame]
    BY <1>4, <1>6, <1>7, <2>9
  <2> QED BY <1>1, <2>1, <2>3, <2>6, <2>8, <2>10, SameWay
<1>13. Narrowed(m, n, r, i)
  <2>1. Tops(n, r) = Tops(m, r) \ {i}
    BY <1>2, <1>4, <1>7, <1>11, FrameType DEF Tops
  <2>2. ASSUME NEW b \in UserPages
        PROVE  Cell(n, r, b) = <<>>
    <3>1. CASE Pdx1(b) = i
      <4>1. n.tab[r][i].frame = 0
        BY <1>2, <1>7, FrameType
      <4>2. Pte(n, r, b) = Clear
        BY <3>1, <4>1 DEF Pte, Table
      <4> QED BY <4>2, FrameType, CellIs
    <3>2. CASE Pdx1(b) # i
      BY <1>12, <3>2 DEF Cells, NoCells
    <3> QED BY <3>1, <3>2
  <2> QED BY <2>1, <2>2 DEF Narrowed, Cells, NoCells
<1>14. AllKept(m, n, R \ {r})
  <2> SUFFICES ASSUME NEW x \in R, x # r PROVE Kept(m, n, x)
    BY DEF AllKept
  <2>1. x \in Frames /\ x # f
    BY <1>1, <1>4 DEF Highest
  <2>2. Tops(n, x) = Tops(m, x)
    BY <1>11, <2>1 DEF Tops
  <2>3. Cells(n, x) = Cells(m, x)
    BY <1>12 DEF Cells
  <2>4. n.val[x] = m.val[x]
    BY <1>6, <1>7, <2>1
  <2> QED BY <2>2, <2>3, <2>4 DEF Kept
<1> QED BY <1>10, <1>13, <1>14

\* put_pgdir()
LEMMA DroppedGood ==
  ASSUME SpaceConstantsOK, NEW m, NEW R, Good(m, R), NEW r \in R, Tops(m, r) = {},
         NEW n, n = Freed(m, r)
  PROVE  Good(n, R \ {r}) /\ AllKept(m, n, R \ {r})
<1>1. PICK lev : Shape(m, lev) /\ R = Highest(lev)
  BY DEF Good
<1>2. r \in Frames /\ lev[r] = 3 /\ Typed(m) /\ Bare(m, r)
  BY <1>1, BareTops DEF Highest, Shape
<1>3. /\ Typed(n) /\ n.used = m.used \ {r} /\ n.data = m.data \ {r}
      /\ n.tab = [m.tab EXCEPT ![r] = EmptyTable]
      /\ \A x \in Frames : n.ref[x] = IF x = r THEN 0 ELSE m.ref[x]
      /\ \A x \in Frames : x # r => n.val[x] = m.val[x]
  BY <1>2, FreedIs
<1>4. m.tab[r] = EmptyTable
  BY <1>1, <1>2, BareEmpty DEF Shape, Typed
<1>5. n.tab = m.tab
  BY <1>2, <1>3, <1>4 DEF Typed, Tables
<1>6. \A x \in Frames, j \in Slots :
        n.tab[x][j] = IF m.tab[x][j].frame = r THEN Clear ELSE m.tab[x][j]
  <2> SUFFICES ASSUME NEW x \in Frames, NEW j \in Slots PROVE m.tab[x][j].frame # r
    BY <1>5
  <2>1. m.tab[x][j].frame # 0 => lev[m.tab[x][j].frame] \in 0 .. 2
    BY <1>1 DEF Shape, Downward
  <2> QED BY <1>2, <2>1, FrameType
<1>7. Good(n, R \ {r})
  <2>1. /\ lev[r] \in {0, 3} /\ Shape(m, lev) /\ Typed(n) /\ n.used = m.used \ {r}
        /\ n.data = m.data \ {r} /\ Bare(m, r)
    BY <1>1, <1>2, <1>3
  <2>3. \A x \in Frames : n.ref[x] = IF x = r THEN 0 ELSE m.ref[x]
    BY <1>3
  <2>2. \E new : Shape(n, new) /\ Highest(new) = Highest(lev) \ {r}
    BY <1>2, <1>6, <2>1, <2>3, FreeShape
  <2> QED BY <1>1, <2>2 DEF Good
<1>8. AllKept(m, n, R \ {r})
  <2> SUFFICES ASSUME NEW x \in R, x # r PROVE Kept(m, n, x)
    BY DEF AllKept
  <2>1. x \in Frames /\ lev[x] = 3
    BY <1>1 DEF Highest
  <2>2. Tops(n, x) = Tops(m, x)
    BY <1>5 DEF Tops
  <2>3. ASSUME NEW a \in UserPages
        PROVE  Cell(n, x, a) = Cell(m, x, a)
    <3>1. Mid(n, x, a) = Mid(m, x, a)
      BY <1>5 DEF Mid
    <3>2. Pte(m, x, a).frame # 0 => n.val[Pte(m, x, a).frame] = m.val[Pte(m, x, a).frame]
      <4>1. Pte(m, x, a).frame # 0 => Pte(m, x, a).frame \in Frames /\ Pte(m, x, a).frame # r
        BY <1>1, <1>2, <2>1, Way
      <4> QED BY <1>3, <4>1
    <3> QED BY <1>1, <1>5, <2>1, <3>1, <3>2, SameWay
  <2>4. Cells(n, x) = Cells(m, x)
    BY <2>3 DEF Cells
  <2>5. n.val[x] = m.val[x]
    BY <1>3, <2>1
  <2> QED BY <2>2, <2>4, <2>5 DEF Kept
<1> QED BY <1>7, <1>8

\* A process writes to a page.
LEMMA StoredGood ==
  ASSUME SpaceConstantsOK, NEW m, NEW R, Good(m, R), NEW r \in R, NEW a \in UserPages,
         Pte(m, r, a).frame # 0, NEW v \in Values,
         NEW n, n = [m EXCEPT !.val[Pte(m, r, a).frame] = v]
  PROVE  /\ Good(n, R) /\ Gets(m, n, r, a, <<Pte(m, r, a).write, v>>)
         /\ AllKept(m, n, R \ {r})
<1>1. PICK lev : Shape(m, lev) /\ R = Highest(lev)
  BY DEF Good
<1>2. r \in Frames /\ lev[r] = 3 /\ Typed(m)
  BY <1>1 DEF Highest, Shape
<1>3. PICK f : f = Pte(m, r, a).frame
  OBVIOUS
<1>4. f \in Frames /\ lev[f] = 0 /\ f # 0
  BY <1>1, <1>2, <1>3, Way
<1>5. /\ Rec(n) /\ n.used = m.used /\ n.data = m.data /\ n.ref = m.ref /\ n.tab = m.tab
      /\ n.out = m.out /\ n.val = [m.val EXCEPT ![f] = v]
  BY <1>2, <1>3 DEF Typed, Rec
<1>6. Typed(n) /\ \A x \in Frames : n.val[x] = IF x = f THEN v ELSE m.val[x]
  <2>1. n.val \in [Frames -> Values] /\ \A x \in Frames : n.val[x] = IF x = f THEN v ELSE m.val[x]
    <3>1. m.val \in [Frames -> Values] /\ n.val = [m.val EXCEPT ![f] = v]
      BY <1>2, <1>5 DEF Typed
    <3> QED BY <1>4, <3>1
  <2> QED BY <1>2, <1>5, <2>1 DEF Typed
<1>7. Good(n, R)
  BY <1>1, <1>5, <1>6, ValueShape DEF Good
<1>8. ASSUME NEW x \in R, NEW b \in UserPages
      PROVE  /\ Pte(n, x, b) = Pte(m, x, b)
             /\ ~ (x = r /\ b = a) => Cell(n, x, b) = Cell(m, x, b)
  <2>1. x \in Frames /\ lev[x] = 3
    BY <1>1 DEF Highest
  <2>2. Pte(n, x, b) = Pte(m, x, b)
    <3>1. n.tab = m.tab
      BY <1>5
    <3>2. Mid(n, x, b) = Mid(m, x, b)
      BY <3>1 DEF Mid
    <3>3. Table(n, x, b) = Table(m, x, b)
      BY <3>1, <3>2 DEF Table, Mid
    <3> QED BY <3>1, <3>3 DEF Pte
  <2>3. ASSUME ~ (x = r /\ b = a)
        PROVE  Cell(n, x, b) = Cell(m, x, b)
    <3>1. Pte(m, x, b).frame # 0 => Pte(m, x, b).frame \in Frames /\ Pte(m, x, b).frame # f
      BY <1>1, <1>2, <1>3, <1>4, <2>1, <2>3, Way, OneWay
    <3> QED BY <1>6, <2>2, <3>1 DEF Cell
  <2> QED BY <2>2, <2>3
<1>9. Gets(m, n, r, a, <<Pte(m, r, a).write, v>>)
  <2>1. Cell(n, r, a) = <<Pte(m, r, a).write, v>>
    BY <1>3, <1>4, <1>6, <1>8 DEF Cell
  <2>2. Tops(n, r) = Tops(m, r)
    BY <1>5 DEF Tops
  <2>3. Cells(n, r) = [Cells(m, r) EXCEPT ![a] = <<Pte(m, r, a).write, v>>]
    BY <1>8, <2>1 DEF Cells
  <2> QED BY <2>2, <2>3 DEF Gets
<1>10. AllKept(m, n, R \ {r})
  <2> SUFFICES ASSUME NEW x \in R, x # r PROVE Kept(m, n, x)
    BY DEF AllKept
  <2>1. x \in Frames /\ x # f
    BY <1>1, <1>4 DEF Highest
  <2>2. Tops(n, x) = Tops(m, x)
    BY <1>5 DEF Tops
  <2>3. Cells(n, x) = Cells(m, x)
    BY <1>8 DEF Cells
  <2> QED BY <1>6, <2>1, <2>2, <2>3 DEF Kept
<1> QED BY <1>7, <1>9, <1>10

-----------------------------------------------------------------------------
(* Ranges of pages: unmap_range(), exit_range() and exit_mmap() *)

\* The round of unmap_range() for the page a.
UnmapRound(m, root, there, a) ==
  IF a \in there THEN RemovedPte(m, Table(m, root, a), Ptx(a)) ELSE m

\* What the rounds go through.
UnmapWalk(g, m, root, lo, there) ==
  \A k \in 0 .. NV :
    g[k] = IF k <= lo THEN m ELSE UnmapRound(g[k - 1], root, there, k - 1)

\* unmap_range() goes from page to page.
LEMMA UnmapRounds ==
  ASSUME NV \in Nat, NEW m, NEW root, NEW lo \in Nat, NEW hi \in 0 .. NV
  PROVE  \E g : /\ UnmappedRange(m, root, lo, hi) = g[hi]
                /\ UnmapWalk(g, m, root, lo, Visited(m, root, lo, hi))
<1> DEFINE Body(h, k) == IF k <= lo THEN m
                         ELSE UnmapRound(h[k - 1], root, Visited(m, root, lo, hi), k - 1)
           at == CHOOSE h : h = [k \in 0 .. NV |-> Body(h, k)]
           P == {j \in 0 .. NV : \E h : h = [k \in 0 .. j |-> Body(h, k)]}
<1>1. 0 \in P
  <2>1. PICK h : h = [k \in 0 .. 0 |-> m]
    OBVIOUS
  <2>2. \A k \in 0 .. 0 : Body(h, k) = m
    OBVIOUS
  <2>3. h = [k \in 0 .. 0 |-> Body(h, k)]
    <3> HIDE DEF Body
    <3> QED BY <2>1, <2>2
  <2> QED BY <2>3
<1>2. ASSUME NEW j \in 1 .. NV, j - 1 \in P
      PROVE  j \in P
  <2>1. PICK h : h = [k \in 0 .. j - 1 |-> Body(h, k)]
    BY <1>2
  <2>2. PICK n : n = [k \in 0 .. j |-> Body(h, k)]
    OBVIOUS
  <2>3. \A k \in 0 .. j - 1 : n[k] = h[k]
    <3> HIDE DEF Body
    <3>1. \A k \in 0 .. j - 1 : n[k] = Body(h, k) /\ h[k] = Body(h, k)
      BY <2>1, <2>2
    <3> QED BY <3>1
  <2>4. \A k \in 0 .. j : Body(n, k) = Body(h, k)
    <3>1. \A k \in 0 .. j : ~ (k <= lo) => k - 1 \in 0 .. j - 1
      OBVIOUS
    <3> QED BY <2>3, <3>1
  <2>5. n = [k \in 0 .. j |-> Body(n, k)]
    <3> HIDE DEF Body
    <3> QED BY <2>2, <2>4
  <2> QED BY <2>5
<1>3. NV \in P
  <2> HIDE DEF P
  <2>1. \A j \in 0 .. NV : j \in P
    BY <1>1, <1>2, EveryRound
  <2> QED BY <2>1
<1>4. at = [k \in 0 .. NV |-> Body(at, k)]
  <2>1. \E h : h = [k \in 0 .. NV |-> Body(h, k)]
    BY <1>3
  <2> HIDE DEF Body
  <2> QED BY <2>1, Zenon
<1>5. UnmappedRange(m, root, lo, hi) = at[hi]
  BY Zenon DEF UnmappedRange, UnmapRound
<1>6. \A k \in 0 .. NV : at[k] = Body(at, k)
  <2> HIDE DEF Body, at
  <2> QED BY <1>4
<1>7. UnmapWalk(at, m, root, lo, Visited(m, root, lo, hi))
  BY <1>6 DEF UnmapWalk
<1> HIDE DEF at
<1> QED BY <1>5, <1>7

\* The first page that the next table of the last level is for.
Next0(a) == ((a + Span) \div Span) * Span

\* Up to there, pages share the table.
LEMMA SameUpTo ==
  ASSUME SpaceConstantsOK, NEW a \in Nat
  PROVE  /\ Next0(a) \in Nat /\ a < Next0(a) /\ Next0(a) <= a + Span
         /\ \A m, r : \A b \in a .. Next0(a) - 1 : Table(m, r, b) = Table(m, r, a)
<1>1. Span \in Nat \ {0, 1}
  BY DEF SpaceConstantsOK
<1>2. PICK q \in Nat : q = a \div Span
  BY <1>1
<1>3. PICK x \in Nat : x = q * Span
  BY <1>1
<1>4. x <= a /\ a < x + Span
  <2>1. PICK r \in Slots : r = a % Span
    BY <1>1 DEF Slots
  <2>2. a = q * Span + r
    BY <1>1, <1>2, <2>1
  <2> QED BY <1>1, <1>3, <2>1, <2>2 DEF Slots
<1>5. (a + Span) \div Span = q + 1
  <2>1. (q + 1) * Span = x + Span
    BY <1>1, <1>3
  <2>2. a + Span \in Nat /\ q + 1 \in Int /\ Span \in Nat \ {0}
        /\ (q + 1) * Span <= a + Span /\ a + Span < (q + 1) * Span + Span
    BY <1>1, <1>4, <2>1
  <2> QED BY <2>2, QuotientIs
<1>6. Next0(a) = x + Span
  BY <1>1, <1>3, <1>5 DEF Next0
<1>7. ASSUME NEW b \in a .. Next0(a) - 1
      PROVE  Pdx1(b) = Pdx1(a) /\ Pdx0(b) = Pdx0(a)
  <2>1. b \in Nat
    BY <1>1, <1>6
  <2>2. b \div Span = q
    <3>1. q * Span <= b /\ b < q * Span + Span
      BY <1>1, <1>3, <1>4, <1>6
    <3>2. Span \in Nat \ {0} /\ q \in Int
      BY <1>1
    <3> QED BY <2>1, <3>1, <3>2, QuotientIs
  <2>3. Pdx0(b) = Pdx0(a)
    BY <1>2, <2>2 DEF Pdx0
  <2>4. /\ Pdx1(a) \in Nat /\ Pdx1(b) \in Nat /\ Pdx0(a) \in Slots
        /\ q = Pdx1(a) * Span + Pdx0(a) /\ q = Pdx1(b) * Span + Pdx0(a)
    BY <1>2, <2>1, <2>2, <2>3, PageParts
  <2>5. Pdx1(a) = Pdx1(b)
    <3>1. PICK i \in Nat : i = Pdx1(a)
      BY <2>4
    <3>2. PICK j \in Nat : j = Pdx1(b)
      BY <2>4
    <3>3. i * Span = j * Span
      <4>1. PICK u \in Nat : u = i * Span
        BY <1>1
      <4>2. PICK w \in Nat : w = j * Span
        BY <1>1
      <4> QED BY <2>4, <3>1, <3>2, <4>1, <4>2 DEF Slots
    <3> QED BY <1>1, <3>1, <3>2, <3>3
  <2> QED BY <2>3, <2>5
<1>8. \A m, r : \A b \in a .. Next0(a) - 1 : Table(m, r, b) = Table(m, r, a)
  <2> SUFFICES ASSUME NEW b \in a .. Next0(a) - 1, NEW m, NEW r
               PROVE  Table(m, r, b) = Table(m, r, a)
    OBVIOUS
  <2>1. Pdx1(b) = Pdx1(a) /\ Pdx0(b) = Pdx0(a)
    BY <1>7
  <2> QED BY <2>1 DEF Table
<1> QED BY <1>1, <1>4, <1>6, <1>8

\* The pages from a on that have a table.
HaveTable(m, r, a, hi) == {b \in a .. hi - 1 : Table(m, r, b) # 0}

\* unmap_range() and copy_range() come to each page that has a table.
LEMMA VisitedIs ==
  ASSUME SpaceConstantsOK, NEW m, NEW r, NEW lo \in Nat, NEW hi \in Nat, lo <= hi
  PROVE  Visited(m, r, lo, hi) = HaveTable(m, r, lo, hi)
<1> DEFINE Body(g, a) == IF a >= hi THEN {}
                         ELSE IF Table(m, r, a) = 0 THEN g[((a + Span) \div Span) * Span]
                         ELSE {a} \cup g[a + 1]
           from == CHOOSE g : g = [a \in lo .. hi + Span |-> Body(g, a)]
           C == [a \in lo .. hi + Span |-> HaveTable(m, r, a, hi)]
           P == {k \in 0 .. hi + Span - lo :
                   \A a \in lo .. hi + Span :
                     a + k >= hi + Span => from[a] = HaveTable(m, r, a, hi)}
<1>0. Span \in Nat \ {0, 1}
  BY DEF SpaceConstantsOK
<1>1. ASSUME NEW a \in lo .. hi + Span, NEW g,
             \A b \in lo .. hi + Span : b > a => g[b] = HaveTable(m, r, b, hi)
      PROVE  Body(g, a) = HaveTable(m, r, a, hi)
  <2>1. CASE a >= hi
    <3>1. a .. hi - 1 = {}
      BY <2>1
    <3> QED BY <2>1, <3>1 DEF HaveTable
  <2>2. CASE a < hi /\ Table(m, r, a) = 0
    <3>1. a \in Nat /\ Next0(a) \in Nat /\ a < Next0(a) /\ Next0(a) <= a + Span
          /\ \A b \in a .. Next0(a) - 1 : Table(m, r, b) = 0
      BY <2>2, SameUpTo
    <3>2. Next0(a) \in lo .. hi + Span /\ Next0(a) > a
      BY <1>0, <2>2, <3>1
    <3>3. Body(g, a) = g[Next0(a)]
      BY <2>2 DEF Next0
    <3>4. g[Next0(a)] = HaveTable(m, r, Next0(a), hi)
      BY <1>1, <3>2
    <3>5. HaveTable(m, r, Next0(a), hi) = HaveTable(m, r, a, hi)
      <4>1. PICK y \in Nat : y = Next0(a)
        BY <3>1
      <4>2. HaveTable(m, r, y, hi) \subseteq HaveTable(m, r, a, hi)
        BY <3>1, <4>1 DEF HaveTable
      <4>3. ASSUME NEW b \in HaveTable(m, r, a, hi) PROVE b \in HaveTable(m, r, y, hi)
        <5>1. b \in a .. hi - 1 /\ Table(m, r, b) # 0
          BY DEF HaveTable
        <5>2. ~ (b \in a .. y - 1)
          BY <3>1, <4>1, <5>1
        <5>3. b \in y .. hi - 1
          BY <5>1, <5>2
        <5> QED BY <5>1, <5>3 DEF HaveTable
      <4> QED BY <4>1, <4>2, <4>3
    <3> HIDE DEF Body
    <3> QED BY <3>3, <3>4, <3>5
  <2>3. CASE a < hi /\ Table(m, r, a) # 0
    <3>1. a + 1 \in lo .. hi + Span /\ a + 1 > a
      BY <1>0, <2>3
    <3>2. g[a + 1] = HaveTable(m, r, a + 1, hi)
      BY <1>1, <3>1
    <3>3. HaveTable(m, r, a, hi) = {a} \cup HaveTable(m, r, a + 1, hi)
      BY <2>3 DEF HaveTable
    <3> QED BY <2>3, <3>2, <3>3
  <2> QED BY <2>1, <2>2, <2>3
<1>2. C = [a \in lo .. hi + Span |-> Body(C, a)]
  <2>1. \A b \in lo .. hi + Span : C[b] = HaveTable(m, r, b, hi)
    OBVIOUS
  <2>2. \A a \in lo .. hi + Span : Body(C, a) = HaveTable(m, r, a, hi)
    <3> HIDE DEF Body, C
    <3> QED BY <1>1, <2>1
  <2> HIDE DEF Body
  <2> QED BY <2>2
<1>3. from = [a \in lo .. hi + Span |-> Body(from, a)]
  <2> HIDE DEF C, Body
  <2>1. \E g : g = [a \in lo .. hi + Span |-> Body(g, a)]
    BY <1>2
  <2> QED BY <2>1, Zenon
<1>4. Visited(m, r, lo, hi) = from[lo]
  BY Zenon DEF Visited
<1> HIDE DEF from, Body
<1>5. \A a \in lo .. hi + Span : from[a] = Body(from, a)
  BY <1>3
<1>6. 0 \in P
  <2> SUFFICES ASSUME NEW a \in lo .. hi + Span, a + 0 >= hi + Span
               PROVE  from[a] = HaveTable(m, r, a, hi)
    BY <1>0
  <2>1. \A b \in lo .. hi + Span : ~ (b > a)
    BY <1>0
  <2>2. Body(from, a) = HaveTable(m, r, a, hi)
    BY <1>1, <2>1
  <2> QED BY <1>5, <2>2
<1>7. ASSUME NEW k \in 1 .. hi + Span - lo, k - 1 \in P
      PROVE  k \in P
  <2> SUFFICES ASSUME NEW a \in lo .. hi + Span, a + k >= hi + Span
               PROVE  from[a] = HaveTable(m, r, a, hi)
    BY <1>0
  <2>1. \A b \in lo .. hi + Span : b > a => from[b] = HaveTable(m, r, b, hi)
    <3> SUFFICES ASSUME NEW b \in lo .. hi + Span, b > a
                 PROVE  from[b] = HaveTable(m, r, b, hi)
      OBVIOUS
    <3>1. b + (k - 1) >= hi + Span
      BY <1>0
    <3> QED BY <1>7, <3>1
  <2>2. Body(from, a) = HaveTable(m, r, a, hi)
    BY <1>1, <2>1
  <2> QED BY <1>5, <2>2
<1>8. hi + Span - lo \in P
  <2>1. hi + Span - lo \in Nat
    BY <1>0
  <2> HIDE DEF P
  <2>2. \A k \in 0 .. hi + Span - lo : k \in P
    BY <1>6, <1>7, <2>1, EveryRound
  <2> QED BY <2>1, <2>2
<1>9. from[lo] = HaveTable(m, r, lo, hi)
  <2>1. lo \in lo .. hi + Span /\ lo + (hi + Span - lo) >= hi + Span
    BY <1>0
  <2> QED BY <1>8, <2>1
<1> QED BY <1>4, <1>9

\* The round of exit_range() for the entry i of the directory.
ExitRound(m, root, i) ==
  IF m.tab[root][i].frame = 0 THEN m
  ELSE [Freed(m, m.tab[root][i].frame) EXCEPT !.tab[root][i] = Clear]

\* What the rounds go through.
ExitWalk(g, m, root, lo) ==
  \A k \in 0 .. Span :
    g[k] = IF k <= Pdx1(lo) THEN m ELSE ExitRound(g[k - 1], root, k - 1)

\* exit_range() goes from entry to entry.
LEMMA ExitRounds ==
  ASSUME Span \in Nat, NEW m, NEW root, NEW lo, Pdx1(lo) \in Nat, NEW hi
  PROVE  \E g : ExitedRange(m, root, lo, hi) = g[Pdx1(hi - 1) + 1] /\ ExitWalk(g, m, root, lo)
<1> DEFINE Body(h, k) == IF k <= Pdx1(lo) THEN m
                         ELSE ExitRound(h[k - 1], root, k - 1)
           at == CHOOSE h : h = [k \in 0 .. Span |-> Body(h, k)]
           P == {j \in 0 .. Span : \E h : h = [k \in 0 .. j |-> Body(h, k)]}
<1>1. 0 \in P
  <2>1. PICK h : h = [k \in 0 .. 0 |-> m]
    OBVIOUS
  <2>2. \A k \in 0 .. 0 : Body(h, k) = m
    OBVIOUS
  <2>3. h = [k \in 0 .. 0 |-> Body(h, k)]
    <3> HIDE DEF Body
    <3> QED BY <2>1, <2>2
  <2> QED BY <2>3
<1>2. ASSUME NEW j \in 1 .. Span, j - 1 \in P
      PROVE  j \in P
  <2>1. PICK h : h = [k \in 0 .. j - 1 |-> Body(h, k)]
    BY <1>2
  <2>2. PICK n : n = [k \in 0 .. j |-> Body(h, k)]
    OBVIOUS
  <2>3. \A k \in 0 .. j - 1 : n[k] = h[k]
    <3> HIDE DEF Body
    <3>1. \A k \in 0 .. j - 1 : n[k] = Body(h, k) /\ h[k] = Body(h, k)
      BY <2>1, <2>2
    <3> QED BY <3>1
  <2>4. \A k \in 0 .. j : Body(n, k) = Body(h, k)
    <3>1. \A k \in 0 .. j : ~ (k <= Pdx1(lo)) => k - 1 \in 0 .. j - 1
      OBVIOUS
    <3> QED BY <2>3, <3>1
  <2>5. n = [k \in 0 .. j |-> Body(n, k)]
    <3> HIDE DEF Body
    <3> QED BY <2>2, <2>4
  <2> QED BY <2>5
<1>3. Span \in P
  <2> HIDE DEF P
  <2>1. \A j \in 0 .. Span : j \in P
    BY <1>1, <1>2, EveryRound
  <2> QED BY <2>1
<1>4. at = [k \in 0 .. Span |-> Body(at, k)]
  <2>1. \E h : h = [k \in 0 .. Span |-> Body(h, k)]
    BY <1>3
  <2> HIDE DEF Body
  <2> QED BY <2>1, Zenon
<1>5. ExitedRange(m, root, lo, hi) = at[Pdx1(hi - 1) + 1]
  BY Zenon DEF ExitedRange, ExitRound
<1>6. \A k \in 0 .. Span : at[k] = Body(at, k)
  <2> HIDE DEF Body, at
  <2> QED BY <1>4
<1>7. ExitWalk(at, m, root, lo)
  BY <1>6 DEF ExitWalk
<1> HIDE DEF at
<1> QED BY <1>5, <1>7

\* unmap_range() takes the pages lo .. hi - 1 from r.
Empties(m, n, r, lo, hi) ==
  /\ Tops(n, r) = Tops(m, r)
  /\ \A a \in UserPages : Cell(n, r, a) = IF a \in lo .. hi - 1 THEN <<>> ELSE Cell(m, r, a)

\* exit_range() takes the entries for these pages from r, which has no page any more.
Shuts(m, n, r, lo, hi) ==
  Tops(n, r) = Tops(m, r) \ (Pdx1(lo) .. Pdx1(hi - 1)) /\ Cells(n, r) = NoCells

\* unmap_range() is exact.
LEMMA UnmappedGood ==
  ASSUME SpaceConstantsOK, NEW m, NEW R, Good(m, R), NEW r \in R, NEW lo \in Nat,
         NEW hi \in 0 .. NV, lo < hi, NEW n, n = UnmappedRange(m, r, lo, hi)
  PROVE  Good(n, R) /\ Empties(m, n, r, lo, hi) /\ AllKept(m, n, R \ {r})
<1>0. NV \in Nat
  BY DEF SpaceConstantsOK
<1>1. PICK there : there = HaveTable(m, r, lo, hi)
  OBVIOUS
<1>2. Visited(m, r, lo, hi) = there
  BY <1>1, VisitedIs
<1>3. PICK g : /\ n = g[hi]
               /\ \A k \in 0 .. NV : g[k] = IF k <= lo THEN m
                                          ELSE UnmapRound(g[k - 1], r, there, k - 1)
  <2>1. \E g : /\ UnmappedRange(m, r, lo, hi) = g[hi]
               /\ UnmapWalk(g, m, r, lo, Visited(m, r, lo, hi))
    BY <1>0, UnmapRounds
  <2> QED BY <1>2, <2>1 DEF UnmapWalk
<1> DEFINE Fine(k) == /\ Good(g[k], R) /\ SameTables(m, g[k], r) /\ Empties(m, g[k], r, lo, k)
                      /\ AllKept(m, g[k], R \ {r})
           P == {k \in 0 .. hi : Fine(k)}
<1>4. ASSUME NEW k \in 0 .. hi, k <= lo PROVE Fine(k)
  <2>1. g[k] = m
    BY <1>0, <1>3, <1>4
  <2>2. \A a : ~ (a \in lo .. k - 1)
    BY <1>4
  <2> QED BY <2>1, <2>2 DEF SameTables, Empties, AllKept, Kept
<1>5. ASSUME NEW k \in 1 .. hi, Fine(k - 1), k > lo PROVE Fine(k)
  <2>1. PICK h : h = g[k - 1]
    OBVIOUS
  <2>2. PICK a : a = k - 1
    OBVIOUS
  <2>3. a \in UserPages /\ a \in Nat /\ a >= lo /\ a < hi /\ k = a + 1
    BY <1>0, <1>5, <2>2 DEF UserPages
  <2>4. g[k] = UnmapRound(h, r, there, a)
    <3>1. k \in 0 .. NV /\ ~ (k <= lo)
      BY <1>0, <1>5
    <3> QED BY <1>3, <2>1, <2>2, <3>1
  <2>5. /\ Good(h, R) /\ SameTables(m, h, r) /\ Empties(m, h, r, lo, a)
        /\ AllKept(m, h, R \ {r})
    BY <1>5, <2>1, <2>2
  <2>6. Table(h, r, a) = Table(m, r, a) /\ (a \in there <=> Table(m, r, a) # 0)
    BY <1>1, <2>3, <2>5 DEF SameTables, HaveTable
  <2>7. \A b : b \in lo .. k - 1 <=> b \in lo .. a - 1 \/ b = a
    BY <2>3
  <2>8. CASE a \in there
    <3>1. g[k] = RemovedPte(h, Table(h, r, a), Ptx(a))
      BY <2>4, <2>8 DEF UnmapRound
    <3>2. Good(g[k], R) /\ Loses(h, g[k], r, a) /\ AllKept(h, g[k], R \ {r})
      BY <2>3, <2>5, <2>6, <2>8, <3>1, RemovedGood
    <3>3. SameTables(m, g[k], r) /\ Tops(g[k], r) = Tops(m, r)
      BY <2>5, <3>2 DEF SameTables, Loses, Empties
    <3>4. \A b \in UserPages : Cell(g[k], r, b) = IF b = a THEN <<>> ELSE Cell(h, r, b)
      BY <2>3, <3>2 DEF Loses, Cells
    <3>5. Empties(m, g[k], r, lo, k)
      BY <2>5, <2>7, <3>3, <3>4 DEF Empties
    <3>6. AllKept(m, g[k], R \ {r})
      BY <2>5, <3>2, KeptOn DEF AllKept
    <3> QED BY <3>2, <3>3, <3>5, <3>6
  <2>9. CASE a \notin there
    <3>1. g[k] = h
      BY <2>4, <2>9 DEF UnmapRound
    <3>2. Cell(h, r, a) = <<>>
      <4>1. Pte(h, r, a) = Clear
        BY <2>6, <2>9 DEF Pte
      <4> QED BY <4>1, CellIs, FrameType
    <3>3. Empties(m, g[k], r, lo, k)
      BY <2>3, <2>5, <2>7, <3>1, <3>2 DEF Empties
    <3> QED BY <2>5, <3>1, <3>3
  <2> QED BY <2>8, <2>9
<1>6. hi \in P
  <2>1. 0 \in P
    <3>1. 0 \in 0 .. hi /\ 0 <= lo
      BY <1>0
    <3> HIDE DEF Fine
    <3> QED BY <1>4, <3>1
  <2>2. ASSUME NEW k \in 1 .. hi, k - 1 \in P PROVE k \in P
    <3>1. k \in 0 .. hi /\ (k <= lo \/ k > lo)
      BY <1>0
    <3> HIDE DEF Fine
    <3> QED BY <1>4, <1>5, <2>2, <3>1
  <2> HIDE DEF P
  <2>3. hi \in Nat
    BY <1>0
  <2>4. \A k \in 0 .. hi : k \in P
    BY <2>1, <2>2, <2>3, EveryRound
  <2> QED BY <2>3, <2>4
<1> QED BY <1>3, <1>6

\* exit_range() is exact.
LEMMA ShutGood ==
  ASSUME SpaceConstantsOK, NEW m, NEW R, Good(m, R), NEW r \in R, Cells(m, r) = NoCells,
         NEW lo \in Nat, NEW hi \in 0 .. NV, lo < hi, NEW n, n = ExitedRange(m, r, lo, hi)
  PROVE  Good(n, R) /\ Shuts(m, n, r, lo, hi) /\ AllKept(m, n, R \ {r})
<1>0. NV \in Nat /\ Span \in Nat \ {0, 1}
  BY DEF SpaceConstantsOK
<1>1. lo \in UserPages /\ hi - 1 \in UserPages /\ hi - 1 \in Nat /\ lo <= hi - 1
  BY <1>0 DEF UserPages
<1>2. PICK i : i = Pdx1(lo)
  OBVIOUS
<1>3. PICK j : j = Pdx1(hi - 1) + 1
  OBVIOUS
<1>4. i \in Slots /\ j - 1 \in Slots /\ j \in Int /\ i <= j - 1 /\ Pdx1(hi - 1) = j - 1
  BY <1>0, <1>1, <1>2, <1>3, FirstIndex, IndexGrows DEF Slots
<1>5. PICK g : /\ n = g[j]
               /\ \A k \in 0 .. Span : g[k] = IF k <= i THEN m ELSE ExitRound(g[k - 1], r, k - 1)
  <2>1. Pdx1(lo) \in Nat /\ Span \in Nat
    BY <1>0, <1>2, <1>4 DEF Slots
  <2>2. \E g : ExitedRange(m, r, lo, hi) = g[Pdx1(hi - 1) + 1] /\ ExitWalk(g, m, r, lo)
    BY <2>1, ExitRounds
  <2> QED BY <1>2, <1>3, <2>2 DEF ExitWalk
<1> DEFINE Fine(k) == /\ Good(g[k], R) /\ Tops(g[k], r) = Tops(m, r) \ (i .. k - 1)
                      /\ Cells(g[k], r) = NoCells /\ AllKept(m, g[k], R \ {r})
           P == {k \in 0 .. j : Fine(k)}
<1>6. ASSUME NEW k \in 0 .. j, k <= i PROVE Fine(k)
  <2>1. g[k] = m
    BY <1>0, <1>4, <1>5, <1>6 DEF Slots
  <2>2. i .. k - 1 = {}
    BY <1>4, <1>6 DEF Slots
  <2> QED BY <2>1, <2>2 DEF AllKept, Kept
<1>7. ASSUME NEW k \in 1 .. j, Fine(k - 1), k > i PROVE Fine(k)
  <2>1. PICK h : h = g[k - 1]
    OBVIOUS
  <2>2. PICK x : x = k - 1
    OBVIOUS
  <2>3. x \in Slots /\ x >= i /\ k = x + 1
    BY <1>0, <1>4, <1>7, <2>2 DEF Slots
  <2>4. g[k] = ExitRound(h, r, x)
    <3>1. k \in 0 .. Span /\ ~ (k <= i)
      BY <1>0, <1>4, <1>7 DEF Slots
    <3> QED BY <1>5, <2>1, <2>2, <3>1
  <2>5. /\ Good(h, R) /\ Tops(h, r) = Tops(m, r) \ (i .. x - 1) /\ Cells(h, r) = NoCells
        /\ AllKept(m, h, R \ {r})
    BY <1>7, <2>1, <2>2
  <2>6. (i .. x - 1) \cup {x} = i .. k - 1
    BY <1>4, <2>3 DEF Slots
  <2>7. CASE h.tab[r][x].frame = 0
    <3>1. g[k] = h
      BY <2>4, <2>7 DEF ExitRound
    <3>2. x \notin Tops(h, r)
      BY <2>7 DEF Tops
    <3>3. Tops(h, r) = Tops(m, r) \ (i .. k - 1)
      BY <2>5, <2>6, <3>2
    <3> QED BY <2>5, <3>1, <3>3
  <2>8. CASE h.tab[r][x].frame # 0
    <3>1. g[k] = Exited(h, r, x)
      BY <2>4, <2>8 DEF ExitRound, Exited, ClearedAt
    <3>2. Good(g[k], R) /\ Narrowed(h, g[k], r, x) /\ AllKept(h, g[k], R \ {r})
      BY <2>3, <2>5, <2>8, <3>1, ExitedGood
    <3>3. Tops(g[k], r) = Tops(m, r) \ (i .. k - 1) /\ Cells(g[k], r) = NoCells
      BY <2>5, <2>6, <3>2 DEF Narrowed
    <3>4. AllKept(m, g[k], R \ {r})
      BY <2>5, <3>2, KeptOn DEF AllKept
    <3> QED BY <3>2, <3>3, <3>4
  <2> QED BY <2>7, <2>8
<1>8. j \in P
  <2>1. 0 \in P
    <3>1. 0 \in 0 .. j /\ 0 <= i
      BY <1>4 DEF Slots
    <3> HIDE DEF Fine
    <3> QED BY <1>6, <3>1
  <2>2. ASSUME NEW k \in 1 .. j, k - 1 \in P PROVE k \in P
    <3>1. k \in 0 .. j /\ (k <= i \/ k > i)
      BY <1>4 DEF Slots
    <3> HIDE DEF Fine
    <3> QED BY <1>6, <1>7, <2>2, <3>1
  <2> HIDE DEF P
  <2>3. j \in Nat
    BY <1>4 DEF Slots
  <2>4. \A k \in 0 .. j : k \in P
    BY <2>1, <2>2, <2>3, EveryRound
  <2> QED BY <2>3, <2>4
<1>9. Shuts(m, n, r, lo, hi)
  BY <1>2, <1>4, <1>5, <1>8 DEF Shuts
<1> QED BY <1>5, <1>8, <1>9

\* What the rounds go through.
UnmapAll(g, m, mm) ==
  \A k \in 0 .. Len(mm.areas) :
    g[k] = IF k = 0 THEN m ELSE UnmappedRange(g[k - 1], mm.root, mm.areas[k].start, mm.areas[k].end)

\* exit_mmap() goes from area to area, first for the pages.
LEMMA UnmapAreas ==
  ASSUME NEW m, NEW mm, Len(mm.areas) \in Nat
  PROVE  \E g : Unmapped(m, mm) = g[Len(mm.areas)] /\ UnmapAll(g, m, mm)
<1> DEFINE Body(h, k) == IF k = 0 THEN m
                         ELSE UnmappedRange(h[k - 1], mm.root, mm.areas[k].start, mm.areas[k].end)
           at == CHOOSE h : h = [k \in 0 .. Len(mm.areas) |-> Body(h, k)]
           P == {j \in 0 .. Len(mm.areas) : \E h : h = [k \in 0 .. j |-> Body(h, k)]}
<1>1. 0 \in P
  <2>1. PICK h : h = [k \in 0 .. 0 |-> m]
    OBVIOUS
  <2>2. \A k \in 0 .. 0 : Body(h, k) = m
    OBVIOUS
  <2>3. h = [k \in 0 .. 0 |-> Body(h, k)]
    <3> HIDE DEF Body
    <3> QED BY <2>1, <2>2
  <2> QED BY <2>3
<1>2. ASSUME NEW j \in 1 .. Len(mm.areas), j - 1 \in P
      PROVE  j \in P
  <2>1. PICK h : h = [k \in 0 .. j - 1 |-> Body(h, k)]
    BY <1>2
  <2>2. PICK n : n = [k \in 0 .. j |-> Body(h, k)]
    OBVIOUS
  <2>3. \A k \in 0 .. j - 1 : n[k] = h[k]
    <3> HIDE DEF Body
    <3>1. \A k \in 0 .. j - 1 : n[k] = Body(h, k) /\ h[k] = Body(h, k)
      BY <2>1, <2>2
    <3> QED BY <3>1
  <2>4. \A k \in 0 .. j : Body(n, k) = Body(h, k)
    <3>1. \A k \in 0 .. j : ~ (k = 0) => k - 1 \in 0 .. j - 1
      OBVIOUS
    <3> QED BY <2>3, <3>1
  <2>5. n = [k \in 0 .. j |-> Body(n, k)]
    <3> HIDE DEF Body
    <3> QED BY <2>2, <2>4
  <2> QED BY <2>5
<1>3. Len(mm.areas) \in P
  <2> HIDE DEF P
  <2>1. \A j \in 0 .. Len(mm.areas) : j \in P
    BY <1>1, <1>2, EveryRound
  <2> QED BY <2>1
<1>4. at = [k \in 0 .. Len(mm.areas) |-> Body(at, k)]
  <2>1. \E h : h = [k \in 0 .. Len(mm.areas) |-> Body(h, k)]
    BY <1>3
  <2> HIDE DEF Body
  <2> QED BY <2>1, Zenon
<1>5. Unmapped(m, mm) = at[Len(mm.areas)]
  BY Zenon DEF Unmapped
<1>6. \A k \in 0 .. Len(mm.areas) : at[k] = Body(at, k)
  <2> HIDE DEF Body, at
  <2> QED BY <1>4
<1>7. UnmapAll(at, m, mm)
  BY <1>6 DEF UnmapAll
<1> HIDE DEF at
<1> QED BY <1>5, <1>7

\* What the rounds go through.
ExitAll(g, m, mm) ==
  \A k \in 0 .. Len(mm.areas) :
    g[k] = IF k = 0 THEN m ELSE ExitedRange(g[k - 1], mm.root, mm.areas[k].start, mm.areas[k].end)

\* Then for the tables.
LEMMA ExitAreas ==
  ASSUME NEW m, NEW mm, Len(mm.areas) \in Nat
  PROVE  \E g : Left(m, mm) = g[Len(mm.areas)] /\ ExitAll(g, m, mm)
<1> DEFINE Body(h, k) == IF k = 0 THEN m
                         ELSE ExitedRange(h[k - 1], mm.root, mm.areas[k].start, mm.areas[k].end)
           at == CHOOSE h : h = [k \in 0 .. Len(mm.areas) |-> Body(h, k)]
           P == {j \in 0 .. Len(mm.areas) : \E h : h = [k \in 0 .. j |-> Body(h, k)]}
<1>1. 0 \in P
  <2>1. PICK h : h = [k \in 0 .. 0 |-> m]
    OBVIOUS
  <2>2. \A k \in 0 .. 0 : Body(h, k) = m
    OBVIOUS
  <2>3. h = [k \in 0 .. 0 |-> Body(h, k)]
    <3> HIDE DEF Body
    <3> QED BY <2>1, <2>2
  <2> QED BY <2>3
<1>2. ASSUME NEW j \in 1 .. Len(mm.areas), j - 1 \in P
      PROVE  j \in P
  <2>1. PICK h : h = [k \in 0 .. j - 1 |-> Body(h, k)]
    BY <1>2
  <2>2. PICK n : n = [k \in 0 .. j |-> Body(h, k)]
    OBVIOUS
  <2>3. \A k \in 0 .. j - 1 : n[k] = h[k]
    <3> HIDE DEF Body
    <3>1. \A k \in 0 .. j - 1 : n[k] = Body(h, k) /\ h[k] = Body(h, k)
      BY <2>1, <2>2
    <3> QED BY <3>1
  <2>4. \A k \in 0 .. j : Body(n, k) = Body(h, k)
    <3>1. \A k \in 0 .. j : ~ (k = 0) => k - 1 \in 0 .. j - 1
      OBVIOUS
    <3> QED BY <2>3, <3>1
  <2>5. n = [k \in 0 .. j |-> Body(n, k)]
    <3> HIDE DEF Body
    <3> QED BY <2>2, <2>4
  <2> QED BY <2>5
<1>3. Len(mm.areas) \in P
  <2> HIDE DEF P
  <2>1. \A j \in 0 .. Len(mm.areas) : j \in P
    BY <1>1, <1>2, EveryRound
  <2> QED BY <2>1
<1>4. at = [k \in 0 .. Len(mm.areas) |-> Body(at, k)]
  <2>1. \E h : h = [k \in 0 .. Len(mm.areas) |-> Body(h, k)]
    BY <1>3
  <2> HIDE DEF Body
  <2> QED BY <2>1, Zenon
<1>5. Left(m, mm) = at[Len(mm.areas)]
  BY Zenon DEF Left
<1>6. \A k \in 0 .. Len(mm.areas) : at[k] = Body(at, k)
  <2> HIDE DEF Body, at
  <2> QED BY <1>4
<1>7. ExitAll(at, m, mm)
  BY <1>6 DEF ExitAll
<1> HIDE DEF at
<1> QED BY <1>5, <1>7

\* Each page that is mapped lies in an area, which says whether it may be written to.
Fits(m, r, l) ==
  \A a \in UserPages : Cell(m, r, a) # <<>> =>
    \E k \in DOMAIN l : Covers(l[k], a) /\ Cell(m, r, a)[1] = ("VM_WRITE" \in l[k].flags)

\* Each entry of the directory is for pages of an area.
TopsIn(m, r, l) ==
  \A i \in Tops(m, r) : \E k \in DOMAIN l : i \in Pdx1(l[k].start) .. Pdx1(l[k].end - 1)

\* The directory r goes with the areas l.
GoesWith(m, r, l) == Sorted(l) /\ Fits(m, r, l) /\ TopsIn(m, r, l)

\* An area of a list.
LEMMA AreaIs ==
  ASSUME SpaceConstantsOK, NEW l, Sorted(l), NEW k \in DOMAIN l
  PROVE  /\ l[k].start \in Nat /\ l[k].end \in 0 .. NV /\ l[k].start < l[k].end
         /\ l[k].start \in UserPages /\ l[k].end - 1 \in UserPages /\ l[k] \in Areas
<1>1. NV \in Nat
  BY DEF SpaceConstantsOK
<1>2. l \in Seq(Areas) /\ l[k].start < l[k].end
  BY DEF Sorted
<1>3. l[k] \in Areas
  BY <1>2
<1>4. l[k].start \in 0 .. NV - 1 /\ l[k].end \in 1 .. NV
  BY <1>3 DEF Areas
<1> QED BY <1>1, <1>2, <1>3, <1>4 DEF UserPages

\* exit_mmap() takes all pages from a directory.
LEMMA UnmappedAll ==
  ASSUME SpaceConstantsOK, NEW m, NEW R, Good(m, R), NEW mm, mm.root \in R,
         GoesWith(m, mm.root, mm.areas), NEW n, n = Unmapped(m, mm)
  PROVE  /\ Good(n, R) /\ Tops(n, mm.root) = Tops(m, mm.root) /\ Cells(n, mm.root) = NoCells
         /\ AllKept(m, n, R \ {mm.root})
<1>0. PICK l : l = mm.areas
  OBVIOUS
<1>1. PICK r \in R : r = mm.root
  OBVIOUS
<1>2. Sorted(l) /\ Fits(m, r, l) /\ l \in Seq(Areas) /\ DOMAIN l = 1 .. Len(l) /\ Len(l) \in Nat
  BY <1>0, <1>1 DEF GoesWith, Sorted
<1>3. PICK g : /\ n = g[Len(l)]
               /\ \A k \in 0 .. Len(l) : g[k] = IF k = 0 THEN m
                    ELSE UnmappedRange(g[k - 1], r, l[k].start, l[k].end)
  <2>1. \E g : Unmapped(m, mm) = g[Len(mm.areas)] /\ UnmapAll(g, m, mm)
    BY <1>0, <1>2, UnmapAreas
  <2> QED BY <1>0, <1>1, <2>1 DEF UnmapAll
<1> DEFINE Fine(k) ==
             /\ Good(g[k], R) /\ Tops(g[k], r) = Tops(m, r) /\ AllKept(m, g[k], R \ {r})
             /\ \A a \in UserPages :
                  Cell(g[k], r, a) # <<>> => /\ Cell(g[k], r, a) = Cell(m, r, a)
                                            /\ \A j \in 1 .. k : ~ Covers(l[j], a)
           P == {k \in 0 .. Len(l) : Fine(k)}
<1>4. Fine(0)
  <2>1. g[0] = m
    BY <1>2, <1>3
  <2> QED BY <1>1, <2>1 DEF AllKept, Kept
<1>5. ASSUME NEW k \in 1 .. Len(l), Fine(k - 1) PROVE Fine(k)
  <2>1. PICK h : h = g[k - 1]
    OBVIOUS
  <2>2. k \in DOMAIN l /\ k \in 0 .. Len(l) /\ k # 0
    BY <1>2
  <2>3. /\ l[k].start \in Nat /\ l[k].end \in 0 .. NV /\ l[k].start < l[k].end
    BY <1>2, <2>2, AreaIs
  <2>4. g[k] = UnmappedRange(h, r, l[k].start, l[k].end)
    BY <1>3, <2>1, <2>2
  <2>5. /\ Good(h, R) /\ Tops(h, r) = Tops(m, r) /\ AllKept(m, h, R \ {r})
        /\ \A a \in UserPages :
             Cell(h, r, a) # <<>> => /\ Cell(h, r, a) = Cell(m, r, a)
                                     /\ \A j \in 1 .. k - 1 : ~ Covers(l[j], a)
    BY <1>5, <2>1
  <2>6. /\ Good(g[k], R) /\ Empties(h, g[k], r, l[k].start, l[k].end)
        /\ AllKept(h, g[k], R \ {r})
    BY <2>3, <2>4, <2>5, UnmappedGood
  <2>7. AllKept(m, g[k], R \ {r})
    BY <2>5, <2>6, KeptOn DEF AllKept
  <2>8. ASSUME NEW a \in UserPages, Cell(g[k], r, a) # <<>>
        PROVE  /\ Cell(g[k], r, a) = Cell(m, r, a)
               /\ \A j \in 1 .. k : ~ Covers(l[j], a)
    <3>1. a \notin l[k].start .. l[k].end - 1 /\ Cell(g[k], r, a) = Cell(h, r, a)
      BY <2>6, <2>8 DEF Empties
    <3>2. ~ Covers(l[k], a)
      <4>1. a \in Nat
        BY FirstIndex
      <4> QED BY <2>3, <3>1, <4>1 DEF Covers
    <3>3. \A j \in 1 .. k : j = k \/ j \in 1 .. k - 1
      OBVIOUS
    <3> QED BY <2>5, <2>8, <3>1, <3>2, <3>3
  <2>9. Tops(g[k], r) = Tops(m, r)
    BY <2>5, <2>6 DEF Empties
  <2> QED BY <2>6, <2>7, <2>8, <2>9
<1>6. Len(l) \in P
  <2>1. 0 \in P
    <3> HIDE DEF Fine
    <3> QED BY <1>2, <1>4
  <2>2. ASSUME NEW k \in 1 .. Len(l), k - 1 \in P PROVE k \in P
    <3>1. k \in 0 .. Len(l)
      BY <1>2
    <3> HIDE DEF Fine
    <3> QED BY <1>5, <2>2, <3>1
  <2> HIDE DEF P
  <2>3. \A k \in 0 .. Len(l) : k \in P
    BY <1>2, <2>1, <2>2, EveryRound
  <2> QED BY <1>2, <2>3
<1>7. Cells(n, r) = NoCells
  <2> SUFFICES ASSUME NEW a \in UserPages, Cell(n, r, a) # <<>> PROVE FALSE
    BY DEF Cells, NoCells
  <2>1. Cell(n, r, a) = Cell(m, r, a) /\ \A j \in 1 .. Len(l) : ~ Covers(l[j], a)
    BY <1>3, <1>6
  <2>2. \E k \in DOMAIN l : Covers(l[k], a)
    BY <1>2, <2>1 DEF Fits
  <2> QED BY <1>2, <2>1, <2>2
<1> QED BY <1>1, <1>3, <1>6, <1>7

\* Then it takes the tables of the middle level.
LEMMA LeftAll ==
  ASSUME SpaceConstantsOK, NEW m, NEW R, Good(m, R), NEW mm, mm.root \in R, Sorted(mm.areas),
         TopsIn(m, mm.root, mm.areas), Cells(m, mm.root) = NoCells, NEW n, n = Left(m, mm)
  PROVE  Good(n, R) /\ Tops(n, mm.root) = {} /\ AllKept(m, n, R \ {mm.root})
<1>0. PICK l : l = mm.areas
  OBVIOUS
<1>1. PICK r \in R : r = mm.root
  OBVIOUS
<1>2. /\ Sorted(l) /\ TopsIn(m, r, l) /\ l \in Seq(Areas) /\ DOMAIN l = 1 .. Len(l)
      /\ Len(l) \in Nat /\ Cells(m, r) = NoCells
  BY <1>0, <1>1 DEF Sorted
<1>3. PICK g : /\ n = g[Len(l)]
               /\ \A k \in 0 .. Len(l) : g[k] = IF k = 0 THEN m
                    ELSE ExitedRange(g[k - 1], r, l[k].start, l[k].end)
  <2>1. \E g : Left(m, mm) = g[Len(mm.areas)] /\ ExitAll(g, m, mm)
    BY <1>0, <1>2, ExitAreas
  <2> QED BY <1>0, <1>1, <2>1 DEF ExitAll
<1> DEFINE Fine(k) ==
             /\ Good(g[k], R) /\ Cells(g[k], r) = NoCells /\ AllKept(m, g[k], R \ {r})
             /\ Tops(g[k], r) \subseteq Tops(m, r)
             /\ \A j \in 1 .. k :
                  Tops(g[k], r) \cap (Pdx1(l[j].start) .. Pdx1(l[j].end - 1)) = {}
           P == {k \in 0 .. Len(l) : Fine(k)}
<1>4. Fine(0)
  <2>1. g[0] = m
    BY <1>2, <1>3
  <2> QED BY <1>2, <2>1 DEF AllKept, Kept
<1>5. ASSUME NEW k \in 1 .. Len(l), Fine(k - 1) PROVE Fine(k)
  <2>1. PICK h : h = g[k - 1]
    OBVIOUS
  <2>2. k \in DOMAIN l /\ k \in 0 .. Len(l) /\ k # 0
    BY <1>2
  <2>3. /\ l[k].start \in Nat /\ l[k].end \in 0 .. NV /\ l[k].start < l[k].end
    BY <1>2, <2>2, AreaIs
  <2>4. g[k] = ExitedRange(h, r, l[k].start, l[k].end)
    BY <1>3, <2>1, <2>2
  <2>5. /\ Good(h, R) /\ Cells(h, r) = NoCells /\ AllKept(m, h, R \ {r})
        /\ Tops(h, r) \subseteq Tops(m, r)
        /\ \A j \in 1 .. k - 1 :
             Tops(h, r) \cap (Pdx1(l[j].start) .. Pdx1(l[j].end - 1)) = {}
    BY <1>5, <2>1
  <2>6. /\ Good(g[k], R) /\ Shuts(h, g[k], r, l[k].start, l[k].end)
        /\ AllKept(h, g[k], R \ {r})
    BY <2>3, <2>4, <2>5, ShutGood
  <2>7. AllKept(m, g[k], R \ {r})
    BY <2>5, <2>6, KeptOn DEF AllKept
  <2>8. /\ Tops(g[k], r) \subseteq Tops(h, r)
        /\ Tops(g[k], r) \cap (Pdx1(l[k].start) .. Pdx1(l[k].end - 1)) = {}
        /\ Cells(g[k], r) = NoCells
    BY <2>6 DEF Shuts
  <2>9. \A j \in 1 .. k : j = k \/ j \in 1 .. k - 1
    OBVIOUS
  <2>10. \A j \in 1 .. k :
           Tops(g[k], r) \cap (Pdx1(l[j].start) .. Pdx1(l[j].end - 1)) = {}
    BY <2>5, <2>8, <2>9
  <2> QED BY <2>5, <2>6, <2>7, <2>8, <2>10
<1>6. Len(l) \in P
  <2>1. 0 \in P
    <3> HIDE DEF Fine
    <3> QED BY <1>2, <1>4
  <2>2. ASSUME NEW k \in 1 .. Len(l), k - 1 \in P PROVE k \in P
    <3>1. k \in 0 .. Len(l)
      BY <1>2
    <3> HIDE DEF Fine
    <3> QED BY <1>5, <2>2, <3>1
  <2> HIDE DEF P
  <2>3. \A k \in 0 .. Len(l) : k \in P
    BY <1>2, <2>1, <2>2, EveryRound
  <2> QED BY <1>2, <2>3
<1>7. Tops(n, r) = {}
  <2> SUFFICES ASSUME NEW i \in Tops(n, r) PROVE FALSE
    OBVIOUS
  <2>1. /\ i \in Tops(m, r)
        /\ \A j \in 1 .. Len(l) : i \notin Pdx1(l[j].start) .. Pdx1(l[j].end - 1)
    BY <1>3, <1>6
  <2> QED BY <1>2, <2>1 DEF TopsIn
<1> QED BY <1>1, <1>3, <1>6, <1>7

\* exit_mmap() and put_pgdir() leave nothing but lost tables.
LEMMA DestroyedGood ==
  ASSUME SpaceConstantsOK, NEW m, NEW R, Good(m, R), NEW mm, mm.root \in R,
         GoesWith(m, mm.root, mm.areas), NEW n, n = Destroyed(m, mm)
  PROVE  Good(n, R \ {mm.root}) /\ AllKept(m, n, R \ {mm.root})
<1>1. PICK u : u = Unmapped(m, mm)
  OBVIOUS
<1>2. /\ Good(u, R) /\ Tops(u, mm.root) = Tops(m, mm.root) /\ Cells(u, mm.root) = NoCells
      /\ AllKept(m, u, R \ {mm.root})
  BY <1>1, UnmappedAll
<1>3. PICK l : l = Left(u, mm)
  OBVIOUS
<1>4. Sorted(mm.areas) /\ TopsIn(u, mm.root, mm.areas)
  BY <1>2 DEF GoesWith, TopsIn
<1>5. Good(l, R) /\ Tops(l, mm.root) = {} /\ AllKept(u, l, R \ {mm.root})
  BY <1>2, <1>3, <1>4, LeftAll
<1>6. n = Freed(l, mm.root)
  BY <1>1, <1>3 DEF Destroyed
<1>7. Good(n, R \ {mm.root}) /\ AllKept(l, n, R \ {mm.root})
  BY <1>5, <1>6, DroppedGood
<1>8. AllKept(m, n, R \ {mm.root})
  BY <1>2, <1>5, <1>7, KeptOn DEF AllKept
<1> QED BY <1>7, <1>8

-----------------------------------------------------------------------------
(* load_icode() *)

\* An area of the list l.
InList(l, area) == \E k \in DOMAIN l : l[k] = area

\* insert_vma_struct() after the checks of mm_map(): the new area and all others are there.
LEMMA MappedSorted ==
  ASSUME SpaceConstantsOK, NEW l, Sorted(l), NEW area \in Areas,
         MmMap(l, NoArea, area) = "mapped"
  PROVE  /\ area.start < area.end /\ Sorted(InsertVma(l, area)) /\ InList(InsertVma(l, area), area)
         /\ \A k \in DOMAIN l : InList(InsertVma(l, area), l[k])
         /\ \A k \in DOMAIN l : area.end <= l[k].start \/ l[k].end <= area.start
<1>0. area.start \in Int /\ area.end \in Int /\ l \in Seq(Areas)
  BY DEF Areas, Sorted
<1>1. area.start < area.end /\ InsertAsserts(l, area)
  BY DEF MmMap
<1>2. Apart(l, area)
  BY <1>0, <1>1, AssertsAreApart
<1>3. /\ Sorted(InsertVma(l, area))
      /\ \A i \in DOMAIN l : \E j \in DOMAIN InsertVma(l, area) : InsertVma(l, area)[j] = l[i]
  BY <1>1, <1>2, InsertSorted
<1>4. InList(InsertVma(l, area), area)
  <2>1. PICK i \in 1 .. Len(l) + 1 : i = PlaceOf(l, area)
    BY <1>0, PlaceIs
  <2>2. Inserted(l, i, area, InsertVma(l, area)) /\ InsertVma(l, area) \in Seq(Areas)
    BY <1>0, <2>1, InsertIs DEF InsertVma
  <2>3. i \in DOMAIN InsertVma(l, area) /\ InsertVma(l, area)[i] = area
    BY <1>0, <2>1, <2>2 DEF Inserted
  <2> QED BY <2>3 DEF InList
<1>5. \A k \in DOMAIN l : area.end <= l[k].start \/ l[k].end <= area.start
  BY <1>2 DEF Apart
<1> QED BY <1>1, <1>3, <1>4, <1>5 DEF InList

\* A directory goes with more areas, too.
LEMMA GoesWithMore ==
  ASSUME NEW m, NEW r, NEW l, GoesWith(m, r, l), NEW l2, Sorted(l2),
         \A k \in DOMAIN l : InList(l2, l[k])
  PROVE  GoesWith(m, r, l2)
<1>1. Fits(m, r, l2)
  BY DEF GoesWith, Fits, InList
<1>2. TopsIn(m, r, l2)
  BY DEF GoesWith, TopsIn, InList
<1> QED BY <1>1, <1>2 DEF GoesWith

\* A page of an area is added.
LEMMA GoesWithPage ==
  ASSUME SpaceConstantsOK, NEW m, NEW r, NEW l, GoesWith(m, r, l), NEW a \in UserPages,
         NEW c, NEW n, Gets(m, n, r, a, c), NEW k \in DOMAIN l, Covers(l[k], a),
         c # <<>> => c[1] = ("VM_WRITE" \in l[k].flags)
  PROVE  GoesWith(n, r, l)
<1>1. Fits(n, r, l)
  <2> SUFFICES ASSUME NEW b \in UserPages, Cell(n, r, b) # <<>>
               PROVE  \E j \in DOMAIN l : /\ Covers(l[j], b)
                                          /\ Cell(n, r, b)[1] = ("VM_WRITE" \in l[j].flags)
    BY DEF Fits
  <2>1. Cell(n, r, b) = IF b = a THEN c ELSE Cell(m, r, b)
    BY DEF Gets, Cells
  <2> QED BY <2>1 DEF GoesWith, Fits
<1>2. Pdx1(a) \in Pdx1(l[k].start) .. Pdx1(l[k].end - 1)
  <2>1. l[k].start \in UserPages /\ l[k].end - 1 \in UserPages /\ l[k].end \in Int
    BY AreaIs DEF GoesWith
  <2>2. a \in Nat /\ l[k].start \in Nat /\ l[k].end - 1 \in Nat
    BY <2>1, FirstIndex
  <2>3. l[k].start <= a /\ a <= l[k].end - 1
    BY <2>1, <2>2 DEF Covers
  <2>4. /\ Pdx1(l[k].start) \in Int /\ Pdx1(a) \in Int /\ Pdx1(l[k].end - 1) \in Int
    BY <2>1, FirstIndex DEF Slots
  <2>5. Pdx1(l[k].start) <= Pdx1(a) /\ Pdx1(a) <= Pdx1(l[k].end - 1)
    BY <2>2, <2>3, IndexGrows
  <2> QED BY <2>4, <2>5
<1>3. TopsIn(n, r, l)
  <2> SUFFICES ASSUME NEW i \in Tops(n, r)
               PROVE  \E j \in DOMAIN l : i \in Pdx1(l[j].start) .. Pdx1(l[j].end - 1)
    BY DEF TopsIn
  <2>1. i \in Tops(m, r) \/ i = Pdx1(a)
    BY DEF Gets
  <2> QED BY <1>2, <2>1 DEF GoesWith, TopsIn
<1> QED BY <1>1, <1>3 DEF GoesWith

\* load_icode() at work: what it leaves alone and what goes with its areas, unless it
\* has asked for a frame in vain or run into an assertion.
LoadState(s) ==
  /\ s = [m |-> s.m, mm |-> s.mm, reads |-> s.reads, goes |-> s.goes]
  /\ s.mm = [root |-> s.mm.root, areas |-> s.mm.areas]
  /\ s.goes \in {"on", "failed", "panic"}

Sane(s, m0, R) ==
  /\ s.mm.root \notin R /\ Good(s.m, R \cup {s.mm.root}) /\ AllKept(m0, s.m, R)
  /\ GoesWith(s.m, s.mm.root, s.mm.areas)

LoadInv(s, m0, R) == LoadState(s) /\ (s.goes = "panic" \/ Gone(s.m) \/ Sane(s, m0, R))

Alive(s) == s.goes = "on" /\ ~ Gone(s.m)

\* What the new address space holds.
NewCells(s) == Cells(s.m, s.mm.root)

\* load_icode_read() reads, or not.
LEMMA HasReadKeeps ==
  ASSUME NEW m0, NEW R, NEW s, LoadInv(s, m0, R), NEW n, n = HasRead(s)
  PROVE  LoadInv(n, m0, R) /\ n.m = s.m /\ n.mm = s.mm /\ (Alive(n) => Alive(s))
<1>1. LoadState(n) /\ n.m = s.m /\ n.mm = s.mm /\ (n.goes = "on" => s.goes = "on")
      /\ (s.goes = "panic" => n.goes = "panic")
  BY DEF LoadInv, LoadState, HasRead
<1> QED BY <1>1 DEF LoadInv, Sane, Alive

\* mm_map() gives an area in which there is no page yet.
LEMMA HasMappedKeeps ==
  ASSUME SpaceConstantsOK, NEW m0, NEW R, NEW s, LoadInv(s, m0, R), NEW area \in Areas,
         NEW n, n = HasMapped(s, area)
  PROVE  /\ LoadInv(n, m0, R) /\ n.m = s.m /\ n.mm.root = s.mm.root
         /\ Alive(n) => /\ Alive(s) /\ InList(n.mm.areas, area)
                        /\ \A a \in area.start .. area.end - 1 : NewCells(s)[a] = <<>>
<1>0. PICK x : x = MmMap(s.mm.areas, NoArea, area)
  OBVIOUS
<1>1. CASE s.goes # "on"
  <2>1. n = s
    BY <1>1 DEF HasMapped
  <2> QED BY <1>1, <2>1 DEF Alive
<1>2. CASE s.goes = "on" /\ x # "mapped"
  <2>1. n = [s EXCEPT !.goes = IF x = "inval" THEN "failed" ELSE "panic"]
    BY <1>0, <1>2 DEF HasMapped
  <2>2. LoadState(n) /\ n.m = s.m /\ n.mm = s.mm /\ n.goes # "on"
    BY <2>1 DEF LoadInv, LoadState
  <2> QED BY <1>2, <2>2 DEF LoadInv, Sane, Alive
<1>3. CASE s.goes = "on" /\ x = "mapped"
  <2>1. n = [s EXCEPT !.mm.areas = InsertVma(s.mm.areas, area)]
    BY <1>0, <1>3 DEF HasMapped
  <2>2. PICK l : l = InsertVma(s.mm.areas, area)
    OBVIOUS
  <2>3. /\ LoadState(n) /\ n.m = s.m /\ n.mm.root = s.mm.root /\ n.mm.areas = l
        /\ n.goes = s.goes
    BY <2>1, <2>2 DEF LoadInv, LoadState
  <2>4. CASE Gone(s.m)
    BY <1>3, <2>3, <2>4 DEF LoadInv, Alive
  <2>5. CASE ~ Gone(s.m)
    <3>1. Sane(s, m0, R)
      BY <1>3, <2>5 DEF LoadInv
    <3>2. /\ Sorted(s.mm.areas) /\ Fits(s.m, s.mm.root, s.mm.areas)
          /\ GoesWith(s.m, s.mm.root, s.mm.areas)
      BY <3>1 DEF Sane, GoesWith
    <3>3. /\ Sorted(l) /\ InList(l, area) /\ \A k \in DOMAIN s.mm.areas : InList(l, s.mm.areas[k])
          /\ \A k \in DOMAIN s.mm.areas :
               area.end <= s.mm.areas[k].start \/ s.mm.areas[k].end <= area.start
      BY <1>0, <1>3, <2>2, <3>2, MappedSorted
    <3>4. GoesWith(s.m, s.mm.root, l)
      BY <3>2, <3>3, GoesWithMore
    <3>5. Sane(n, m0, R)
      BY <2>3, <3>1, <3>4 DEF Sane
    <3>6. ASSUME NEW a \in area.start .. area.end - 1
          PROVE  NewCells(s)[a] = <<>>
      <4>1. a \in UserPages /\ area.start <= a /\ a < area.end /\ a \in Int
        <5>1. area.start \in 0 .. NV - 1 /\ area.end \in 1 .. NV /\ NV \in Nat
          BY DEF Areas, SpaceConstantsOK
        <5> QED BY <5>1 DEF UserPages
      <4>2. \A k \in DOMAIN s.mm.areas : ~ Covers(s.mm.areas[k], a)
        <5> SUFFICES ASSUME NEW k \in DOMAIN s.mm.areas, Covers(s.mm.areas[k], a) PROVE FALSE
          OBVIOUS
        <5>1. s.mm.areas[k].start \in Nat /\ s.mm.areas[k].end \in 0 .. NV
          BY <3>2, AreaIs
        <5>2. area.end <= s.mm.areas[k].start \/ s.mm.areas[k].end <= area.start
          BY <3>3
        <5>3. area.start \in Int /\ area.end \in Int /\ NV \in Nat
          BY DEF Areas, SpaceConstantsOK
        <5> QED BY <4>1, <5>1, <5>2, <5>3 DEF Covers
      <4>3. Cell(s.m, s.mm.root, a) = <<>>
        BY <3>2, <4>1, <4>2 DEF Fits
      <4> QED BY <4>1, <4>3 DEF NewCells, Cells
    <3> QED BY <1>3, <2>3, <2>5, <3>3, <3>5, <3>6 DEF LoadInv, Alive
  <2> QED BY <2>4, <2>5
<1> QED BY <1>1, <1>2, <1>3

\* pgdir_alloc_page() in the directory r leaves those of R alone.
LEMMA AllocedMore ==
  ASSUME SpaceConstantsOK, NEW m, NEW R, NEW r, r \notin R, NEW S, S = R \cup {r}, Good(m, S),
         NEW a \in UserPages, Cell(m, r, a) = <<>>, NEW w \in BOOLEAN, NEW v \in Values,
         NEW n, n = PageAlloced(m, r, a, w, v)
  PROVE  Gone(n) \/ (Good(n, S) /\ Gets(m, n, r, a, <<w, v>>) /\ AllKept(m, n, R))
<1>1. r \in S /\ S \ {r} = R
  OBVIOUS
<1>2. \/ Gone(n)
      \/ /\ Good(n, S) /\ Gets(m, n, r, a, <<w, v>>)
         /\ \A x \in S \ {r} : Kept(m, n, x)
  BY <1>1, AllocedGood
<1> QED BY <1>1, <1>2 DEF AllKept

\* Writes to the area are let through or not.
MayWriteIs(area, w) == w = ("VM_WRITE" \in area.flags)

\* pgdir_alloc_page() gives a page of an area, where there was none.
LEMMA HasPageKeeps ==
  ASSUME SpaceConstantsOK, NEW m0, NEW R, NEW s, LoadInv(s, m0, R), NEW a \in UserPages,
         NEW w \in BOOLEAN, NEW v \in Values, NEW area, Alive(s) => InList(s.mm.areas, area),
         Covers(area, a), MayWriteIs(area, w), Alive(s) => NewCells(s)[a] = <<>>,
         NEW n, n = HasPage(s, a, w, v)
  PROVE  /\ LoadInv(n, m0, R) /\ n.mm = s.mm
         /\ Alive(n) => Alive(s) /\ NewCells(n) = [NewCells(s) EXCEPT ![a] = <<w, v>>]
<1>1. CASE s.goes # "on"
  <2>1. n = s
    BY <1>1 DEF HasPage
  <2> QED BY <1>1, <2>1 DEF Alive
<1>2. CASE s.goes = "on"
  <2>1. PICK r : r = s.mm.root
    OBVIOUS
  <2>2. PICK k : k = PageAlloced(s.m, r, a, w, v)
    OBVIOUS
  <2>3. n = [s EXCEPT !.m = k]
    BY <1>2, <2>1, <2>2 DEF HasPage
  <2>4. LoadState(n) /\ n.m = k /\ n.mm = s.mm /\ n.goes = "on"
    BY <1>2, <2>3 DEF LoadInv, LoadState
  <2>5. CASE Gone(s.m)
    <3>1. Gone(k)
      BY <2>2, <2>5, GoneInserted
    <3> QED BY <2>4, <3>1 DEF LoadInv, Alive
  <2>6. CASE ~ Gone(s.m)
    <3>1. Sane(s, m0, R) /\ Alive(s)
      BY <1>2, <2>6 DEF LoadInv, Alive
    <3>2. /\ r \notin R /\ Good(s.m, R \cup {r}) /\ AllKept(m0, s.m, R)
          /\ GoesWith(s.m, r, s.mm.areas) /\ Cell(s.m, r, a) = <<>>
      BY <2>1, <3>1 DEF Sane, NewCells, Cells
    <3>3. PICK S : S = R \cup {r}
      OBVIOUS
    <3>4. Gone(k) \/ (Good(k, S) /\ Gets(s.m, k, r, a, <<w, v>>) /\ AllKept(s.m, k, R))
      BY <2>2, <3>2, <3>3, AllocedMore
    <3>5. CASE Gone(k)
      BY <2>4, <3>5 DEF LoadInv, Alive
    <3>6. CASE ~ Gone(k)
      <4>1. Good(k, S) /\ Gets(s.m, k, r, a, <<w, v>>) /\ AllKept(s.m, k, R)
        BY <3>4, <3>6
      <4>2. AllKept(m0, k, R)
        BY <3>2, <3>3, <4>1, KeptOn DEF AllKept
      <4>3. PICK j \in DOMAIN s.mm.areas : s.mm.areas[j] = area
        BY <3>1 DEF InList
      <4>4. PICK c : c = <<w, v>>
        OBVIOUS
      <4>5. GoesWith(k, r, s.mm.areas)
        <5>1. c[1] = ("VM_WRITE" \in s.mm.areas[j].flags) /\ Covers(s.mm.areas[j], a)
              /\ Gets(s.m, k, r, a, c)
          BY <4>1, <4>3, <4>4 DEF MayWriteIs
        <5> QED BY <3>2, <5>1, GoesWithPage
      <4>6. Sane(n, m0, R)
        BY <2>1, <2>4, <3>2, <3>3, <4>1, <4>2, <4>5 DEF Sane
      <4>7. NewCells(n) = [NewCells(s) EXCEPT ![a] = <<w, v>>]
        BY <2>1, <2>4, <4>1 DEF NewCells, Gets
      <4> QED BY <2>4, <3>1, <4>6, <4>7 DEF LoadInv
    <3> QED BY <3>5, <3>6
  <2> QED BY <2>5, <2>6
<1> QED BY <1>1, <1>2

\* The area of a segment, and the round of load_icode() for its page a.
AreaOf(seg) == [start |-> seg.start, end |-> seg.end, flags |-> seg.flags]

SegmentRound(s, seg, a) ==
  IF a < seg.filend THEN HasRead(HasPage(s, a, "VM_WRITE" \in seg.flags, FileData))
  ELSE HasPage(s, a, "VM_WRITE" \in seg.flags, FileData)

\* The round for page k of the stack, and what comes before the first.
StackRound(s, k, v) == HasPage(s, NV - k, TRUE, v[k])
StackBegun(s) == HasMapped(s, StackArea)

\* What the rounds go through.
SegmentWalk(g, s, seg) ==
  \A k \in 0 .. NV :
    g[k] = IF k <= seg.start THEN HasMapped(HasRead(s), AreaOf(seg))
           ELSE SegmentRound(g[k - 1], seg, k - 1)

\* load_icode() goes through the pages of a segment.
LEMMA SegmentRounds ==
  ASSUME NV \in Nat, NEW s, NEW seg, seg.start \in Nat
  PROVE  \E g : HasSegment(s, seg) = g[seg.end] /\ SegmentWalk(g, s, seg)
<1> DEFINE Body(h, k) == IF k <= seg.start THEN HasMapped(HasRead(s), AreaOf(seg))
                         ELSE SegmentRound(h[k - 1], seg, k - 1)
           at == CHOOSE h : h = [k \in 0 .. NV |-> Body(h, k)]
           P == {j \in 0 .. NV : \E h : h = [k \in 0 .. j |-> Body(h, k)]}
<1>1. 0 \in P
  <2>1. PICK h : h = [k \in 0 .. 0 |-> HasMapped(HasRead(s), AreaOf(seg))]
    OBVIOUS
  <2>2. \A k \in 0 .. 0 : Body(h, k) = HasMapped(HasRead(s), AreaOf(seg))
    OBVIOUS
  <2>3. h = [k \in 0 .. 0 |-> Body(h, k)]
    <3> HIDE DEF Body
    <3> QED BY <2>1, <2>2
  <2> QED BY <2>3
<1>2. ASSUME NEW j \in 1 .. NV, j - 1 \in P
      PROVE  j \in P
  <2>1. PICK h : h = [k \in 0 .. j - 1 |-> Body(h, k)]
    BY <1>2
  <2>2. PICK n : n = [k \in 0 .. j |-> Body(h, k)]
    OBVIOUS
  <2>3. \A k \in 0 .. j - 1 : n[k] = h[k]
    <3> HIDE DEF Body
    <3>1. \A k \in 0 .. j - 1 : n[k] = Body(h, k) /\ h[k] = Body(h, k)
      BY <2>1, <2>2
    <3> QED BY <3>1
  <2>4. \A k \in 0 .. j : Body(n, k) = Body(h, k)
    <3>1. \A k \in 0 .. j : ~ (k <= seg.start) => k - 1 \in 0 .. j - 1
      OBVIOUS
    <3> QED BY <2>3, <3>1
  <2>5. n = [k \in 0 .. j |-> Body(n, k)]
    <3> HIDE DEF Body
    <3> QED BY <2>2, <2>4
  <2> QED BY <2>5
<1>3. NV \in P
  <2> HIDE DEF P
  <2>1. \A j \in 0 .. NV : j \in P
    BY <1>1, <1>2, EveryRound
  <2> QED BY <2>1
<1>4. at = [k \in 0 .. NV |-> Body(at, k)]
  <2>1. \E h : h = [k \in 0 .. NV |-> Body(h, k)]
    BY <1>3
  <2> HIDE DEF Body
  <2> QED BY <2>1, Zenon
<1>5. HasSegment(s, seg) = at[seg.end]
  BY Zenon DEF HasSegment, SegmentRound, AreaOf
<1>6. \A k \in 0 .. NV : at[k] = Body(at, k)
  <2> HIDE DEF Body, at
  <2> QED BY <1>4
<1>7. SegmentWalk(at, s, seg)
  BY <1>6 DEF SegmentWalk
<1> HIDE DEF at
<1> QED BY <1>5, <1>7

\* What the rounds go through.
FileWalk(g, s, prog) ==
  \A k \in 0 .. Len(prog) :
    g[k] = IF k = 0 THEN s ELSE HasSegment(g[k - 1], prog[k])

\* load_icode() goes through the segments of a file.
LEMMA FileRounds ==
  ASSUME NEW s, NEW prog, Len(prog) \in Nat
  PROVE  \E g : HasFile(s, prog) = g[Len(prog)] /\ FileWalk(g, s, prog)
<1> DEFINE Body(h, k) == IF k = 0 THEN s
                         ELSE HasSegment(h[k - 1], prog[k])
           at == CHOOSE h : h = [k \in 0 .. Len(prog) |-> Body(h, k)]
           P == {j \in 0 .. Len(prog) : \E h : h = [k \in 0 .. j |-> Body(h, k)]}
<1>1. 0 \in P
  <2>1. PICK h : h = [k \in 0 .. 0 |-> s]
    OBVIOUS
  <2>2. \A k \in 0 .. 0 : Body(h, k) = s
    OBVIOUS
  <2>3. h = [k \in 0 .. 0 |-> Body(h, k)]
    <3> HIDE DEF Body
    <3> QED BY <2>1, <2>2
  <2> QED BY <2>3
<1>2. ASSUME NEW j \in 1 .. Len(prog), j - 1 \in P
      PROVE  j \in P
  <2>1. PICK h : h = [k \in 0 .. j - 1 |-> Body(h, k)]
    BY <1>2
  <2>2. PICK n : n = [k \in 0 .. j |-> Body(h, k)]
    OBVIOUS
  <2>3. \A k \in 0 .. j - 1 : n[k] = h[k]
    <3> HIDE DEF Body
    <3>1. \A k \in 0 .. j - 1 : n[k] = Body(h, k) /\ h[k] = Body(h, k)
      BY <2>1, <2>2
    <3> QED BY <3>1
  <2>4. \A k \in 0 .. j : Body(n, k) = Body(h, k)
    <3>1. \A k \in 0 .. j : ~ (k = 0) => k - 1 \in 0 .. j - 1
      OBVIOUS
    <3> QED BY <2>3, <3>1
  <2>5. n = [k \in 0 .. j |-> Body(n, k)]
    <3> HIDE DEF Body
    <3> QED BY <2>2, <2>4
  <2> QED BY <2>5
<1>3. Len(prog) \in P
  <2> HIDE DEF P
  <2>1. \A j \in 0 .. Len(prog) : j \in P
    BY <1>1, <1>2, EveryRound
  <2> QED BY <2>1
<1>4. at = [k \in 0 .. Len(prog) |-> Body(at, k)]
  <2>1. \E h : h = [k \in 0 .. Len(prog) |-> Body(h, k)]
    BY <1>3
  <2> HIDE DEF Body
  <2> QED BY <2>1, Zenon
<1>5. HasFile(s, prog) = at[Len(prog)]
  BY Zenon DEF HasFile
<1>6. \A k \in 0 .. Len(prog) : at[k] = Body(at, k)
  <2> HIDE DEF Body, at
  <2> QED BY <1>4
<1>7. FileWalk(at, s, prog)
  BY <1>6 DEF FileWalk
<1> HIDE DEF at
<1> QED BY <1>5, <1>7

\* What the rounds go through.
StackWalk(g, s, v) ==
  \A k \in 0 .. StackThere :
    g[k] = IF k = 0 THEN StackBegun(s) ELSE StackRound(g[k - 1], k, v)

\* load_icode() goes through the first pages of the stack, downwards.
LEMMA StackRounds ==
  ASSUME StackThere \in Nat, NEW s, NEW v
  PROVE  \E g : HasStack(s, v) = g[StackThere] /\ StackWalk(g, s, v)
<1> DEFINE Body(h, k) == IF k = 0 THEN StackBegun(s)
                         ELSE StackRound(h[k - 1], k, v)
           at == CHOOSE h : h = [k \in 0 .. StackThere |-> Body(h, k)]
           P == {j \in 0 .. StackThere : \E h : h = [k \in 0 .. j |-> Body(h, k)]}
<1>1. 0 \in P
  <2>1. PICK h : h = [k \in 0 .. 0 |-> StackBegun(s)]
    OBVIOUS
  <2>2. \A k \in 0 .. 0 : Body(h, k) = StackBegun(s)
    OBVIOUS
  <2>3. h = [k \in 0 .. 0 |-> Body(h, k)]
    <3> HIDE DEF Body
    <3> QED BY <2>1, <2>2
  <2> QED BY <2>3
<1>2. ASSUME NEW j \in 1 .. StackThere, j - 1 \in P
      PROVE  j \in P
  <2>1. PICK h : h = [k \in 0 .. j - 1 |-> Body(h, k)]
    BY <1>2
  <2>2. PICK n : n = [k \in 0 .. j |-> Body(h, k)]
    OBVIOUS
  <2>3. \A k \in 0 .. j - 1 : n[k] = h[k]
    <3> HIDE DEF Body
    <3>1. \A k \in 0 .. j - 1 : n[k] = Body(h, k) /\ h[k] = Body(h, k)
      BY <2>1, <2>2
    <3> QED BY <3>1
  <2>4. \A k \in 0 .. j : Body(n, k) = Body(h, k)
    <3>1. \A k \in 0 .. j : ~ (k = 0) => k - 1 \in 0 .. j - 1
      OBVIOUS
    <3> QED BY <2>3, <3>1
  <2>5. n = [k \in 0 .. j |-> Body(n, k)]
    <3> HIDE DEF Body
    <3> QED BY <2>2, <2>4
  <2> QED BY <2>5
<1>3. StackThere \in P
  <2> HIDE DEF P
  <2>1. \A j \in 0 .. StackThere : j \in P
    BY <1>1, <1>2, EveryRound
  <2> QED BY <2>1
<1>4. at = [k \in 0 .. StackThere |-> Body(at, k)]
  <2>1. \E h : h = [k \in 0 .. StackThere |-> Body(h, k)]
    BY <1>3
  <2> HIDE DEF Body
  <2> QED BY <2>1, Zenon
<1>5. HasStack(s, v) = at[StackThere]
  BY Zenon DEF HasStack, StackRound, StackBegun
<1>6. \A k \in 0 .. StackThere : at[k] = Body(at, k)
  <2> HIDE DEF Body, at
  <2> QED BY <1>4
<1>7. StackWalk(at, s, v)
  BY <1>6 DEF StackWalk
<1> HIDE DEF at
<1> QED BY <1>5, <1>7

\* The pages lo .. k - 1 are there and hold what the file has, the others are as in c.
FilledUpTo(c, d, lo, k, w) ==
  \A a \in UserPages : d[a] = IF a \in lo .. k - 1 THEN <<w, FileData>> ELSE c[a]

\* A segment is mapped and filled, where nothing was.
LEMMA SegmentKeeps ==
  ASSUME SpaceConstantsOK, NEW m0, NEW R, NEW s, LoadInv(s, m0, R), NEW seg \in Segments,
         NEW n, n = HasSegment(s, seg)
  PROVE  /\ LoadInv(n, m0, R) /\ n.mm.root = s.mm.root
         /\ Alive(n) => /\ Alive(s)
                        /\ \A a \in seg.start .. seg.end - 1 : NewCells(s)[a] = <<>>
                        /\ FilledUpTo(NewCells(s), NewCells(n), seg.start, seg.end,
                                  "VM_WRITE" \in seg.flags)
<1>0. /\ NV \in Nat /\ seg.start \in 0 .. NV - 1 /\ seg.end \in 1 .. NV
      /\ seg.flags \in SUBSET Flags /\ FileData \in Values
  BY DEF SpaceConstantsOK, Segments
<1>1. PICK area : area = AreaOf(seg)
  OBVIOUS
<1>2. /\ area \in Areas /\ area.start = seg.start /\ area.end = seg.end
      /\ area.flags = seg.flags
  BY <1>0, <1>1 DEF AreaOf, Areas
<1>3. PICK w \in BOOLEAN : MayWriteIs(seg, w)
  <2>1. CASE "VM_WRITE" \in seg.flags
    <3>1. MayWriteIs(seg, TRUE)
      BY <2>1 DEF MayWriteIs
    <3> QED BY <3>1
  <2>2. CASE "VM_WRITE" \notin seg.flags
    <3>1. MayWriteIs(seg, FALSE)
      BY <2>2 DEF MayWriteIs
    <3> QED BY <3>1
  <2> QED BY <2>1, <2>2
<1>4. PICK b : b = HasMapped(HasRead(s), area)
  OBVIOUS
<1>5. /\ LoadInv(b, m0, R) /\ b.m = s.m /\ b.mm.root = s.mm.root
      /\ Alive(b) => /\ Alive(s) /\ InList(b.mm.areas, area)
                     /\ \A a \in seg.start .. seg.end - 1 : NewCells(s)[a] = <<>>
  <2>1. PICK t : t = HasRead(s)
    OBVIOUS
  <2>2. LoadInv(t, m0, R) /\ t.m = s.m /\ t.mm = s.mm /\ (Alive(t) => Alive(s))
    BY <2>1, HasReadKeeps
  <2>3. /\ LoadInv(b, m0, R) /\ b.m = t.m /\ b.mm.root = t.mm.root
        /\ Alive(b) => /\ Alive(t) /\ InList(b.mm.areas, area)
                       /\ \A a \in area.start .. area.end - 1 : NewCells(t)[a] = <<>>
    BY <1>2, <1>4, <2>1, <2>2, HasMappedKeeps
  <2> QED BY <1>2, <2>2, <2>3 DEF NewCells
<1>6. PICK g : /\ n = g[seg.end]
               /\ \A k \in 0 .. NV : g[k] = IF k <= seg.start THEN b
                                          ELSE SegmentRound(g[k - 1], seg, k - 1)
  <2>1. \E g : HasSegment(s, seg) = g[seg.end] /\ SegmentWalk(g, s, seg)
    BY <1>0, SegmentRounds
  <2> QED BY <1>1, <1>4, <2>1 DEF SegmentWalk
<1> DEFINE Fine(k) == /\ LoadInv(g[k], m0, R) /\ g[k].mm = b.mm
                      /\ Alive(g[k]) => /\ Alive(b)
                                        /\ FilledUpTo(NewCells(b), NewCells(g[k]), seg.start, k, w)
           P == {k \in 0 .. seg.end : Fine(k)}
<1>7. ASSUME NEW k \in 0 .. seg.end, k <= seg.start PROVE Fine(k)
  <2>1. g[k] = b
    BY <1>0, <1>6, <1>7
  <2>2. \A a : ~ (a \in seg.start .. k - 1)
    BY <1>0, <1>7
  <2> QED BY <1>5, <2>1, <2>2 DEF FilledUpTo
<1>8. ASSUME NEW k \in 1 .. seg.end, Fine(k - 1), k > seg.start PROVE Fine(k)
  <2>1. PICK h : h = g[k - 1]
    OBVIOUS
  <2>2. PICK a : a = k - 1
    OBVIOUS
  <2>3. a \in UserPages /\ a \in Int /\ a >= seg.start /\ a < seg.end /\ k = a + 1
    BY <1>0, <1>8, <2>2 DEF UserPages
  <2>4. g[k] = SegmentRound(h, seg, a)
    <3>1. k \in 0 .. NV /\ ~ (k <= seg.start)
      BY <1>0, <1>8
    <3> QED BY <1>6, <2>1, <2>2, <3>1
  <2>5. /\ LoadInv(h, m0, R) /\ h.mm = b.mm
        /\ Alive(h) => Alive(b) /\ FilledUpTo(NewCells(b), NewCells(h), seg.start, a, w)
    BY <1>8, <2>1, <2>2
  <2>6. PICK o : o = HasPage(h, a, w, FileData)
    OBVIOUS
  <2>7. /\ LoadInv(o, m0, R) /\ o.mm = h.mm
        /\ Alive(o) => Alive(h) /\ NewCells(o) = [NewCells(h) EXCEPT ![a] = <<w, FileData>>]
    <3>1. Alive(h) => InList(h.mm.areas, area)
      BY <1>5, <2>5
    <3>2. Covers(area, a)
      BY <1>2, <2>3 DEF Covers
    <3>3. MayWriteIs(area, w)
      BY <1>2, <1>3 DEF MayWriteIs
    <3>4. Alive(h) => NewCells(h)[a] = <<>>
      <4>1. a \notin seg.start .. a - 1
        BY <2>3
      <4>2. NewCells(b) = NewCells(s)
        BY <1>5 DEF NewCells
      <4>3. a \in seg.start .. seg.end - 1
        BY <1>0, <2>3
      <4> SUFFICES ASSUME Alive(h) PROVE NewCells(h)[a] = <<>>
        OBVIOUS
      <4>4. Alive(b) /\ FilledUpTo(NewCells(b), NewCells(h), seg.start, a, w)
        BY <2>5
      <4>5. NewCells(h)[a] = NewCells(b)[a]
        BY <2>3, <4>1, <4>4 DEF FilledUpTo
      <4>6. NewCells(s)[a] = <<>>
        BY <1>5, <4>3, <4>4
      <4> QED BY <4>2, <4>5, <4>6
    <3> QED BY <1>0, <2>3, <2>5, <2>6, <3>1, <3>2, <3>3, <3>4, HasPageKeeps
  <2>8. g[k] = o \/ g[k] = HasRead(o)
    BY <1>3, <2>4, <2>6 DEF SegmentRound, MayWriteIs
  <2>9. LoadInv(g[k], m0, R) /\ g[k].m = o.m /\ g[k].mm = o.mm /\ (Alive(g[k]) => Alive(o))
    BY <2>7, <2>8, HasReadKeeps
  <2>10. ASSUME Alive(g[k])
         PROVE  FilledUpTo(NewCells(b), NewCells(g[k]), seg.start, k, w)
    <3>1. NewCells(g[k]) = [NewCells(h) EXCEPT ![a] = <<w, FileData>>]
      BY <2>7, <2>9, <2>10 DEF NewCells
    <3>2. FilledUpTo(NewCells(b), NewCells(h), seg.start, a, w)
      BY <2>5, <2>7, <2>9, <2>10
    <3>3. \A x : x \in seg.start .. k - 1 <=> x \in seg.start .. a - 1 \/ x = a
      BY <1>0, <2>3
    <3>4. DOMAIN NewCells(h) = UserPages
      BY DEF NewCells, Cells
    <3> QED BY <2>3, <3>1, <3>2, <3>3, <3>4 DEF FilledUpTo
  <2> QED BY <2>5, <2>7, <2>9, <2>10
<1>9. seg.end \in P
  <2>1. 0 \in P
    <3>1. 0 \in 0 .. seg.end /\ 0 <= seg.start
      BY <1>0
    <3> HIDE DEF Fine
    <3> QED BY <1>7, <3>1
  <2>2. ASSUME NEW k \in 1 .. seg.end, k - 1 \in P PROVE k \in P
    <3>1. k \in 0 .. seg.end /\ (k <= seg.start \/ k > seg.start)
      BY <1>0
    <3> HIDE DEF Fine
    <3> QED BY <1>7, <1>8, <2>2, <3>1
  <2> HIDE DEF P
  <2>3. seg.end \in Nat
    BY <1>0
  <2>4. \A k \in 0 .. seg.end : k \in P
    BY <2>1, <2>2, <2>3, EveryRound
  <2> QED BY <2>3, <2>4
<1>10. NewCells(b) = NewCells(s)
  BY <1>5 DEF NewCells
<1> QED BY <1>3, <1>5, <1>6, <1>9, <1>10 DEF MayWriteIs

\* A page is there and holds what the file has.
FromFile(c) == c # <<>> /\ c[2] = FileData

\* The pages of the first k segments are there.
HasPages(s, prog, k) ==
  \A j \in 1 .. k : \A a \in prog[j].start .. prog[j].end - 1 : FromFile(NewCells(s)[a])

\* Pages that are added where nothing was are not those of the file so far.
LEMMA FileStays ==
  ASSUME NEW s, NEW n, NEW prog, NEW k, HasPages(s, prog, k),
         \A a \in UserPages : NewCells(s)[a] # <<>> => NewCells(n)[a] = NewCells(s)[a],
         \A j \in 1 .. k : prog[j].start .. prog[j].end - 1 \subseteq UserPages
  PROVE  HasPages(n, prog, k)
BY DEF HasPages, FromFile

\* The segments of a program.
LEMMA ProgramIs ==
  ASSUME SpaceConstantsOK, NEW prog \in Programs
  PROVE  /\ Len(prog) \in Nat /\ DOMAIN prog = 1 .. Len(prog)
         /\ \A j \in 1 .. Len(prog) : /\ prog[j] \in Segments
                                     /\ prog[j].start .. prog[j].end - 1 \subseteq UserPages
<1>1. prog \in Seq(Segments) /\ NV \in Nat
  BY DEF SpaceConstantsOK
<1>2. \A seg \in Segments : seg.start \in 0 .. NV - 1 /\ seg.end \in 1 .. NV
  BY DEF Segments
<1>3. \A seg \in Segments : seg.start .. seg.end - 1 \subseteq UserPages
  BY <1>1, <1>2 DEF UserPages
<1>4. /\ Len(prog) \in Nat /\ DOMAIN prog = 1 .. Len(prog)
      /\ \A j \in 1 .. Len(prog) : prog[j] \in Segments
  BY <1>1
<1> QED BY <1>3, <1>4

\* All segments are mapped and filled.
LEMMA FileKeeps ==
  ASSUME SpaceConstantsOK, NEW m0, NEW R, NEW s, LoadInv(s, m0, R), NEW prog \in Programs,
         NEW n, n = HasFile(s, prog)
  PROVE  /\ LoadInv(n, m0, R) /\ n.mm.root = s.mm.root
         /\ Alive(n) => Alive(s) /\ HasPages(n, prog, Len(prog))
<1>0. /\ Len(prog) \in Nat
      /\ \A j \in 1 .. Len(prog) : /\ prog[j] \in Segments
                                  /\ prog[j].start .. prog[j].end - 1 \subseteq UserPages
  BY ProgramIs
<1>1. PICK g : /\ n = g[Len(prog)]
               /\ \A k \in 0 .. Len(prog) :
                    g[k] = IF k = 0 THEN s ELSE HasSegment(g[k - 1], prog[k])
  <2>1. \E g : HasFile(s, prog) = g[Len(prog)] /\ FileWalk(g, s, prog)
    BY <1>0, FileRounds
  <2> QED BY <2>1 DEF FileWalk
<1> DEFINE Fine(k) == /\ LoadInv(g[k], m0, R) /\ g[k].mm.root = s.mm.root
                      /\ Alive(g[k]) => Alive(s) /\ HasPages(g[k], prog, k)
           P == {k \in 0 .. Len(prog) : Fine(k)}
<1>2. Fine(0)
  <2>1. g[0] = s
    BY <1>0, <1>1
  <2>2. \A j : ~ (j \in 1 .. 0)
    OBVIOUS
  <2> QED BY <2>1, <2>2 DEF HasPages
<1>3. ASSUME NEW k \in 1 .. Len(prog), Fine(k - 1) PROVE Fine(k)
  <2>1. PICK h : h = g[k - 1]
    OBVIOUS
  <2>2. PICK seg \in Segments : seg = prog[k]
    BY <1>0
  <2>3. PICK o : o = g[k]
    OBVIOUS
  <2>4. o = HasSegment(h, seg)
    <3>1. k \in 0 .. Len(prog) /\ k # 0
      BY <1>0
    <3> QED BY <1>1, <2>1, <2>2, <2>3, <3>1
  <2>5. /\ LoadInv(h, m0, R) /\ h.mm.root = s.mm.root
        /\ Alive(h) => Alive(s) /\ HasPages(h, prog, k - 1)
    BY <1>3, <2>1
  <2>6. PICK w : w = ("VM_WRITE" \in seg.flags)
    OBVIOUS
  <2>7. /\ LoadInv(o, m0, R) /\ o.mm.root = h.mm.root
        /\ Alive(o) => /\ Alive(h)
                       /\ \A a \in seg.start .. seg.end - 1 : NewCells(h)[a] = <<>>
                       /\ FilledUpTo(NewCells(h), NewCells(o), seg.start, seg.end, w)
    BY <2>4, <2>5, <2>6, SegmentKeeps
  <2>8. ASSUME Alive(o)
        PROVE  HasPages(o, prog, k)
    <3>1. \A a \in UserPages : NewCells(h)[a] # <<>> => NewCells(o)[a] = NewCells(h)[a]
      BY <2>7, <2>8 DEF FilledUpTo
    <3>2. \A j \in 1 .. k - 1 : prog[j].start .. prog[j].end - 1 \subseteq UserPages
      BY <1>0
    <3>3. HasPages(o, prog, k - 1)
      BY <2>5, <2>7, <2>8, <3>1, <3>2, FileStays
    <3>4. \A a \in seg.start .. seg.end - 1 : FromFile(NewCells(o)[a])
      <4> SUFFICES ASSUME NEW a \in seg.start .. seg.end - 1 PROVE FromFile(NewCells(o)[a])
        OBVIOUS
      <4>1. a \in UserPages
        BY <1>0, <2>2
      <4>2. NewCells(o)[a] = <<w, FileData>>
        BY <2>7, <2>8, <4>1 DEF FilledUpTo
      <4> QED BY <4>2 DEF FromFile
    <3>5. \A j \in 1 .. k : j = k \/ j \in 1 .. k - 1
      OBVIOUS
    <3> QED BY <2>2, <3>3, <3>4, <3>5 DEF HasPages
  <2> QED BY <2>3, <2>5, <2>7, <2>8
<1>4. Len(prog) \in P
  <2>1. 0 \in P
    <3> HIDE DEF Fine
    <3> QED BY <1>0, <1>2
  <2>2. ASSUME NEW k \in 1 .. Len(prog), k - 1 \in P PROVE k \in P
    <3>1. k \in 0 .. Len(prog)
      BY <1>0
    <3> HIDE DEF Fine
    <3> QED BY <1>3, <2>2, <3>1
  <2> HIDE DEF P
  <2>3. \A k \in 0 .. Len(prog) : k \in P
    BY <1>0, <2>1, <2>2, EveryRound
  <2> QED BY <1>0, <2>3
<1> QED BY <1>1, <1>4

\* d is as c below lo, and wherever c has a page.
Spared(c, d, lo) ==
  \A a \in UserPages : (a < lo \/ c[a] # <<>>) => d[a] = c[a]

\* The stack.
LEMMA StackIs ==
  ASSUME SpaceConstantsOK
  PROVE  /\ StackArea \in Areas /\ StackArea.start = NV - StackPages /\ StackArea.end = NV
         /\ MayWriteIs(StackArea, TRUE)
         /\ NV \in Nat /\ StackPages \in 1 .. NV /\ StackThere \in 1 .. StackPages
<1>1. NV \in Nat /\ StackPages \in 1 .. NV /\ StackThere \in 1 .. StackPages
  <2>1. Span * Span * Span \in Nat
    <3>1. Span \in Nat /\ Span * Span \in Nat
      BY DEF SpaceConstantsOK
    <3> QED BY <3>1
  <2> QED BY <2>1 DEF SpaceConstantsOK
<1>2. NV - StackPages \in 0 .. NV - 1 /\ NV \in 1 .. NV
  BY <1>1
<1>3. {"VM_READ", "VM_WRITE", "VM_STACK"} \in SUBSET Flags
  BY DEF Flags
<1>4. StackArea \in Areas
  BY <1>2, <1>3 DEF StackArea, Areas
<1>5. MayWriteIs(StackArea, TRUE)
  BY DEF MayWriteIs, StackArea
<1>6. StackArea.start = NV - StackPages /\ StackArea.end = NV
  BY DEF StackArea
<1> QED BY <1>1, <1>4, <1>5, <1>6

\* The stack is mapped, and some of its pages are there, where nothing was.
LEMMA StackKeeps ==
  ASSUME SpaceConstantsOK, NEW m0, NEW R, NEW s, LoadInv(s, m0, R),
         NEW v, v \in [1 .. StackThere -> Values], NEW n, n = HasStack(s, v)
  PROVE  /\ LoadInv(n, m0, R) /\ n.mm.root = s.mm.root
         /\ Alive(n) => Alive(s) /\ Spared(NewCells(s), NewCells(n), 0)
<1>0. /\ NV \in Nat /\ StackPages \in 1 .. NV /\ StackThere \in 1 .. StackPages
      /\ StackArea \in Areas /\ StackArea.start = NV - StackPages /\ StackArea.end = NV
      /\ MayWriteIs(StackArea, TRUE)
  BY StackIs
<1>1. PICK b : b = HasMapped(s, StackArea)
  OBVIOUS
<1>2. /\ LoadInv(b, m0, R) /\ b.m = s.m /\ b.mm.root = s.mm.root
      /\ Alive(b) => /\ Alive(s) /\ InList(b.mm.areas, StackArea)
                     /\ \A a \in StackArea.start .. StackArea.end - 1 : NewCells(s)[a] = <<>>
  BY <1>0, <1>1, HasMappedKeeps
<1>3. NewCells(b) = NewCells(s)
  BY <1>2 DEF NewCells
<1>4. PICK g : /\ n = g[StackThere]
               /\ \A k \in 0 .. StackThere : g[k] = IF k = 0 THEN b ELSE StackRound(g[k - 1], k, v)
  <2>1. StackThere \in Nat
    BY <1>0
  <2>2. \E g : HasStack(s, v) = g[StackThere] /\ StackWalk(g, s, v)
    BY <2>1, StackRounds
  <2> QED BY <1>1, <2>2 DEF StackWalk, StackBegun
<1> DEFINE Fine(k) == /\ LoadInv(g[k], m0, R) /\ g[k].mm = b.mm
                      /\ Alive(g[k]) => Alive(b) /\ Spared(NewCells(b), NewCells(g[k]), NV - k)
           P == {k \in 0 .. StackThere : Fine(k)}
<1>5. Fine(0)
  <2>1. g[0] = b
    BY <1>0, <1>4
  <2> QED BY <1>2, <2>1 DEF Spared
<1>6. ASSUME NEW k \in 1 .. StackThere, Fine(k - 1) PROVE Fine(k)
  <2>1. PICK h : h = g[k - 1]
    OBVIOUS
  <2>2. PICK a : a = NV - k
    OBVIOUS
  <2>3. /\ a \in UserPages /\ a \in StackArea.start .. StackArea.end - 1 /\ a \in Int
        /\ a < NV - (k - 1) /\ \A x \in Int : x < a => x < NV - (k - 1) /\ x # a
    BY <1>0, <2>2 DEF UserPages
  <2>w. PICK w \in BOOLEAN : w = TRUE
    OBVIOUS
  <2>u. PICK u \in Values : u = v[k]
    OBVIOUS
  <2>4. PICK o : o = HasPage(h, a, w, u)
    OBVIOUS
  <2>5. g[k] = o
    <3>1. k \in 0 .. StackThere /\ k # 0
      BY <1>0
    <3> QED BY <1>4, <2>1, <2>2, <2>4, <2>w, <2>u, <3>1 DEF StackRound
  <2>6. /\ LoadInv(h, m0, R) /\ h.mm = b.mm
        /\ Alive(h) => Alive(b) /\ Spared(NewCells(b), NewCells(h), NV - (k - 1))
    BY <1>6, <2>1
  <2>7. Alive(h) => NewCells(h)[a] = <<>>
    <3> SUFFICES ASSUME Alive(h) PROVE NewCells(h)[a] = <<>>
      OBVIOUS
    <3>1. NewCells(h)[a] = NewCells(b)[a]
      BY <2>3, <2>6 DEF Spared
    <3>2. NewCells(s)[a] = <<>>
      BY <1>2, <2>3, <2>6
    <3> QED BY <1>3, <3>1, <3>2
  <2>8. Alive(h) => InList(h.mm.areas, StackArea)
    BY <1>2, <2>6
  <2>9. Covers(StackArea, a) /\ MayWriteIs(StackArea, w)
    <3>1. Covers(StackArea, a)
      BY <1>0, <2>3 DEF Covers
    <3>2. MayWriteIs(StackArea, w)
      BY <1>0, <2>w
    <3> QED BY <3>1, <3>2
  <2>10. /\ LoadInv(o, m0, R) /\ o.mm = h.mm
         /\ Alive(o) => Alive(h) /\ NewCells(o) = [NewCells(h) EXCEPT ![a] = <<w, u>>]
    BY <2>3, <2>4, <2>6, <2>7, <2>8, <2>9, HasPageKeeps
  <2>11. ASSUME Alive(o)
         PROVE  Spared(NewCells(b), NewCells(o), NV - k)
    <3>1. DOMAIN NewCells(h) = UserPages /\ \A x \in UserPages : x \in Int
      BY <1>0 DEF NewCells, Cells, UserPages
    <3>2. Spared(NewCells(b), NewCells(h), NV - (k - 1)) /\ NewCells(h)[a] = <<>>
      BY <2>6, <2>7, <2>10, <2>11
    <3>3. \A x \in UserPages : x # a => NewCells(o)[x] = NewCells(h)[x]
      BY <2>10, <2>11, <3>1
    <3>4. NewCells(b)[a] = <<>>
      BY <2>3, <3>2 DEF Spared
    <3>5. ASSUME NEW x \in UserPages, x < NV - k \/ NewCells(b)[x] # <<>>
          PROVE  NewCells(o)[x] = NewCells(b)[x]
      <4>1. x # a
        BY <2>2, <2>3, <3>1, <3>4, <3>5
      <4>2. x < NV - (k - 1) \/ NewCells(b)[x] # <<>>
        BY <2>2, <2>3, <3>1, <3>5
      <4> QED BY <3>2, <3>3, <4>1, <4>2 DEF Spared
    <3> QED BY <3>5 DEF Spared
  <2> QED BY <2>5, <2>6, <2>10, <2>11
<1>7. StackThere \in P
  <2>1. 0 \in P
    <3> HIDE DEF Fine
    <3> QED BY <1>0, <1>5
  <2>2. ASSUME NEW k \in 1 .. StackThere, k - 1 \in P PROVE k \in P
    <3>1. k \in 0 .. StackThere
      BY <1>0
    <3> HIDE DEF Fine
    <3> QED BY <1>6, <2>2, <3>1
  <2> HIDE DEF P
  <2>3. StackThere \in Nat
    BY <1>0
  <2>4. \A k \in 0 .. StackThere : k \in P
    BY <2>1, <2>2, <2>3, EveryRound
  <2> QED BY <2>3, <2>4
<1>8. Spared(NewCells(b), NewCells(n), NV - StackThere) => Spared(NewCells(s), NewCells(n), 0)
  <2>1. \A a \in UserPages : ~ (a < 0)
    BY <1>0 DEF UserPages
  <2> QED BY <1>3, <2>1 DEF Spared
<1> QED BY <1>2, <1>4, <1>7, <1>8

\* An address space that nothing is in yet.
LEMMA BeginsSane ==
  ASSUME SpaceConstantsOK, NEW m, NEW R, Good(m, R), NEW reads, NEW n, n = Loading(m, reads)
  PROVE  LoadInv(n, m, R)
<1>1. PICK k : k = Taken(m, 0)
  OBVIOUS
<1>2. PICK r : r = Lowest(m)
  OBVIOUS
<1>3. /\ LoadState(n) /\ n.m = k /\ n.mm.root = r /\ n.mm.areas = <<>> /\ n.goes = "on"
  BY <1>1, <1>2 DEF Loading, LoadState, NoMm
<1>4. Gone(k) \/ Fresh(m, k, R, r)
  BY <1>1, <1>2, TakenGood
<1>5. CASE Fresh(m, k, R, r)
  <2>1. Sorted(<<>>)
    BY DEF Sorted
  <2>2. \A a \in UserPages : Cell(k, r, a) = <<>>
    <3>1. Cells(k, r) = NoCells
      BY <1>5 DEF Fresh
    <3> QED BY <3>1 DEF Cells, NoCells
  <2>3. GoesWith(k, r, <<>>)
    BY <1>5, <2>1, <2>2 DEF GoesWith, Fits, TopsIn, Fresh
  <2>4. Sane(n, m, R)
    BY <1>3, <1>5, <2>3 DEF Sane, Fresh, AllKept
  <2> QED BY <1>3, <2>4 DEF LoadInv
<1> QED BY <1>3, <1>4, <1>5 DEF LoadInv

\* load_icode() builds an address space that holds the file, or it says that it failed,
\* and there is one to clean up.
LEMMA LoadedGood ==
  ASSUME SpaceConstantsOK, NEW m, NEW R, Good(m, R), NEW prog \in Programs, NEW reads,
         NEW v, v \in [1 .. StackThere -> Values], NEW n, n = Loaded(m, prog, reads, v)
  PROVE  LoadInv(n, m, R) /\ (Alive(n) => HasPages(n, prog, Len(prog)))
<1>1. PICK s : s = Loading(m, reads)
  OBVIOUS
<1>2. LoadInv(s, m, R)
  BY <1>1, BeginsSane
<1>3. PICK t : t = HasRead(s)
  OBVIOUS
<1>4. LoadInv(t, m, R)
  BY <1>2, <1>3, HasReadKeeps
<1>5. PICK f : f = HasFile(t, prog)
  OBVIOUS
<1>6. LoadInv(f, m, R) /\ (Alive(f) => HasPages(f, prog, Len(prog)))
  BY <1>4, <1>5, FileKeeps
<1>7. n = HasStack(f, v)
  BY <1>1, <1>3, <1>5 DEF Loaded
<1>8. LoadInv(n, m, R) /\ (Alive(n) => Alive(f) /\ Spared(NewCells(f), NewCells(n), 0))
  BY <1>6, <1>7, StackKeeps
<1>9. ASSUME Alive(n) PROVE HasPages(n, prog, Len(prog))
  <2>1. HasPages(f, prog, Len(prog))
    BY <1>6, <1>8, <1>9
  <2>2. \A a \in UserPages : NewCells(f)[a] # <<>> => NewCells(n)[a] = NewCells(f)[a]
    BY <1>8, <1>9 DEF Spared
  <2>3. \A j \in 1 .. Len(prog) : prog[j].start .. prog[j].end - 1 \subseteq UserPages
    BY ProgramIs
  <2> QED BY <2>1, <2>2, <2>3, FileStays
<1> QED BY <1>8, <1>9

-----------------------------------------------------------------------------
(* copy_range() and dup_mmap() *)

\* The round of copy_range() for the page a.
CopyRound(m, to, from, there, a) == IF a \in there THEN CopiedPage(m, to, from, a) ELSE m

\* What the rounds go through.
CopyWalk(g, m, to, from, lo, there) ==
  \A k \in 0 .. NV :
    g[k] = IF k <= lo THEN m ELSE CopyRound(g[k - 1], to, from, there, k - 1)

\* copy_range() goes from page to page.
LEMMA CopyRounds ==
  ASSUME NV \in Nat, NEW m, NEW to, NEW from, NEW lo \in Nat, NEW hi \in 0 .. NV
  PROVE  \E g : /\ CopiedRange(m, to, from, lo, hi) = g[hi]
                /\ CopyWalk(g, m, to, from, lo, Visited(m, from, lo, hi))
<1> DEFINE Body(h, k) == IF k <= lo THEN m
                         ELSE CopyRound(h[k - 1], to, from, Visited(m, from, lo, hi), k - 1)
           at == CHOOSE h : h = [k \in 0 .. NV |-> Body(h, k)]
           P == {j \in 0 .. NV : \E h : h = [k \in 0 .. j |-> Body(h, k)]}
<1>1. 0 \in P
  <2>1. PICK h : h = [k \in 0 .. 0 |-> m]
    OBVIOUS
  <2>2. \A k \in 0 .. 0 : Body(h, k) = m
    OBVIOUS
  <2>3. h = [k \in 0 .. 0 |-> Body(h, k)]
    <3> HIDE DEF Body
    <3> QED BY <2>1, <2>2
  <2> QED BY <2>3
<1>2. ASSUME NEW j \in 1 .. NV, j - 1 \in P
      PROVE  j \in P
  <2>1. PICK h : h = [k \in 0 .. j - 1 |-> Body(h, k)]
    BY <1>2
  <2>2. PICK n : n = [k \in 0 .. j |-> Body(h, k)]
    OBVIOUS
  <2>3. \A k \in 0 .. j - 1 : n[k] = h[k]
    <3> HIDE DEF Body
    <3>1. \A k \in 0 .. j - 1 : n[k] = Body(h, k) /\ h[k] = Body(h, k)
      BY <2>1, <2>2
    <3> QED BY <3>1
  <2>4. \A k \in 0 .. j : Body(n, k) = Body(h, k)
    <3>1. \A k \in 0 .. j : ~ (k <= lo) => k - 1 \in 0 .. j - 1
      OBVIOUS
    <3> QED BY <2>3, <3>1
  <2>5. n = [k \in 0 .. j |-> Body(n, k)]
    <3> HIDE DEF Body
    <3> QED BY <2>2, <2>4
  <2> QED BY <2>5
<1>3. NV \in P
  <2> HIDE DEF P
  <2>1. \A j \in 0 .. NV : j \in P
    BY <1>1, <1>2, EveryRound
  <2> QED BY <2>1
<1>4. at = [k \in 0 .. NV |-> Body(at, k)]
  <2>1. \E h : h = [k \in 0 .. NV |-> Body(h, k)]
    BY <1>3
  <2> HIDE DEF Body
  <2> QED BY <2>1, Zenon
<1>5. CopiedRange(m, to, from, lo, hi) = at[hi]
  BY Zenon DEF CopiedRange, CopyRound
<1>6. \A k \in 0 .. NV : at[k] = Body(at, k)
  <2> HIDE DEF Body, at
  <2> QED BY <1>4
<1>7. CopyWalk(at, m, to, from, lo, Visited(m, from, lo, hi))
  BY <1>6 DEF CopyWalk
<1> HIDE DEF at
<1> QED BY <1>5, <1>7

\* copy_range() that asks for frames in vain, or has done so already.
LEMMA GoneCopied ==
  ASSUME NV \in Nat, NEW m, Gone(m), NEW to, NEW from, NEW lo \in Nat, NEW hi \in 0 .. NV
  PROVE  Gone(CopiedRange(m, to, from, lo, hi))
<1>1. PICK there : there = Visited(m, from, lo, hi)
  OBVIOUS
<1>2. PICK g : /\ CopiedRange(m, to, from, lo, hi) = g[hi]
               /\ \A k \in 0 .. NV : g[k] = IF k <= lo THEN m
                                          ELSE CopyRound(g[k - 1], to, from, there, k - 1)
  <2>1. \E g : /\ CopiedRange(m, to, from, lo, hi) = g[hi]
               /\ CopyWalk(g, m, to, from, lo, Visited(m, from, lo, hi))
    BY CopyRounds
  <2> QED BY <1>1, <2>1 DEF CopyWalk
<1> DEFINE P == {k \in 0 .. hi : Gone(g[k])}
<1>3. ASSUME NEW k \in 0 .. hi, k <= lo PROVE Gone(g[k])
  BY <1>2, <1>3
<1>4. ASSUME NEW k \in 1 .. hi, Gone(g[k - 1]), k > lo PROVE Gone(g[k])
  <2>1. k \in 0 .. NV /\ ~ (k <= lo)
    BY <1>4
  <2>2. g[k] = g[k - 1] \/ \E a : g[k] = CopiedPage(g[k - 1], to, from, a)
    BY <1>2, <2>1 DEF CopyRound
  <2> QED BY <1>4, <2>2, GoneInserted
<1>5. hi \in P
  <2>1. 0 \in P
    <3>1. 0 \in 0 .. hi /\ 0 <= lo
      OBVIOUS
    <3> QED BY <1>3, <3>1
  <2>2. ASSUME NEW k \in 1 .. hi, k - 1 \in P PROVE k \in P
    <3>1. k \in 0 .. hi /\ (k <= lo \/ k > lo)
      OBVIOUS
    <3> QED BY <1>3, <1>4, <2>2, <3>1
  <2> HIDE DEF P
  <2>3. hi \in Nat
    OBVIOUS
  <2>4. \A k \in 0 .. hi : k \in P
    BY <2>1, <2>2, <2>3, EveryRound
  <2> QED BY <2>3, <2>4
<1> QED BY <1>2, <1>5

\* The directory to gets, for the pages of lo .. hi - 1, what from has.
Copies(m, n, to, from, lo, hi) ==
  /\ Tops(n, to) \subseteq Tops(m, to) \cup (Pdx1(lo) .. Pdx1(hi - 1))
  /\ \A a \in UserPages :
       Cell(n, to, a) = IF a \in lo .. hi - 1 THEN Cell(m, from, a) ELSE Cell(m, to, a)

\* copy_range() is exact.
LEMMA CopiedRangeGood ==
  ASSUME SpaceConstantsOK, NEW m, NEW R, Good(m, R), NEW to \in R, NEW from \in R, to # from,
         NEW lo \in Nat, NEW hi \in 0 .. NV, lo < hi,
         \A a \in lo .. hi - 1 : Cell(m, to, a) = <<>>,
         NEW n, n = CopiedRange(m, to, from, lo, hi)
  PROVE  \/ Gone(n)
         \/ Good(n, R) /\ Copies(m, n, to, from, lo, hi) /\ AllKept(m, n, R \ {to})
<1>0. NV \in Nat
  BY DEF SpaceConstantsOK
<1>1. PICK there : there = HaveTable(m, from, lo, hi)
  OBVIOUS
<1>2. Visited(m, from, lo, hi) = there
  BY <1>1, VisitedIs
<1>3. PICK g : /\ n = g[hi]
               /\ \A k \in 0 .. NV : g[k] = IF k <= lo THEN m
                                          ELSE CopyRound(g[k - 1], to, from, there, k - 1)
  <2>1. \E g : /\ CopiedRange(m, to, from, lo, hi) = g[hi]
               /\ CopyWalk(g, m, to, from, lo, Visited(m, from, lo, hi))
    BY <1>0, CopyRounds
  <2> QED BY <1>2, <2>1 DEF CopyWalk
<1> DEFINE Part(k) == /\ Tops(g[k], to) \subseteq Tops(m, to) \cup (Pdx1(lo) .. Pdx1(hi - 1))
                      /\ \A a \in UserPages : Cell(g[k], to, a)
                           = IF a \in lo .. k - 1 THEN Cell(m, from, a) ELSE Cell(m, to, a)
           Fine(k) == Gone(g[k]) \/ (Good(g[k], R) /\ Part(k) /\ AllKept(m, g[k], R \ {to}))
           P == {k \in 0 .. hi : Fine(k)}
<1>4. ASSUME NEW k \in 0 .. hi, k <= lo PROVE Fine(k)
  <2>1. g[k] = m
    BY <1>0, <1>3, <1>4
  <2>2. \A a : ~ (a \in lo .. k - 1)
    BY <1>4
  <2> QED BY <2>1, <2>2 DEF AllKept, Kept
<1>5. ASSUME NEW k \in 1 .. hi, Fine(k - 1), k > lo PROVE Fine(k)
  <2>1. PICK h : h = g[k - 1]
    OBVIOUS
  <2>2. PICK a : a = k - 1
    OBVIOUS
  <2>3. a \in UserPages /\ a \in Nat /\ a >= lo /\ a < hi /\ k = a + 1 /\ a \in lo .. hi - 1
    BY <1>0, <1>5, <2>2 DEF UserPages
  <2>4. g[k] = CopyRound(h, to, from, there, a)
    <3>1. k \in 0 .. NV /\ ~ (k <= lo)
      BY <1>0, <1>5
    <3> QED BY <1>3, <2>1, <2>2, <3>1
  <2>5. CASE Gone(h)
    <3>1. g[k] = h \/ g[k] = CopiedPage(h, to, from, a)
      BY <2>4 DEF CopyRound
    <3> QED BY <2>5, <3>1, GoneInserted
  <2>6. CASE ~ Gone(h)
    <3>1. Good(h, R) /\ Part(k - 1) /\ AllKept(m, h, R \ {to})
      BY <1>5, <2>1, <2>6
    <3>2. /\ Tops(h, to) \subseteq Tops(m, to) \cup (Pdx1(lo) .. Pdx1(hi - 1))
          /\ \A b \in UserPages : Cell(h, to, b)
               = IF b \in lo .. a - 1 THEN Cell(m, from, b) ELSE Cell(m, to, b)
      BY <2>1, <2>2, <3>1
    <3>3. Cells(h, from) = Cells(m, from)
      BY <3>1 DEF AllKept, Kept
    <3>4. Cell(h, from, a) = Cell(m, from, a)
      BY <2>3, <3>3 DEF Cells
    <3>5. Cell(h, to, a) = <<>>
      <4>1. a \notin lo .. a - 1
        BY <2>3
      <4> QED BY <2>3, <3>2, <4>1
    <3>6. \A b : b \in lo .. k - 1 <=> b \in lo .. a - 1 \/ b = a
      BY <2>3
    <3>7. CASE a \in there
      <4>1. PICK o : o = g[k]
        OBVIOUS
      <4>2. o = CopiedPage(h, to, from, a)
        BY <2>4, <3>7, <4>1 DEF CopyRound
      <4>3. \/ Gone(o)
            \/ /\ Good(o, R) /\ Gets(h, o, to, a, Cell(h, from, a))
               /\ \A x \in R \ {to} : Kept(h, o, x)
        BY <2>3, <3>1, <3>5, <4>2, CopiedGood
      <4>4. ASSUME ~ Gone(o) PROVE Part(k) /\ AllKept(m, o, R \ {to})
        <5>1. Gets(h, o, to, a, Cell(m, from, a)) /\ \A x \in R \ {to} : Kept(h, o, x)
          BY <3>4, <4>3, <4>4
        <5>2. Pdx1(a) \in Pdx1(lo) .. Pdx1(hi - 1)
          <6>1. hi - 1 \in Nat /\ hi - 1 \in UserPages /\ lo \in UserPages /\ a <= hi - 1
            BY <1>0, <2>3 DEF UserPages
          <6>2. Pdx1(lo) <= Pdx1(a) /\ Pdx1(a) <= Pdx1(hi - 1)
            BY <2>3, <6>1, IndexGrows
          <6>3. Pdx1(lo) \in Nat /\ Pdx1(a) \in Nat /\ Pdx1(hi - 1) \in Nat
            BY <2>3, <6>1, PageParts
          <6> QED BY <6>2, <6>3
        <5>3. Tops(o, to) \subseteq Tops(m, to) \cup (Pdx1(lo) .. Pdx1(hi - 1))
          BY <3>2, <5>1, <5>2 DEF Gets
        <5>4. \A b \in UserPages :
                Cell(o, to, b) = IF b = a THEN Cell(m, from, a) ELSE Cell(h, to, b)
          BY <2>3, <5>1 DEF Gets, Cells
        <5>5. ASSUME NEW b \in UserPages
              PROVE  Cell(o, to, b) = IF b \in lo .. k - 1 THEN Cell(m, from, b) ELSE Cell(m, to, b)
          BY <3>2, <3>6, <5>4
        <5>6. AllKept(m, o, R \ {to})
          BY <3>1, <5>1, KeptOn DEF AllKept
        <5> QED BY <4>1, <5>3, <5>5, <5>6
      <4> QED BY <4>1, <4>3, <4>4
    <3>8. CASE a \notin there
      <4>1. g[k] = h
        BY <2>4, <3>8 DEF CopyRound
      <4>2. Cell(m, from, a) = <<>>
        <5>1. Table(m, from, a) = 0
          BY <1>1, <2>3, <3>8 DEF HaveTable
        <5>2. Pte(m, from, a) = Clear
          BY <5>1 DEF Pte
        <5> QED BY <5>2, CellIs, FrameType
      <4>3. ASSUME NEW b \in UserPages
            PROVE  Cell(h, to, b) = IF b \in lo .. k - 1 THEN Cell(m, from, b) ELSE Cell(m, to, b)
        BY <3>2, <3>5, <3>6, <4>2
      <4> QED BY <3>1, <3>2, <4>1, <4>3
    <3> QED BY <3>7, <3>8
  <2> QED BY <2>5, <2>6
<1>6. hi \in P
  <2>1. 0 \in P
    <3>1. 0 \in 0 .. hi /\ 0 <= lo
      BY <1>0
    <3> HIDE DEF Fine
    <3> QED BY <1>4, <3>1
  <2>2. ASSUME NEW k \in 1 .. hi, k - 1 \in P PROVE k \in P
    <3>1. k \in 0 .. hi /\ (k <= lo \/ k > lo)
      BY <1>0
    <3> HIDE DEF Fine
    <3> QED BY <1>4, <1>5, <2>2, <3>1
  <2> HIDE DEF P
  <2>3. hi \in Nat
    BY <1>0
  <2>4. \A k \in 0 .. hi : k \in P
    BY <2>1, <2>2, <2>3, EveryRound
  <2> QED BY <2>3, <2>4
<1> QED BY <1>3, <1>6 DEF Copies

\* The areas from the last to the first, the round of dup_mmap() for one of them, and
\* what it begins with.
FromLast(l, k) == l[Len(l) + 1 - k]

DupRound(s, root, mm, area) ==
  [m |-> CopiedRange(s.m, root, mm.root, area.start, area.end), areas |-> InsertVma(s.areas, area)]

DupBegun(m) == [m |-> m, areas |-> <<>>]

\* What the rounds go through.
DupWalk(g, m, root, mm) ==
  \A k \in 0 .. Len(mm.areas) :
    g[k] = IF k = 0 THEN DupBegun(m) ELSE DupRound(g[k - 1], root, mm, FromLast(mm.areas, k))

\* dup_mmap() goes from area to area.
LEMMA DupRounds ==
  ASSUME NEW m, NEW root, NEW mm, Len(mm.areas) \in Nat
  PROVE  \E g : Duplicated(m, root, mm) = g[Len(mm.areas)] /\ DupWalk(g, m, root, mm)
<1> DEFINE Body(h, k) == IF k = 0 THEN DupBegun(m)
                         ELSE DupRound(h[k - 1], root, mm, FromLast(mm.areas, k))
           at == CHOOSE h : h = [k \in 0 .. Len(mm.areas) |-> Body(h, k)]
           P == {j \in 0 .. Len(mm.areas) : \E h : h = [k \in 0 .. j |-> Body(h, k)]}
<1>1. 0 \in P
  <2>1. PICK h : h = [k \in 0 .. 0 |-> DupBegun(m)]
    OBVIOUS
  <2>2. \A k \in 0 .. 0 : Body(h, k) = DupBegun(m)
    OBVIOUS
  <2>3. h = [k \in 0 .. 0 |-> Body(h, k)]
    <3> HIDE DEF Body
    <3> QED BY <2>1, <2>2
  <2> QED BY <2>3
<1>2. ASSUME NEW j \in 1 .. Len(mm.areas), j - 1 \in P
      PROVE  j \in P
  <2>1. PICK h : h = [k \in 0 .. j - 1 |-> Body(h, k)]
    BY <1>2
  <2>2. PICK n : n = [k \in 0 .. j |-> Body(h, k)]
    OBVIOUS
  <2>3. \A k \in 0 .. j - 1 : n[k] = h[k]
    <3> HIDE DEF Body
    <3>1. \A k \in 0 .. j - 1 : n[k] = Body(h, k) /\ h[k] = Body(h, k)
      BY <2>1, <2>2
    <3> QED BY <3>1
  <2>4. \A k \in 0 .. j : Body(n, k) = Body(h, k)
    <3>1. \A k \in 0 .. j : ~ (k = 0) => k - 1 \in 0 .. j - 1
      OBVIOUS
    <3> QED BY <2>3, <3>1
  <2>5. n = [k \in 0 .. j |-> Body(n, k)]
    <3> HIDE DEF Body
    <3> QED BY <2>2, <2>4
  <2> QED BY <2>5
<1>3. Len(mm.areas) \in P
  <2> HIDE DEF P
  <2>1. \A j \in 0 .. Len(mm.areas) : j \in P
    BY <1>1, <1>2, EveryRound
  <2> QED BY <2>1
<1>4. at = [k \in 0 .. Len(mm.areas) |-> Body(at, k)]
  <2>1. \E h : h = [k \in 0 .. Len(mm.areas) |-> Body(h, k)]
    BY <1>3
  <2> HIDE DEF Body
  <2> QED BY <2>1, Zenon
<1>5. Duplicated(m, root, mm) = at[Len(mm.areas)]
  BY Zenon DEF Duplicated, DupRound, DupBegun, FromLast
<1>6. \A k \in 0 .. Len(mm.areas) : at[k] = Body(at, k)
  <2> HIDE DEF Body, at
  <2> QED BY <1>4
<1>7. DupWalk(at, m, root, mm)
  BY <1>6 DEF DupWalk
<1> HIDE DEF at
<1> QED BY <1>5, <1>7

\* dup_mmap() gives the child the list of the parent and its own copy of each page, or
\* there was a frame too few.
LEMMA DuplicatedGood ==
  ASSUME SpaceConstantsOK, NEW m, NEW R, Good(m, R), NEW to \in R, NEW mm, mm.root \in R,
         to # mm.root, Tops(m, to) = {}, Cells(m, to) = NoCells, GoesWith(m, mm.root, mm.areas),
         NEW n, n = Duplicated(m, to, mm)
  PROVE  \/ Gone(n.m)
         \/ /\ Good(n.m, R) /\ AllKept(m, n.m, R \ {to}) /\ n.areas = mm.areas
            /\ Cells(n.m, to) = Cells(m, mm.root) /\ GoesWith(n.m, to, mm.areas)
<1>0. PICK l : l = mm.areas
  OBVIOUS
<1>1. PICK from \in R : from = mm.root
  OBVIOUS
<1>2. /\ Sorted(l) /\ Fits(m, from, l) /\ l \in Seq(Areas) /\ DOMAIN l = 1 .. Len(l)
      /\ Len(l) \in Nat /\ NV \in Nat
  BY <1>0, <1>1 DEF GoesWith, Sorted, SpaceConstantsOK
<1>3. PICK g : /\ n = g[Len(l)]
               /\ \A k \in 0 .. Len(l) : g[k] = IF k = 0 THEN DupBegun(m)
                    ELSE DupRound(g[k - 1], to, mm, FromLast(l, k))
  <2>1. \E g : Duplicated(m, to, mm) = g[Len(mm.areas)] /\ DupWalk(g, m, to, mm)
    BY <1>0, <1>2, DupRounds
  <2> QED BY <1>0, <2>1 DEF DupWalk
<1> DEFINE Behinds(k, a) == \E j \in DOMAIN l : j > Len(l) - k /\ Covers(l[j], a)
           Part(k) == /\ TopsIn(g[k].m, to, l)
                      /\ \A a \in UserPages : Cell(g[k].m, to, a)
                           = IF Behinds(k, a) THEN Cell(m, from, a) ELSE <<>>
           Fine(k) == /\ Behind(l, k, g[k].areas)
                      /\ \/ Gone(g[k].m)
                         \/ Good(g[k].m, R) /\ Part(k) /\ AllKept(m, g[k].m, R \ {to})
           P == {k \in 0 .. Len(l) : Fine(k)}
<1>4. Fine(0)
  <2>1. g[0].m = m /\ g[0].areas = <<>>
    BY <1>2, <1>3 DEF DupBegun
  <2>2. Behind(l, 0, <<>>)
    BY DEF Behind
  <2>3. \A a \in UserPages : ~ Behinds(0, a)
    BY <1>2
  <2>4. \A a \in UserPages : Cell(m, to, a) = <<>>
    BY DEF Cells, NoCells
  <2> HIDE DEF Behinds
  <2> QED BY <2>1, <2>2, <2>3, <2>4 DEF AllKept, Kept, TopsIn
<1>5. ASSUME NEW k \in 1 .. Len(l), Fine(k - 1) PROVE Fine(k)
  <2>1. PICK h : h = g[k - 1]
    OBVIOUS
  <2>2. PICK j \in DOMAIN l : j = Len(l) + 1 - k
    BY <1>2
  <2>3. PICK area : area = l[j]
    OBVIOUS
  <2>4. /\ area.start \in Nat /\ area.end \in 0 .. NV /\ area.start < area.end
    BY <1>2, <2>3, AreaIs
  <2>5. g[k] = DupRound(h, to, mm, area)
    <3>1. k \in 0 .. Len(l) /\ k # 0
      BY <1>2
    <3> QED BY <1>3, <2>1, <2>2, <2>3, <3>1 DEF FromLast
  <2>6. PICK x : x = CopiedRange(h.m, to, from, area.start, area.end)
    OBVIOUS
  <2>7. g[k].m = x /\ g[k].areas = InsertVma(h.areas, area)
    BY <1>1, <2>5, <2>6 DEF DupRound
  <2>8. Behind(l, k, g[k].areas)
    <3>1. Behind(l, k - 1, h.areas)
      BY <1>5, <2>1
    <3>2. Len(l) - k + 1 = j
      BY <1>2, <2>2
    <3>3. Behind(l, k, InsertVma(h.areas, l[Len(l) - k + 1]))
      BY <1>2, <3>1, InsertFirst
    <3> QED BY <2>3, <2>7, <3>2, <3>3
  <2>9. CASE Gone(h.m)
    <3>1. Gone(x)
      BY <1>2, <2>4, <2>6, <2>9, GoneCopied
    <3> QED BY <2>7, <2>8, <3>1
  <2>10. CASE ~ Gone(h.m)
    <3>1. /\ Good(h.m, R) /\ AllKept(m, h.m, R \ {to}) /\ TopsIn(h.m, to, l)
          /\ \A a \in UserPages : Cell(h.m, to, a)
               = IF Behinds(k - 1, a) THEN Cell(m, from, a) ELSE <<>>
      <4> HIDE DEF Behinds
      <4> QED BY <1>5, <2>1, <2>10
    <3>2. \A a \in UserPages : a \in Nat /\ (a \in area.start .. area.end - 1 <=> Covers(l[j], a))
      <4>1. \A a \in UserPages : a \in Nat
        BY FirstIndex
      <4> QED BY <1>2, <2>3, <2>4, <4>1 DEF Covers
    <3>3. \A a \in area.start .. area.end - 1 : a \in UserPages
      BY <1>2, <2>4 DEF UserPages
    <3>4. \A a \in UserPages : Covers(l[j], a) => ~ Behinds(k - 1, a)
      <4> SUFFICES ASSUME NEW a \in UserPages, Covers(l[j], a), NEW i \in DOMAIN l,
                          i > Len(l) - (k - 1), Covers(l[i], a)
                   PROVE  FALSE
        OBVIOUS
      <4>1. a \in Int
        BY <3>2
      <4>2. i = j
        BY <1>2, <4>1, OneCovers
      <4> QED BY <1>2, <2>2, <4>2
    <3>5. \A a \in UserPages : Behinds(k, a) <=> Behinds(k - 1, a) \/ Covers(l[j], a)
      <4>1. \A i \in DOMAIN l : i > Len(l) - k <=> i > Len(l) - (k - 1) \/ i = j
        BY <1>2, <2>2
      <4> QED BY <4>1
    <3> HIDE DEF Behinds
    <3>6. \A a \in area.start .. area.end - 1 : Cell(h.m, to, a) = <<>>
      BY <3>1, <3>2, <3>3, <3>4
    <3>7. PICK hm : hm = h.m
      OBVIOUS
    <3>8. \/ Gone(x)
          \/ Good(x, R) /\ Copies(hm, x, to, from, area.start, area.end) /\ AllKept(hm, x, R \ {to})
      <4>1. Good(hm, R) /\ to # from /\ x = CopiedRange(hm, to, from, area.start, area.end)
        BY <1>1, <2>6, <3>1, <3>7
      <4>2. \A a \in area.start .. area.end - 1 : Cell(hm, to, a) = <<>>
        BY <3>6, <3>7
      <4> QED BY <2>4, <4>1, <4>2, CopiedRangeGood
    <3>9. CASE Gone(x)
      BY <2>7, <2>8, <3>9
    <3>10. CASE ~ Gone(x)
      <4>1. Good(x, R) /\ Copies(hm, x, to, from, area.start, area.end) /\ AllKept(hm, x, R \ {to})
        BY <3>8, <3>10
      <4>2. AllKept(m, x, R \ {to})
        BY <3>1, <3>7, <4>1, KeptOn DEF AllKept
      <4>3. Tops(x, to) \subseteq Tops(hm, to) \cup (Pdx1(area.start) .. Pdx1(area.end - 1))
        BY <4>1 DEF Copies
      <4>4. TopsIn(x, to, l)
        BY <2>3, <3>1, <3>7, <4>3 DEF TopsIn
      <4>5. ASSUME NEW a \in UserPages
            PROVE  Cell(x, to, a) = IF Behinds(k, a) THEN Cell(m, from, a) ELSE <<>>
        <5>1. Cell(x, to, a) = IF a \in area.start .. area.end - 1 THEN Cell(hm, from, a)
                               ELSE Cell(hm, to, a)
          BY <4>1 DEF Copies
        <5>2. Cell(hm, from, a) = Cell(m, from, a)
          <6>1. Cells(hm, from) = Cells(m, from)
            BY <1>1, <3>1, <3>7 DEF AllKept, Kept
          <6> QED BY <6>1 DEF Cells
        <5>3. a \in area.start .. area.end - 1 <=> Covers(l[j], a)
          BY <3>2
        <5>4. Behinds(k, a) <=> Behinds(k - 1, a) \/ Covers(l[j], a)
          BY <3>5
        <5>5. Cell(hm, to, a) = IF Behinds(k - 1, a) THEN Cell(m, from, a) ELSE <<>>
          BY <3>1, <3>7
        <5> QED BY <5>1, <5>2, <5>3, <5>4, <5>5
      <4> QED BY <2>7, <2>8, <4>1, <4>2, <4>4, <4>5
    <3> QED BY <3>9, <3>10
  <2> QED BY <2>9, <2>10
<1>6. Len(l) \in P
  <2>1. 0 \in P
    <3> HIDE DEF Fine
    <3> QED BY <1>2, <1>4
  <2>2. ASSUME NEW k \in 1 .. Len(l), k - 1 \in P PROVE k \in P
    <3>1. k \in 0 .. Len(l)
      BY <1>2
    <3> HIDE DEF Fine
    <3> QED BY <1>5, <2>2, <3>1
  <2> HIDE DEF P
  <2>3. \A k \in 0 .. Len(l) : k \in P
    BY <1>2, <2>1, <2>2, EveryRound
  <2> QED BY <1>2, <2>3
<1>7. n.areas = l
  <2>1. PICK y : y = n.areas
    OBVIOUS
  <2>2. Behind(l, Len(l), y)
    <3> HIDE DEF Part
    <3> QED BY <1>3, <1>6, <2>1
  <2>3. y \in Seq(Areas) /\ Len(y) = Len(l) /\ \A i \in 1 .. Len(l) : y[i] = l[i]
    <3>1. \A i \in 1 .. Len(l) : Len(l) - Len(l) + i = i
      BY <1>2
    <3> QED BY <2>2, <3>1 DEF Behind
  <2> QED BY <1>2, <2>1, <2>3
<1>8. CASE ~ Gone(n.m)
  <2>1. PICK x : x = n.m
    OBVIOUS
  <2>2. /\ Good(x, R) /\ TopsIn(x, to, l) /\ AllKept(m, x, R \ {to})
        /\ \A a \in UserPages : Cell(x, to, a)
             = IF Behinds(Len(l), a) THEN Cell(m, from, a) ELSE <<>>
    <3> HIDE DEF Behinds
    <3> QED BY <1>3, <1>6, <1>8, <2>1
  <2>3. \A a \in UserPages : Cell(x, to, a) = Cell(m, from, a)
    <3> SUFFICES ASSUME NEW a \in UserPages PROVE Cell(x, to, a) = Cell(m, from, a)
      OBVIOUS
    <3>1. Behinds(Len(l), a) <=> \E i \in DOMAIN l : Covers(l[i], a)
      <4>1. \A i \in DOMAIN l : i > Len(l) - Len(l)
        BY <1>2
      <4> QED BY <4>1
    <3>2. Cell(m, from, a) # <<>> => Behinds(Len(l), a)
      BY <1>2, <3>1 DEF Fits
    <3> HIDE DEF Behinds
    <3> QED BY <2>2, <3>2
  <2>4. Cells(x, to) = Cells(m, from)
    BY <2>3 DEF Cells
  <2>5. GoesWith(x, to, l)
    BY <1>2, <2>2, <2>3 DEF GoesWith, Fits
  <2> QED BY <1>0, <1>1, <1>7, <2>1, <2>2, <2>4, <2>5
<1> QED BY <1>8

-----------------------------------------------------------------------------
(* Address spaces of all processes, and the system calls *)

\* dup_mmap() that has asked for a frame in vain before.
LEMMA GoneDuplicated ==
  ASSUME SpaceConstantsOK, NEW m, Gone(m), NEW to, NEW mm, Sorted(mm.areas),
         NEW n, n = Duplicated(m, to, mm)
  PROVE  Gone(n.m)
<1>0. PICK l : l = mm.areas
  OBVIOUS
<1>1. Sorted(l) /\ DOMAIN l = 1 .. Len(l) /\ Len(l) \in Nat /\ NV \in Nat
  BY <1>0 DEF Sorted, SpaceConstantsOK
<1>2. PICK g : /\ n = g[Len(l)]
               /\ \A k \in 0 .. Len(l) : g[k] = IF k = 0 THEN DupBegun(m)
                    ELSE DupRound(g[k - 1], to, mm, FromLast(l, k))
  <2>1. \E g : Duplicated(m, to, mm) = g[Len(mm.areas)] /\ DupWalk(g, m, to, mm)
    BY <1>0, <1>1, DupRounds
  <2> QED BY <1>0, <2>1 DEF DupWalk
<1> DEFINE P == {k \in 0 .. Len(l) : Gone(g[k].m)}
<1>3. 0 \in P
  BY <1>1, <1>2 DEF DupBegun
<1>4. ASSUME NEW k \in 1 .. Len(l), k - 1 \in P PROVE k \in P
  <2>1. PICK h : h = g[k - 1].m
    OBVIOUS
  <2>2. PICK j \in DOMAIN l : j = Len(l) + 1 - k
    BY <1>1
  <2>3. PICK area : area = l[j]
    OBVIOUS
  <2>4. /\ area.start \in Nat /\ area.end \in 0 .. NV
    BY <1>1, <2>3, AreaIs
  <2>5. g[k].m = CopiedRange(h, to, mm.root, area.start, area.end)
    <3>1. k \in 0 .. Len(l) /\ k # 0
      BY <1>1
    <3>2. g[k] = DupRound(g[k - 1], to, mm, area)
      BY <1>2, <2>2, <2>3, <3>1 DEF FromLast
    <3> QED BY <2>1, <3>2 DEF DupRound
  <2>6. Gone(g[k].m)
    BY <1>1, <1>4, <2>1, <2>4, <2>5, GoneCopied
  <2>7. k \in 0 .. Len(l)
    BY <1>1
  <2> QED BY <2>6, <2>7
<1>5. Len(l) \in P
  <2> HIDE DEF P
  <2>1. \A k \in 0 .. Len(l) : k \in P
    BY <1>1, <1>3, <1>4, EveryRound
  <2> QED BY <1>1, <2>1
<1> QED BY <1>2, <1>5

\* The directories of ms.
RootsIn(ms) == {ms[p].root : p \in {q \in Procs : ms[q].root # 0}}

OneRoot(ms) == \A p, q \in Procs : ms[p].root # 0 /\ ms[p].root = ms[q].root => p = q

AllHeld(m, ms) == \A p \in Procs : ms[p].root # 0 => GoesWith(m, ms[p].root, ms[p].areas)

Mms == [root : {0} \cup Frames, areas : Seq(Areas)]

\* The address spaces ms are built of the frames m, each of its own, and nothing else is.
Spaces(m, ms) ==
  /\ ms \in [Procs -> Mms]
  /\ Good(m, RootsIn(ms)) /\ OneRoot(ms) /\ AllHeld(m, ms)

\* What a process finds in its pages.
SeenIn(m, mm) ==
  IF mm.root = 0 THEN <<>>
  ELSE [a \in {b \in UserPages : Cells(m, mm.root)[b] # <<>>} |-> Cells(m, mm.root)[a][2]]

\* Directories are frames.
LEMMA RootsAre ==
  ASSUME SpaceConstantsOK, NEW m, NEW R, Good(m, R)
  PROVE  /\ R \subseteq Frames /\ 0 \notin R /\ F + 1 \notin R
         /\ ~ Gone(m) /\ m.out = FALSE /\ Typed(m)
<1>1. PICK lev : Shape(m, lev) /\ R = Highest(lev)
  BY DEF Good
<1>2. Typed(m) /\ lev[F + 1] = -2 /\ F + 1 \in Frames /\ 0 \notin Frames
  BY <1>1, FrameType DEF Shape, Levelled
<1>3. m.out = FALSE
  BY <1>2 DEF Typed
<1>4. ~ Gone(m)
  BY <1>3 DEF Gone
<1> QED BY <1>1, <1>2, <1>3, <1>4 DEF Highest

\* A directory that nothing happens to goes with its areas as before.
LEMMA HeldKept ==
  ASSUME NEW m, NEW n, NEW r, NEW l, GoesWith(m, r, l), Kept(m, n, r)
  PROVE  GoesWith(n, r, l)
<1>1. \A a \in UserPages : Cell(n, r, a) = Cell(m, r, a)
  BY DEF Kept, Cells
<1> QED BY <1>1 DEF GoesWith, Kept, Fits, TopsIn

\* The directories of all processes but p.
Rest(ms, p) == RootsIn(ms) \ {ms[p].root}

\* The directories when p has the address space mm, or none.
RestWith(ms, p, mm) == IF mm.root = 0 THEN Rest(ms, p) ELSE Rest(ms, p) \cup {mm.root}

HeldBy(m, mm) == mm.root # 0 => GoesWith(m, mm.root, mm.areas)

Given(ms, p, mm) == [ms EXCEPT ![p] = mm]

\* All but p find in their pages what they found before.
SameSeen(m, ms, n, ns, p) == \A q \in Procs \ {p} : SeenIn(n, ns[q]) = SeenIn(m, ms[q])

\* p gets the address space mm, or none, and nothing happens to the others.
LEMMA SpacesStep ==
  ASSUME SpaceConstantsOK, NEW m, NEW ms, Spaces(m, ms), NEW p \in Procs, NEW mm \in Mms,
         NEW n, AllKept(m, n, Rest(ms, p)), mm.root \notin Rest(ms, p),
         Good(n, RestWith(ms, p, mm)), HeldBy(n, mm), NEW ns, ns = Given(ms, p, mm)
  PROVE  Spaces(n, ns) /\ SameSeen(m, ms, n, ns, p)
<1>0. ms \in [Procs -> Mms] /\ OneRoot(ms) /\ AllHeld(m, ms)
  BY DEF Spaces
<1>1. ns \in [Procs -> Mms] /\ ns[p] = mm /\ \A q \in Procs \ {p} : ns[q] = ms[q]
  BY <1>0 DEF Given
<1>2. \A q \in Procs \ {p} : ms[q].root # 0 => ms[q].root \in Rest(ms, p)
  BY <1>0 DEF Rest, RootsIn, OneRoot
<1>3. \A x \in Rest(ms, p) : \E q \in Procs \ {p} : ms[q].root = x /\ x # 0
  BY DEF Rest, RootsIn
<1>4. RootsIn(ns) = RestWith(ms, p, mm)
  <2>1. ASSUME NEW x \in RootsIn(ns) PROVE x \in Rest(ms, p) \/ (x = mm.root /\ x # 0)
    <3>1. PICK q \in Procs : ns[q].root = x /\ x # 0
      BY <2>1 DEF RootsIn
    <3> QED BY <1>1, <1>2, <3>1
  <2>2. ASSUME NEW x \in Rest(ms, p) PROVE x \in RootsIn(ns)
    <3>1. PICK q \in Procs \ {p} : ms[q].root = x /\ x # 0
      BY <1>3
    <3> QED BY <1>1, <3>1 DEF RootsIn
  <2>3. mm.root # 0 => mm.root \in RootsIn(ns)
    BY <1>1 DEF RootsIn
  <2> QED BY <2>1, <2>2, <2>3 DEF RestWith
<1>5. OneRoot(ns)
  <2> SUFFICES ASSUME NEW x \in Procs, NEW y \in Procs, ns[x].root # 0, ns[x].root = ns[y].root
               PROVE  x = y
    BY DEF OneRoot
  <2>1. CASE x # p /\ y # p
    BY <1>0, <1>1, <2>1 DEF OneRoot
  <2>2. CASE x = p /\ y # p
    BY <1>1, <1>2, <2>2
  <2>3. CASE x # p /\ y = p
    BY <1>1, <1>2, <2>3
  <2> QED BY <2>1, <2>2, <2>3
<1>6. \A q \in Procs \ {p} : ms[q].root # 0 => Kept(m, n, ms[q].root)
  BY <1>2 DEF AllKept
<1>7. AllHeld(n, ns)
  <2> SUFFICES ASSUME NEW q \in Procs, ns[q].root # 0 PROVE GoesWith(n, ns[q].root, ns[q].areas)
    BY DEF AllHeld
  <2>1. CASE q = p
    BY <1>1, <2>1 DEF HeldBy
  <2>2. CASE q # p
    <3>1. GoesWith(m, ms[q].root, ms[q].areas) /\ Kept(m, n, ms[q].root)
      BY <1>0, <1>1, <1>6, <2>2 DEF AllHeld
    <3>2. GoesWith(n, ms[q].root, ms[q].areas)
      BY <3>1, HeldKept
    <3> QED BY <1>1, <2>2, <3>2
  <2> QED BY <2>1, <2>2
<1>8. ASSUME NEW q \in Procs \ {p} PROVE SeenIn(n, ns[q]) = SeenIn(m, ms[q])
  BY <1>1, <1>6 DEF SeenIn, Kept
<1>9. Good(n, RootsIn(ns))
  BY <1>4
<1> QED BY <1>1, <1>5, <1>7, <1>8, <1>9 DEF Spaces, SameSeen

\* Every process has an address space of its own, or none.
SpaceInv == Spaces(frames, mms) /\ halted \in BOOLEAN

\* What the processes but p find in their pages stays as it is.
OthersSee(p) == \A q \in Procs \ {p} : SeenIn(frames', mms'[q]) = SeenIn(frames, mms[q])

\* The kernel panics, and no more happens.
Stopped == UNCHANGED <<frames, mms>> /\ halted' = TRUE

\* There were frames enough.
LEMMA SettleGood ==
  ASSUME SpaceConstantsOK, NEW m, NEW R, Good(m, R), NEW ms, Settle(m, ms)
  PROVE  frames' = m /\ mms' = ms /\ halted' = halted
BY RootsAre DEF Settle

\* There was a frame too few.
LEMMA SettleGone ==
  ASSUME NEW m, Gone(m), NEW ms, Settle(m, ms)
  PROVE  Stopped
BY DEF Settle, Gone, Stopped

\* exit_mmap() and what follows it, of a process that has an address space.
LEMMA WithoutGood ==
  ASSUME SpaceConstantsOK, SpaceInv, NEW p \in Procs, NEW n, n = WithoutMm(p)
  PROVE  Good(n, Rest(mms, p)) /\ AllKept(frames, n, Rest(mms, p))
<1>1. /\ Good(frames, RootsIn(mms)) /\ AllHeld(frames, mms)
      /\ mms \in [Procs -> Mms]
  BY DEF SpaceInv, Spaces
<1>2. CASE mms[p].root = 0
  <2>1. Rest(mms, p) = RootsIn(mms)
    BY <1>2 DEF Rest, RootsIn
  <2>2. n = frames
    BY <1>2 DEF WithoutMm
  <2> QED BY <1>1, <2>1, <2>2 DEF AllKept, Kept
<1>3. CASE mms[p].root # 0
  <2>1. PICK mm : mm = mms[p]
    OBVIOUS
  <2>2. /\ n = Destroyed(frames, mm) /\ mm.root \in RootsIn(mms)
        /\ GoesWith(frames, mm.root, mm.areas)
    BY <1>1, <1>3, <2>1 DEF WithoutMm, AllHeld, RootsIn
  <2>3. Good(n, RootsIn(mms) \ {mm.root}) /\ AllKept(frames, n, RootsIn(mms) \ {mm.root})
    BY <1>1, <2>2, DestroyedGood
  <2> QED BY <2>1, <2>3 DEF Rest
<1> QED BY <1>2, <1>3

\* A process is left without an address space.
LEMMA NoneLeft ==
  ASSUME SpaceConstantsOK, SpaceInv, NEW p \in Procs, NEW n, Good(n, Rest(mms, p)),
         AllKept(frames, n, Rest(mms, p)), Settle(n, [mms EXCEPT ![p] = NoMm])
  PROVE  SpaceInv' /\ OthersSee(p) /\ mms' = [mms EXCEPT ![p] = NoMm]
<1>1. frames' = n /\ mms' = [mms EXCEPT ![p] = NoMm] /\ halted' = halted
  BY SettleGood
<1>2. PICK mm : mm = NoMm
  OBVIOUS
<1>3. mm \in Mms /\ mm.root = 0 /\ mm.root \notin Rest(mms, p)
  <2>1. <<>> \in Seq(Areas)
    OBVIOUS
  <2>2. mm.root = 0 /\ mm.root \notin Rest(mms, p)
    BY <1>2 DEF NoMm, Rest, RootsIn
  <2> QED BY <1>2, <2>1, <2>2 DEF NoMm, Mms
<1>4. PICK ns : ns = [mms EXCEPT ![p] = mm]
  OBVIOUS
<1>5. Spaces(n, ns) /\ SameSeen(frames, mms, n, ns, p)
  <2>1. Spaces(frames, mms)
    BY DEF SpaceInv
  <2>2. Good(n, RestWith(mms, p, mm)) /\ HeldBy(n, mm) /\ ns = Given(mms, p, mm)
    BY <1>3, <1>4 DEF RestWith, HeldBy, Given
  <2> QED BY <1>3, <2>1, <2>2, SpacesStep
<1> QED BY <1>1, <1>2, <1>4, <1>5 DEF SpaceInv, OthersSee, SameSeen

\* A process gets an address space in place of what it had.
LEMMA GivenSpace ==
  ASSUME SpaceConstantsOK, SpaceInv, NEW p \in Procs, NEW n, NEW mm, mm \in Mms, mm.root # 0,
         mm.root \notin Rest(mms, p), Good(n, Rest(mms, p) \cup {mm.root}),
         AllKept(frames, n, Rest(mms, p)), GoesWith(n, mm.root, mm.areas),
         Settle(n, [mms EXCEPT ![p] = mm])
  PROVE  SpaceInv' /\ OthersSee(p) /\ frames' = n /\ mms' = [mms EXCEPT ![p] = mm]
<1>1. frames' = n /\ mms' = [mms EXCEPT ![p] = mm] /\ halted' = halted
  BY SettleGood
<1>2. PICK ns : ns = [mms EXCEPT ![p] = mm]
  OBVIOUS
<1>3. Spaces(n, ns) /\ SameSeen(frames, mms, n, ns, p)
  <2>1. Spaces(frames, mms)
    BY DEF SpaceInv
  <2>2. Good(n, RestWith(mms, p, mm)) /\ HeldBy(n, mm) /\ ns = Given(mms, p, mm)
    BY <1>2 DEF RestWith, HeldBy, Given
  <2> QED BY <2>1, <2>2, SpacesStep
<1> QED BY <1>1, <1>2, <1>3 DEF SpaceInv, OthersSee, SameSeen

\* The process runs the program: the pages of its file are there.
HasProgram(p, prog) ==
  /\ mms[p].root # 0
  /\ \A j \in 1 .. Len(prog) : \A a \in prog[j].start .. prog[j].end - 1 :
       FromFile(Cells(frames, mms[p].root)[a])

\* do_execve()
LEMMA ExecKeeps ==
  ASSUME SpaceConstantsOK, SpaceInv, NEW p \in Procs, Exec(p)
  PROVE  /\ SpaceInv'
         /\ \/ Stopped
            \/ OthersSee(p) /\ mms' = [mms EXCEPT ![p] = NoMm]
            \/ OthersSee(p) /\ \E prog \in Programs : HasProgram(p, prog)'
<1>a. PICK m : m = WithoutMm(p)
  OBVIOUS
<1>b. PICK prog \in Programs : \E reads \in 0 .. ReadsOf(prog) :
        \E v \in [1 .. StackThere -> IF reads = ReadsOf(prog) THEN Values ELSE {FileData}] :
          \E s \in {Loaded(m, prog, reads, v)} :
            \/ s.goes = "on" /\ ~ s.m.out /\ Settle(s.m, [mms EXCEPT ![p] = s.mm])
            \/ s.goes = "failed" /\ ~ s.m.out /\ Settle(Cleaned(s), [mms EXCEPT ![p] = NoMm])
            \/ (s.goes = "panic" \/ s.m.out) /\ Panic
  BY <1>a, Zenon DEF Exec
<1>c. PICK reads \in 0 .. ReadsOf(prog) :
        \E v \in [1 .. StackThere -> IF reads = ReadsOf(prog) THEN Values ELSE {FileData}] :
          \E s \in {Loaded(m, prog, reads, v)} :
            \/ s.goes = "on" /\ ~ s.m.out /\ Settle(s.m, [mms EXCEPT ![p] = s.mm])
            \/ s.goes = "failed" /\ ~ s.m.out /\ Settle(Cleaned(s), [mms EXCEPT ![p] = NoMm])
            \/ (s.goes = "panic" \/ s.m.out) /\ Panic
  BY <1>b, Zenon
<1>d. PICK v \in [1 .. StackThere -> IF reads = ReadsOf(prog) THEN Values ELSE {FileData}] :
        \E s \in {Loaded(m, prog, reads, v)} :
          \/ s.goes = "on" /\ ~ s.m.out /\ Settle(s.m, [mms EXCEPT ![p] = s.mm])
          \/ s.goes = "failed" /\ ~ s.m.out /\ Settle(Cleaned(s), [mms EXCEPT ![p] = NoMm])
          \/ (s.goes = "panic" \/ s.m.out) /\ Panic
  BY <1>c, Zenon
<1>e. v \in [1 .. StackThere -> Values]
  <2>1. FileData \in Values
    BY DEF SpaceConstantsOK
  <2>2. v \in [1 .. StackThere -> IF reads = ReadsOf(prog) THEN Values ELSE {FileData}]
    BY <1>d
  <2> QED BY <2>1, <2>2
<1>1. PICK s \in {Loaded(m, prog, reads, v)} :
        \/ s.goes = "on" /\ ~ s.m.out /\ Settle(s.m, [mms EXCEPT ![p] = s.mm])
        \/ s.goes = "failed" /\ ~ s.m.out /\ Settle(Cleaned(s), [mms EXCEPT ![p] = NoMm])
        \/ (s.goes = "panic" \/ s.m.out) /\ Panic
  BY <1>d, Zenon
<1>2. PICK R : R = Rest(mms, p)
  OBVIOUS
<1>3. Good(m, R) /\ AllKept(frames, m, R)
  BY <1>a, <1>2, WithoutGood
<1>4. LoadInv(s, m, R) /\ (Alive(s) => HasPages(s, prog, Len(prog)))
  <2>1. s = Loaded(m, prog, reads, v)
    OBVIOUS
  <2> QED BY <1>3, <1>e, <2>1, LoadedGood
<1>5. ASSUME NEW n, AllKept(m, n, R) PROVE AllKept(frames, n, R)
  BY <1>3, <1>5, KeptOn DEF AllKept
<1>6. CASE s.goes = "on" /\ ~ s.m.out /\ Settle(s.m, [mms EXCEPT ![p] = s.mm])
  <2>1. ~ Gone(s.m)
    BY <1>6 DEF Gone
  <2>2. Sane(s, m, R) /\ HasPages(s, prog, Len(prog))
    BY <1>4, <1>6, <2>1 DEF LoadInv, Alive
  <2>3. PICK n : n = s.m
    OBVIOUS
  <2>4. PICK mm : mm = s.mm
    OBVIOUS
  <2>5. /\ mm.root \notin R /\ Good(n, R \cup {mm.root}) /\ AllKept(frames, n, R)
        /\ GoesWith(n, mm.root, mm.areas) /\ mm = [root |-> mm.root, areas |-> mm.areas]
    BY <1>4, <1>5, <2>2, <2>3, <2>4 DEF Sane, LoadInv, LoadState
  <2>6. mm.root \in Frames /\ mm.root # 0
    BY <2>5, RootsAre
  <2>7. mm \in Mms
    BY <2>5, <2>6 DEF Mms, GoesWith, Sorted
  <2>8. Settle(n, [mms EXCEPT ![p] = mm])
    BY <1>6, <2>3, <2>4
  <2>9. SpaceInv' /\ OthersSee(p) /\ frames' = n /\ mms' = [mms EXCEPT ![p] = mm]
    BY <1>2, <2>5, <2>6, <2>7, <2>8, GivenSpace
  <2>10. mms'[p] = mm
    <3>1. mms \in [Procs -> Mms]
      BY DEF SpaceInv, Spaces
    <3> QED BY <2>9, <3>1
  <2>11. HasProgram(p, prog)'
    BY <2>2, <2>3, <2>4, <2>6, <2>9, <2>10 DEF HasProgram, HasPages, NewCells
  <2> QED BY <2>9, <2>11
<1>7. CASE s.goes = "failed" /\ ~ s.m.out /\ Settle(Cleaned(s), [mms EXCEPT ![p] = NoMm])
  <2>1. ~ Gone(s.m)
    BY <1>7 DEF Gone
  <2>2. Sane(s, m, R)
    BY <1>4, <1>7, <2>1 DEF LoadInv
  <2>3. PICK k : k = s.m
    OBVIOUS
  <2>4. PICK mm : mm = s.mm
    OBVIOUS
  <2>5. PICK n : n = Destroyed(k, mm)
    OBVIOUS
  <2>6. PICK S : S = R \cup {mm.root}
    OBVIOUS
  <2>7. /\ mm.root \in S /\ Good(k, S) /\ GoesWith(k, mm.root, mm.areas) /\ S \ {mm.root} = R
        /\ AllKept(m, k, R)
    BY <2>2, <2>3, <2>4, <2>6 DEF Sane
  <2>8. Good(n, S \ {mm.root}) /\ AllKept(k, n, S \ {mm.root})
    BY <2>5, <2>7, DestroyedGood
  <2>9. AllKept(m, n, R)
    BY <2>7, <2>8, KeptOn DEF AllKept
  <2>10. Good(n, R) /\ AllKept(frames, n, R) /\ Settle(n, [mms EXCEPT ![p] = NoMm])
    BY <1>5, <1>7, <2>3, <2>4, <2>5, <2>7, <2>8, <2>9 DEF Cleaned
  <2> QED BY <1>2, <2>10, NoneLeft
<1>8. CASE (s.goes = "panic" \/ s.m.out) /\ Panic
  BY <1>8 DEF Panic, Stopped, SpaceInv
<1> QED BY <1>1, <1>6, <1>7, <1>8

\* do_exit()
LEMMA ExitKeeps ==
  ASSUME SpaceConstantsOK, SpaceInv, NEW p \in Procs, Exit(p)
  PROVE  SpaceInv' /\ OthersSee(p) /\ mms' = [mms EXCEPT ![p] = NoMm]
<1>1. PICK n : n = WithoutMm(p)
  OBVIOUS
<1>2. Good(n, Rest(mms, p)) /\ AllKept(frames, n, Rest(mms, p))
  BY <1>1, WithoutGood
<1>3. Settle(n, [mms EXCEPT ![p] = NoMm])
  BY <1>1 DEF Exit
<1> QED BY <1>2, <1>3, NoneLeft

\* What the process p finds in its pages.
CellsOf(p) == Cells(frames, mms[p].root)

\* copy_mm()
LEMMA ForkKeeps ==
  ASSUME SpaceConstantsOK, SpaceInv, NEW p \in Procs, NEW q \in Procs, Fork(p, q)
  PROVE  /\ SpaceInv'
         /\ \/ Stopped
            \/ /\ OthersSee(q) /\ p # q /\ mms[q].root = 0
               /\ SeenIn(frames', mms'[q]) = SeenIn(frames, mms[p])
<1>1. PICK root : root = Lowest(frames)
  OBVIOUS
<1>2. PICK k : k = Taken(frames, 0)
  OBVIOUS
<1>3. PICK s : s = Duplicated(k, root, mms[p])
  OBVIOUS
<1>4. PICK mm : mm = [root |-> root, areas |-> s.areas]
  OBVIOUS
<1>5. /\ mms[p].root # 0 /\ mms[q].root = 0 /\ p # q
      /\ Settle(s.m, [mms EXCEPT ![q] = mm])
  <2>1. mm = [NoMm EXCEPT !.root = root, !.areas = s.areas]
    <3>1. PICK z : z = NoMm
      OBVIOUS
    <3>2. z = [root |-> 0, areas |-> <<>>]
      BY <3>1 DEF NoMm
    <3>3. PICK l : l = s.areas
      OBVIOUS
    <3>4. [z EXCEPT !.root = root, !.areas = l] = [root |-> root, areas |-> l]
      <4>1. PICK y : y = [z EXCEPT !.root = root]
        OBVIOUS
      <4>2. y = [root |-> root, areas |-> <<>>]
        BY <3>2, <4>1
      <4>3. [y EXCEPT !.areas = l] = [root |-> root, areas |-> l]
        BY <4>2
      <4>4. [z EXCEPT !.root = root, !.areas = l] = [y EXCEPT !.areas = l]
        BY <4>1
      <4> QED BY <4>3, <4>4
    <3> QED BY <1>4, <3>1, <3>3, <3>4
  <2> QED BY <1>1, <1>2, <1>3, <2>1 DEF Fork
<1>6. PICK R : R = RootsIn(mms)
  OBVIOUS
<1>7. /\ Good(frames, R) /\ AllHeld(frames, mms) /\ mms \in [Procs -> Mms]
      /\ mms[p].root \in R /\ Rest(mms, q) = R
  BY <1>5, <1>6 DEF SpaceInv, Spaces, RootsIn, Rest
<1>8. PICK from : from = mms[p]
  OBVIOUS
<1>9. /\ from.root \in R /\ GoesWith(frames, from.root, from.areas) /\ from.root # 0
      /\ Sorted(from.areas) /\ from.areas \in Seq(Areas)
  BY <1>5, <1>7, <1>8 DEF AllHeld, GoesWith, Sorted
<1>10. CASE Gone(k)
  <2>1. Gone(s.m)
    BY <1>3, <1>8, <1>9, <1>10, GoneDuplicated
  <2>2. Stopped
    BY <1>5, <2>1, SettleGone
  <2> QED BY <2>2 DEF Stopped, SpaceInv
<1>11. CASE Fresh(frames, k, R, root)
  <2>1. PICK S : S = R \cup {root}
    OBVIOUS
  <2>2. /\ Good(k, S) /\ root \in S /\ from.root \in S /\ root # from.root
        /\ Tops(k, root) = {} /\ Cells(k, root) = NoCells
        /\ root \notin R /\ S \ {root} = R
        /\ Kept(frames, k, from.root)
    BY <1>9, <1>11, <2>1 DEF Fresh
  <2>3. GoesWith(k, from.root, from.areas)
    BY <1>9, <2>2, HeldKept
  <2>4. PICK n : n = s.m
    OBVIOUS
  <2>5. \/ Gone(n)
        \/ /\ Good(n, S) /\ AllKept(k, n, S \ {root}) /\ s.areas = from.areas
           /\ Cells(n, root) = Cells(k, from.root) /\ GoesWith(n, root, from.areas)
    BY <1>3, <1>8, <2>2, <2>3, <2>4, DuplicatedGood
  <2>6. CASE Gone(n)
    <3>1. Stopped
      BY <1>5, <2>4, <2>6, SettleGone
    <3> QED BY <3>1 DEF Stopped, SpaceInv
  <2>7. CASE ~ Gone(n)
    <3>1. /\ Good(n, S) /\ AllKept(k, n, R) /\ s.areas = from.areas
          /\ Cells(n, root) = Cells(k, from.root) /\ GoesWith(n, root, from.areas)
      BY <2>2, <2>5, <2>7
    <3>2. AllKept(frames, n, R)
      BY <1>11, <3>1, KeptOn DEF AllKept, Fresh
    <3>3. root \in Frames /\ root # 0
      BY <1>11, FrameType DEF Fresh
    <3>4. mm \in Mms /\ mm.root = root /\ mm.areas = from.areas
      BY <1>4, <1>9, <3>1, <3>3 DEF Mms
    <3>5. /\ mm.root # 0 /\ mm.root \notin Rest(mms, q)
          /\ Good(n, Rest(mms, q) \cup {mm.root}) /\ AllKept(frames, n, Rest(mms, q))
          /\ GoesWith(n, mm.root, mm.areas) /\ Settle(n, [mms EXCEPT ![q] = mm])
      BY <1>5, <1>7, <2>1, <2>2, <2>4, <3>1, <3>2, <3>3, <3>4
    <3>6. SpaceInv' /\ OthersSee(q) /\ frames' = n /\ mms' = [mms EXCEPT ![q] = mm]
      BY <3>4, <3>5, GivenSpace
    <3>7. mms'[q] = mm
      BY <1>7, <3>6
    <3>8. Cells(n, root) = Cells(frames, from.root)
      BY <2>2, <3>1 DEF Kept
    <3>9. SeenIn(n, mm) = SeenIn(frames, from)
      BY <1>9, <3>3, <3>4, <3>8 DEF SeenIn
    <3> QED BY <1>5, <1>8, <3>6, <3>7, <3>9
  <2> QED BY <2>6, <2>7
<1>12. Gone(k) \/ Fresh(frames, k, R, root)
  BY <1>1, <1>2, <1>7, TakenGood
<1> QED BY <1>10, <1>11, <1>12

\* What is said of a page goes with the area k of l.
Suits(l, k, a, c) == Covers(l[k], a) /\ (c # <<>> => c[1] = ("VM_WRITE" \in l[k].flags))

\* A page of the process p changes, or appears.
LEMMA PageChanges ==
  ASSUME SpaceConstantsOK, SpaceInv, NEW p \in Procs, NEW r, r = mms[p].root, r # 0,
         NEW n, Good(n, RootsIn(mms)), AllKept(frames, n, RootsIn(mms) \ {r}),
         NEW a \in UserPages, NEW c, Gets(frames, n, r, a, c),
         NEW k \in DOMAIN mms[p].areas, Suits(mms[p].areas, k, a, c)
  PROVE  Spaces(n, mms) /\ SameSeen(frames, mms, n, mms, p)
<1>1. PICK mm : mm = mms[p]
  OBVIOUS
<1>2. /\ mms \in [Procs -> Mms] /\ AllHeld(frames, mms) /\ mm \in Mms /\ r \in RootsIn(mms)
  BY <1>1 DEF SpaceInv, Spaces, RootsIn
<1>3. PICK l : l = mm.areas
  OBVIOUS
<1>4. GoesWith(frames, r, l) /\ k \in DOMAIN l /\ Covers(l[k], a)
      /\ (c # <<>> => c[1] = ("VM_WRITE" \in l[k].flags))
  BY <1>1, <1>2, <1>3 DEF AllHeld, Suits
<1>5. GoesWith(n, r, l)
  BY <1>4, GoesWithPage
<1>6. mms = Given(mms, p, mm)
  BY <1>1, <1>2 DEF Given
<1>7. /\ AllKept(frames, n, Rest(mms, p)) /\ mm.root \notin Rest(mms, p)
      /\ Good(n, RestWith(mms, p, mm)) /\ HeldBy(n, mm) /\ Spaces(frames, mms)
  <2>1. Rest(mms, p) \cup {r} = RootsIn(mms)
    BY <1>2 DEF Rest
  <2> QED BY <1>1, <1>3, <1>5, <2>1 DEF Rest, RestWith, HeldBy, SpaceInv
<1> QED BY <1>2, <1>6, <1>7, SpacesStep

\* A process writes to a page.
LEMMA SpaceStoreKeeps ==
  ASSUME SpaceConstantsOK, SpaceInv, NEW p \in Procs, NEW a \in UserPages, NEW v \in Values,
         Store(p, a, v)
  PROVE  /\ SpaceInv' /\ OthersSee(p) /\ mms' = mms /\ mms[p].root # 0
         /\ CellsOf(p)[a] # <<>>
         /\ \E w : CellsOf(p)' = [CellsOf(p) EXCEPT ![a] = <<w, v>>]
<1>1. PICK r : r = mms[p].root
  OBVIOUS
<1>2. PICK R : R = RootsIn(mms)
  OBVIOUS
<1>3. PICK n : n = frames'
  OBVIOUS
<1>4. /\ r # 0 /\ r \in R /\ Good(frames, R) /\ Pte(frames, r, a).frame # 0
      /\ n = [frames EXCEPT !.val[Pte(frames, r, a).frame] = v]
      /\ mms' = mms /\ halted' = halted
      /\ GoesWith(frames, r, mms[p].areas)
  BY <1>1, <1>2, <1>3 DEF Store, PteOf, SpaceInv, Spaces, RootsIn, AllHeld
<1>5. PICK c : c = <<Pte(frames, r, a).write, v>>
  OBVIOUS
<1>6. Good(n, R) /\ Gets(frames, n, r, a, c) /\ AllKept(frames, n, R \ {r})
  BY <1>4, <1>5, StoredGood
<1>7. Cell(frames, r, a) # <<>> /\ Cell(frames, r, a)[1] = Pte(frames, r, a).write
  BY <1>4 DEF Cell
<1>8. PICK k \in DOMAIN mms[p].areas : Suits(mms[p].areas, k, a, c)
  BY <1>4, <1>5, <1>7 DEF GoesWith, Fits, Suits
<1>9. Spaces(n, mms) /\ SameSeen(frames, mms, n, mms, p)
  BY <1>1, <1>2, <1>4, <1>6, <1>8, PageChanges
<1>10. SpaceInv' /\ OthersSee(p)
  BY <1>3, <1>4, <1>9 DEF SpaceInv, OthersSee, SameSeen
<1>11. CellsOf(p)' = [CellsOf(p) EXCEPT ![a] = c]
  BY <1>1, <1>3, <1>4, <1>6 DEF CellsOf, Gets
<1>12. CellsOf(p)[a] # <<>>
  BY <1>1, <1>7 DEF CellsOf, Cells
<1> QED BY <1>1, <1>4, <1>5, <1>10, <1>11, <1>12

\* do_pgfault()
LEMMA SpaceFaultKeeps ==
  ASSUME SpaceConstantsOK, SpaceInv, NEW p \in Procs, NEW a \in UserPages, NEW write \in BOOLEAN,
         NEW v \in Values, Fault(p, a, write, v)
  PROVE  /\ SpaceInv'
         /\ \/ Stopped
            \/ /\ OthersSee(p) /\ mms' = mms /\ mms[p].root # 0 /\ CellsOf(p)[a] = <<>>
               /\ \E c : c # <<>> /\ CellsOf(p)' = [CellsOf(p) EXCEPT ![a] = c]
<1>1. PICK r : r = mms[p].root
  OBVIOUS
<1>2. PICK R : R = RootsIn(mms)
  OBVIOUS
<1>3. PICK l : l = mms[p].areas
  OBVIOUS
<1>4. PICK i : i = FindVma(l, NoArea, a)
  OBVIOUS
<1>5. PICK n : n = PageAlloced(WithTables(frames, r, a), r, a, "VM_WRITE" \in l[i].flags, v)
  OBVIOUS
<1>6. /\ r # 0 /\ i # 0
      /\ \/ Pte(frames, r, a).frame = 0 /\ Settle(n, mms)
         \/ Stopped
  BY <1>1, <1>3, <1>4, <1>5 DEF Fault, PteOf, Panic, Stopped
<1>7. /\ r \in R /\ Good(frames, R) /\ GoesWith(frames, r, l)
  BY <1>1, <1>2, <1>3, <1>6 DEF SpaceInv, Spaces, RootsIn, AllHeld
<1>8. i \in DOMAIN l /\ Covers(l[i], a)
  <2>1. l \in Seq(Areas)
    BY <1>7 DEF GoesWith, Sorted
  <2> QED BY <1>4, <1>6, <2>1, FindFinds
<1>9. CASE Stopped
  BY <1>9 DEF Stopped, SpaceInv
<1>10. CASE Pte(frames, r, a).frame = 0 /\ Settle(n, mms)
  <2>1. PICK k : k = WithTables(frames, r, a)
    OBVIOUS
  <2>2. PICK w \in BOOLEAN : MayWriteIs(l[i], w)
    <3>1. CASE "VM_WRITE" \in l[i].flags
      <4>1. MayWriteIs(l[i], TRUE)
        BY <3>1 DEF MayWriteIs
      <4> QED BY <4>1
    <3>2. CASE "VM_WRITE" \notin l[i].flags
      <4>1. MayWriteIs(l[i], FALSE)
        BY <3>2 DEF MayWriteIs
      <4> QED BY <4>1
    <3> QED BY <3>1, <3>2
  <2>3. n = PageAlloced(k, r, a, w, v)
    BY <1>5, <2>1, <2>2 DEF MayWriteIs
  <2>4. \/ Gone(k)
        \/ /\ Good(k, R) /\ Table(k, r, a) # 0 /\ k.val[r] = frames.val[r]
           /\ Widened(frames, k, r, Pdx1(a))
           /\ \A x \in R \ {r} : Kept(frames, k, x)
    BY <1>7, <2>1, TablesGood
  <2>5. CASE Gone(n)
    <3>1. Stopped
      BY <1>10, <2>5, SettleGone
    <3> QED BY <3>1 DEF Stopped, SpaceInv
  <2>6. CASE ~ Gone(n)
    <3>1. ~ Gone(k)
      BY <2>3, <2>6, GoneInserted
    <3>2. /\ Good(k, R) /\ Widened(frames, k, r, Pdx1(a))
          /\ \A x \in R \ {r} : Kept(frames, k, x)
      BY <2>4, <3>1
    <3>3. Cell(k, r, a) = <<>> /\ Cell(frames, r, a) = <<>>
      <4>1. Cell(frames, r, a) = <<>>
        BY <1>10, CellIs
      <4>2. Cells(k, r)[a] = Cells(frames, r)[a]
        BY <3>2 DEF Widened
      <4> QED BY <4>1, <4>2 DEF Cells
    <3>4. PICK c : c = <<w, v>>
      OBVIOUS
    <3>5. /\ Good(n, R) /\ Gets(k, n, r, a, <<w, v>>)
          /\ \A x \in R \ {r} : Kept(k, n, x)
      BY <1>7, <2>3, <2>6, <3>2, <3>3, AllocedGood
    <3>6. Gets(frames, n, r, a, c)
      BY <3>2, <3>4, <3>5 DEF Gets, Widened
    <3>7. AllKept(frames, n, R \ {r})
      BY <3>2, <3>5, KeptOn DEF AllKept
    <3>8. Suits(l, i, a, c)
      BY <1>8, <2>2, <3>4 DEF Suits, MayWriteIs
    <3>9. Spaces(n, mms) /\ SameSeen(frames, mms, n, mms, p)
      BY <1>1, <1>2, <1>3, <1>6, <1>8, <3>5, <3>6, <3>7, <3>8, PageChanges
    <3>10. frames' = n /\ mms' = mms /\ halted' = halted
      BY <1>10, <3>5, SettleGood
    <3>11. SpaceInv' /\ OthersSee(p)
      BY <3>9, <3>10 DEF SpaceInv, OthersSee, SameSeen
    <3>12. CellsOf(p)[a] = <<>> /\ CellsOf(p)' = [CellsOf(p) EXCEPT ![a] = c]
      BY <1>1, <3>3, <3>6, <3>10 DEF CellsOf, Cells, Gets
    <3> QED BY <1>1, <1>6, <3>4, <3>10, <3>11, <3>12
  <2> QED BY <2>5, <2>6
<1> QED BY <1>6, <1>9, <1>10

-----------------------------------------------------------------------------
(* The invariant implies what the run checks *)

\* At first nothing is allocated.
LEMMA SpaceStarts ==
  ASSUME SpaceConstantsOK, SpaceInit
  PROVE  SpaceInv
<1>1. PICK lev : lev = [f \in Frames |-> -2]
  OBVIOUS
<1>2. /\ frames.used = {} /\ frames.ref = [f \in Frames |-> 0] /\ frames.out = FALSE
      /\ frames.tab = [f \in Frames |-> EmptyTable] /\ frames.val = [f \in Frames |-> FileData]
      /\ frames.data = {} /\ Rec(frames)
  BY DEF SpaceInit, Rec
<1>3. /\ EmptyTable \in [Slots -> Entry] /\ FileData \in Values /\ F + 1 \in Frames
      /\ Clear.frame = 0 /\ \A i \in Slots : EmptyTable[i] = Clear
  BY FrameType
<1>4. Typed(frames)
  <2>1. frames.ref \in [Frames -> Int] /\ frames.val \in [Frames -> Values]
    BY <1>2, <1>3
  <2>2. frames.tab \in Tables
    BY <1>2, <1>3 DEF Tables
  <2> QED BY <1>2, <2>1, <2>2 DEF Typed
<1>5. Levelled(frames, lev)
  <2>1. lev \in [Frames -> Levels] /\ \A f \in Frames : lev[f] = -2
    BY <1>1 DEF Levels
  <2> QED BY <1>2, <1>3, <2>1 DEF Levelled
<1>6. \A f \in Frames, i \in Slots : frames.tab[f][i] = Clear /\ frames.tab[f][i].frame = 0
  BY <1>2, <1>3
<1>7. Downward(frames, lev) /\ OneName(frames)
  BY <1>3, <1>6 DEF Downward, OneName
<1>8. \A f \in Frames : lev[f] \notin 0 .. 2 /\ lev[f] # 3
  BY <1>1
<1>9. AllNamed(frames, lev) /\ Highest(lev) = {}
  BY <1>8 DEF AllNamed, Highest
<1>10. Good(frames, {})
  BY <1>4, <1>5, <1>7, <1>9 DEF Good, Shape
<1>11. \A p \in Procs : mms[p] = NoMm /\ mms[p].root = 0
  BY DEF SpaceInit, NoMm
<1>12. RootsIn(mms) = {}
  BY <1>11 DEF RootsIn
<1>13. mms \in [Procs -> Mms]
  <2>1. NoMm \in Mms
    <3>1. <<>> \in Seq(Areas)
      OBVIOUS
    <3> QED BY <3>1 DEF NoMm, Mms
  <2>2. mms = [p \in Procs |-> NoMm]
    BY DEF SpaceInit
  <2> QED BY <2>1, <2>2
<1>14. OneRoot(mms) /\ AllHeld(frames, mms)
  BY <1>11 DEF OneRoot, AllHeld
<1>15. halted \in BOOLEAN
  BY DEF SpaceInit
<1> QED BY <1>10, <1>12, <1>13, <1>14, <1>15 DEF SpaceInv, Spaces

\* The count of the frames that are in use.
LEMMA SpaceExact ==
  ASSUME SpaceConstantsOK, SpaceInv
  PROVE  FramesExact
<1> DEFINE entries == EntriesOf(Roots) \cup EntriesOf(Middles) \cup EntriesOf(Leaves)
           owned   == Middles \cup Leaves \cup Mapped
<1>1. Roots = RootsIn(mms) /\ Users = {p \in Procs : mms[p].root # 0}
  BY DEF Roots, RootsIn, Users
<1>2. PICK lev : Shape(frames, lev) /\ Roots = Highest(lev)
  BY <1>1 DEF SpaceInv, Spaces, Good
<1>3. /\ Typed(frames) /\ Levelled(frames, lev) /\ Downward(frames, lev)
      /\ OneName(frames) /\ AllNamed(frames, lev)
  BY <1>2 DEF Shape
<1>4. Roots = {f \in Frames : lev[f] = 3}
  BY <1>2 DEF Highest
<1>5. Frames = 1 .. F + 1 /\ F \in Nat /\ 0 \notin Frames
  BY FrameType
<1>6. \A f \in Frames, i \in Slots : frames.tab[f][i].frame \in {0} \cup Frames
  BY <1>3, EntryType DEF Typed
<1>7. \A e : e \in EntriesOf(Frames) <=>
        \E f \in Frames, i \in Slots : e = <<f, i>> /\ frames.tab[f][i].frame # 0
  BY DEF EntriesOf, Slots
<1>8. ASSUME NEW n \in 1 .. 3
      PROVE  Named(EntriesOf({f \in Frames : lev[f] = n})) = {f \in Frames : lev[f] = n - 1}
  <2>1. PICK T : T = {f \in Frames : lev[f] = n}
    OBVIOUS
  <2>2. ASSUME NEW g \in Named(EntriesOf(T)) PROVE g \in Frames /\ lev[g] = n - 1
    <3>1. PICK e \in EntriesOf(T) : g = frames.tab[e[1]][e[2]].frame
      BY DEF Named
    <3>2. e[1] \in Frames /\ lev[e[1]] = n /\ e[2] \in Slots /\ g # 0
      BY <2>1, <3>1 DEF EntriesOf, Slots
    <3> QED BY <1>3, <1>6, <3>1, <3>2 DEF Downward
  <2>3. ASSUME NEW g \in Frames, lev[g] = n - 1 PROVE g \in Named(EntriesOf(T))
    <3>1. lev[g] \in 0 .. 2 /\ g # 0
      BY <1>5, <2>3
    <3>2. PICK t \in Frames, i \in Slots : frames.tab[t][i].frame = g
      BY <1>3, <3>1 DEF AllNamed
    <3>3. lev[t] \in 1 .. 3 /\ lev[g] = lev[t] - 1
      BY <1>3, <3>1, <3>2 DEF Downward
    <3>4. t \in T
      BY <2>1, <2>3, <3>3
    <3>5. PICK e : e = <<t, i>>
      OBVIOUS
    <3>6. e \in EntriesOf(T) /\ frames.tab[e[1]][e[2]].frame = g
      BY <3>1, <3>2, <3>4, <3>5 DEF EntriesOf, Slots
    <3> QED BY <3>6 DEF Named
  <2> QED BY <2>1, <2>2, <2>3
<1>9. Middles = {f \in Frames : lev[f] = 2}
  <2>1. 3 \in 1 .. 3 /\ 3 - 1 = 2
    OBVIOUS
  <2> QED BY <1>4, <1>8, <2>1 DEF Middles
<1>10. Leaves = {f \in Frames : lev[f] = 1}
  <2>1. 2 \in 1 .. 3 /\ 2 - 1 = 1
    OBVIOUS
  <2> QED BY <1>8, <1>9, <2>1 DEF Leaves
<1>11. Mapped = {f \in Frames : lev[f] = 0}
  <2>1. 1 \in 1 .. 3 /\ 1 - 1 = 0
    OBVIOUS
  <2> QED BY <1>8, <1>10, <2>1 DEF Mapped
<1>12. \A f \in Frames : lev[f] \in -2 .. 3
  BY <1>3 DEF Levelled, Levels
<1>13. owned = {f \in Frames : lev[f] \in 0 .. 2}
  BY <1>9, <1>10, <1>11, <1>12
<1>14. Lost = {f \in Frames : lev[f] = -1}
  <2>1. \A f \in Frames : f \in frames.used <=> lev[f] # -2
    BY <1>3 DEF Levelled
  <2>2. frames.used \subseteq Frames
    BY <1>3 DEF Typed
  <2> QED BY <1>4, <1>9, <1>10, <1>11, <1>12, <2>1, <2>2 DEF Lost
<1>15. IsFiniteSet(Frames)
  BY <1>5, FS_Interval
<1>16. Roots \cup owned \subseteq frames.used
  <2>1. \A f \in Frames : f \in frames.used <=> lev[f] # -2
    BY <1>3 DEF Levelled
  <2> QED BY <1>4, <1>13, <2>1
<1>17. Cardinality(entries) = Cardinality(owned)
  <2>1. PICK E : E = entries
    OBVIOUS
  <2>2. PICK O : O = owned
    OBVIOUS
  <2>3. \A e \in E : /\ e = <<e[1], e[2]>> /\ e[1] \in Frames /\ e[2] \in Slots
                     /\ lev[e[1]] \in 1 .. 3 /\ frames.tab[e[1]][e[2]].frame # 0
    BY <1>4, <1>9, <1>10, <2>1 DEF EntriesOf, Slots
  <2>4. PICK h : h = [e \in E |-> frames.tab[e[1]][e[2]].frame]
    OBVIOUS
  <2>5. ASSUME NEW e \in E PROVE h[e] \in O
    <3>1. /\ h[e] = frames.tab[e[1]][e[2]].frame /\ h[e] # 0 /\ e[1] \in Frames /\ e[2] \in Slots
          /\ lev[e[1]] \in 1 .. 3
      BY <2>3, <2>4
    <3>2. h[e] \in Frames /\ lev[h[e]] = lev[e[1]] - 1
      BY <1>3, <1>6, <3>1 DEF Downward
    <3>3. lev[h[e]] \in 0 .. 2
      BY <3>1, <3>2
    <3> QED BY <1>13, <2>2, <3>2, <3>3
  <2>6. ASSUME NEW d \in E, NEW e \in E, h[d] = h[e] PROVE d = e
    <3>1. h[d] = frames.tab[d[1]][d[2]].frame /\ h[e] = frames.tab[e[1]][e[2]].frame
      BY <2>4
    <3>2. PICK x \in Frames, i \in Slots : x = d[1] /\ i = d[2] /\ d = <<x, i>>
      BY <2>3
    <3>3. PICK y \in Frames, j \in Slots : y = e[1] /\ j = e[2] /\ e = <<y, j>>
      BY <2>3
    <3>4. frames.tab[x][i].frame # 0 /\ frames.tab[x][i].frame = frames.tab[y][j].frame
      BY <2>3, <2>6, <3>1, <3>2, <3>3
    <3>5. x = y /\ i = j
      BY <1>3, <3>4 DEF OneName
    <3> QED BY <3>2, <3>3, <3>5
  <2>7. ASSUME NEW g \in O PROVE \E e \in E : h[e] = g
    <3>1. g \in Frames /\ lev[g] \in 0 .. 2 /\ g # 0
      BY <1>5, <1>13, <2>2
    <3>2. PICK t \in Frames, i \in Slots : frames.tab[t][i].frame = g
      BY <1>3, <3>1 DEF AllNamed
    <3>3. lev[t] \in 1 .. 3
      BY <1>3, <3>1, <3>2 DEF Downward
    <3>4. PICK e : e = <<t, i>>
      OBVIOUS
    <3>5. e \in E
      <4>1. t \in Roots \/ t \in Middles \/ t \in Leaves
        BY <1>4, <1>9, <1>10, <3>3
      <4> QED BY <2>1, <3>1, <3>2, <3>4, <4>1 DEF EntriesOf, Slots
    <3> QED BY <2>4, <3>2, <3>4, <3>5
  <2>8. O \subseteq Frames
    BY <1>13, <2>2
  <2>9. h \in Surjection(E, O) /\ h \in Injection(E, O)
    <3>1. h \in [E -> O]
      BY <2>4, <2>5
    <3> QED BY <2>6, <2>7, <3>1 DEF Surjection, Injection, IsInjective
  <2>10. IsFiniteSet(O)
    BY <1>15, <2>8, FS_Subset
  <2>11. Cardinality(E) = Cardinality(O)
    BY <2>9, <2>10, FS_Injection
  <2> QED BY <2>1, <2>2, <2>11
<1>18. Cardinality(Roots) = Cardinality(Users)
  <2>1. PICK h : h = [p \in Users |-> mms[p].root]
    OBVIOUS
  <2>2. PICK R : R = Roots
    OBVIOUS
  <2>3. PICK U : U = Users
    OBVIOUS
  <2>4. \A p, q \in U : h[p] = h[q] => p = q
    BY <1>1, <2>1, <2>3 DEF SpaceInv, Spaces, OneRoot
  <2>5. h \in [U -> R] /\ \A r \in R : \E p \in U : h[p] = r
    BY <1>1, <2>1, <2>2, <2>3 DEF RootsIn
  <2>6. h \in Surjection(U, R) /\ h \in Injection(U, R)
    BY <2>4, <2>5 DEF Surjection, Injection, IsInjective
  <2>7. R \subseteq Frames
    BY <1>4, <2>2
  <2>8. IsFiniteSet(R)
    BY <1>15, <2>7, FS_Subset
  <2>9. Cardinality(U) = Cardinality(R)
    BY <2>6, <2>8, FS_Injection
  <2> QED BY <2>2, <2>3, <2>9
<1>19. Roots \cap owned = {}
  BY <1>4, <1>13
<1>20. \A f \in Roots : frames.ref[f] = 0
  BY <1>3, <1>4 DEF Levelled
<1>21. \A f \in owned \cup Lost : frames.ref[f] = 1
  <2>1. \A f \in owned \cup Lost : f \in Frames /\ lev[f] \notin {-2, 3}
    BY <1>13, <1>14
  <2> HIDE DEF owned
  <2> QED BY <1>3, <2>1 DEF Levelled
<1>22. \A f \in Lost : frames.tab[f] = EmptyTable /\ f \notin frames.data
  <2> SUFFICES ASSUME NEW f \in Lost PROVE frames.tab[f] = EmptyTable /\ f \notin frames.data
    OBVIOUS
  <2>1. f \in Frames /\ lev[f] = -1 /\ lev[f] \notin 1 .. 3
    BY <1>14
  <2>2. frames.tab[f] = EmptyTable
    BY <1>2, <2>1, LowBare
  <2>3. f \notin frames.data
    BY <1>3, <2>1 DEF Levelled
  <2> QED BY <2>2, <2>3
<1> HIDE DEF entries, owned
<1>23. FramesExact <=> /\ Roots \cup owned \subseteq frames.used
                       /\ Cardinality(entries) = Cardinality(owned)
                       /\ Cardinality(Roots) = Cardinality(Users) /\ Roots \cap owned = {}
                       /\ \A f \in Roots : frames.ref[f] = 0
                       /\ \A f \in owned \cup Lost : frames.ref[f] = 1
                       /\ \A f \in Lost : frames.tab[f] = EmptyTable /\ f \notin frames.data
  BY Zenon DEF FramesExact, entries, owned
<1> QED BY <1>16, <1>17, <1>18, <1>19, <1>20, <1>21, <1>22, <1>23

\* Pages are mapped in areas only.
LEMMA SpaceInAreas ==
  ASSUME SpaceConstantsOK, SpaceInv
  PROVE  MappedInAreas
<1> SUFFICES ASSUME NEW p \in Users
             PROVE  /\ AreasSorted(mms[p].areas, NoArea)
                    /\ \A a \in UserPages : PteOf(p, a).frame # 0 =>
                         \E area \in ToSet(mms[p].areas) :
                           Covers(area, a) /\ PteOf(p, a).write = ("VM_WRITE" \in area.flags)
  BY DEF MappedInAreas
<1>1. PICK l : l = mms[p].areas
  OBVIOUS
<1>2. PICK r : r = mms[p].root
  OBVIOUS
<1>3. Sorted(l) /\ Fits(frames, r, l)
  BY <1>1, <1>2 DEF SpaceInv, Spaces, AllHeld, Users, GoesWith
<1>4. AreasSorted(l, NoArea)
  BY <1>3 DEF Sorted, AreasSorted
<1>5. ASSUME NEW a \in UserPages, PteOf(p, a).frame # 0
      PROVE  \E area \in ToSet(l) :
               Covers(area, a) /\ PteOf(p, a).write = ("VM_WRITE" \in area.flags)
  <2>1. Cell(frames, r, a) # <<>> /\ Cell(frames, r, a)[1] = PteOf(p, a).write
    BY <1>2, <1>5 DEF Cell, PteOf
  <2>2. PICK k \in DOMAIN l : /\ Covers(l[k], a)
                              /\ Cell(frames, r, a)[1] = ("VM_WRITE" \in l[k].flags)
    BY <1>3, <2>1 DEF Fits
  <2>3. l[k] \in ToSet(l)
    BY DEF ToSet
  <2> QED BY <2>1, <2>2, <2>3
<1> QED BY <1>1, <1>4, <1>5

-----------------------------------------------------------------------------
(* What happens to memory, as UserMemory says it *)

\* What each process finds in its pages.
AllSeen(m, ms) == [p \in Procs |-> SeenIn(m, ms[p])]

\* What a process sees, for any frames and directory.
LEMMA SeenAs ==
  ASSUME NEW m, NEW mm
  PROVE  SeenIn(m, mm) =
           IF mm.root = 0 THEN <<>>
           ELSE [a \in {b \in UserPages : Pte(m, mm.root, b).frame # 0} |->
                   m.val[Pte(m, mm.root, a).frame]]
<1>1. \A a \in UserPages : Cells(m, mm.root)[a] = Cell(m, mm.root, a)
  BY DEF Cells
<1>2. \A a \in UserPages : Cell(m, mm.root, a) # <<>> <=> Pte(m, mm.root, a).frame # 0
  BY CellIs
<1>3. \A a \in UserPages : Pte(m, mm.root, a).frame # 0 =>
        Cell(m, mm.root, a)[2] = m.val[Pte(m, mm.root, a).frame]
  BY DEF Cell
<1> QED BY <1>1, <1>2, <1>3 DEF SeenIn

\* That is what the memory of UserMemory stands for, before a step and after it.
LEMMA MemoryIs ==
  /\ [p \in Procs |-> Seen(p)] = AllSeen(frames, mms)
  /\ [p \in Procs |-> Seen(p)]' = AllSeen(frames', mms')
<1>1. \A p \in Procs : Seen(p) = SeenIn(frames, mms[p])
  BY SeenAs DEF Seen, PteOf
<1>2. \A p \in Procs : Seen(p)' = SeenIn(frames', mms'[p])
  BY SeenAs DEF Seen, PteOf
<1> QED BY <1>1, <1>2 DEF AllSeen

\* Before and after.
Old == AllSeen(frames, mms)
New == AllSeen(frames', mms')

\* A process has no memory when it has no address space.
LEMMA NothingSeen ==
  ASSUME NEW m, NEW mm, mm.root = 0
  PROVE  SeenIn(m, mm) = <<>>
BY DEF SeenIn

\* do_exit(), and do_execve() of a file that does not load, for UserMemory.
LEMMA ExitIs ==
  ASSUME SpaceInv, NEW p \in Procs, OthersSee(p), mms' = [mms EXCEPT ![p] = NoMm]
  PROVE  Memory!Exit(p, Old, New)
<1>1. mms'[p] = NoMm /\ NoMm.root = 0
  BY DEF SpaceInv, Spaces, NoMm
<1>2. SeenIn(frames', mms'[p]) = <<>>
  BY <1>1, NothingSeen
<1>3. \A q \in Procs : q # p => SeenIn(frames', mms'[q]) = SeenIn(frames, mms[q])
  BY DEF OthersSee
<1>4. New = [Old EXCEPT ![p] = <<>>]
  BY <1>2, <1>3 DEF New, Old, AllSeen
<1> QED BY <1>4 DEF Memory!Exit

\* fork(), for UserMemory.
LEMMA ForkIs ==
  ASSUME NEW p \in Procs, NEW q \in Procs, OthersSee(q), mms[q].root = 0,
         SeenIn(frames', mms'[q]) = SeenIn(frames, mms[p])
  PROVE  Memory!Fork(p, q, Old, New)
<1>1. SeenIn(frames, mms[q]) = <<>>
  BY NothingSeen
<1>2. \A x \in Procs : x # q => SeenIn(frames', mms'[x]) = SeenIn(frames, mms[x])
  BY DEF OthersSee
<1>3. New = [Old EXCEPT ![q] = Old[p]] /\ Old[q] = <<>>
  BY <1>1, <1>2 DEF New, Old, AllSeen
<1> QED BY <1>3 DEF Memory!Fork

\* The others keep what they have.
LEMMA OthersAre ==
  ASSUME NEW p \in Procs, OthersSee(p)
  PROVE  Memory!OthersKeep(p, Old, New)
BY DEF Memory!OthersKeep, OthersSee, Old, New, AllSeen

\* do_execve() of a file that loads, for UserMemory.
LEMMA ExecIs ==
  ASSUME SpaceConstantsOK, NEW p \in Procs, OthersSee(p), NEW prog \in Programs,
         HasProgram(p, prog)'
  PROVE  Memory!Exec(p, Old, New)
<1>1. PICK r : r = mms'[p].root
  OBVIOUS
<1>2. PICK c : c = Cells(frames', r)
  OBVIOUS
<1>3. /\ r # 0
      /\ \A j \in 1 .. Len(prog) : \A a \in prog[j].start .. prog[j].end - 1 : FromFile(c[a])
  BY <1>1, <1>2 DEF HasProgram
<1>4. New[p] = [a \in {b \in UserPages : c[b] # <<>>} |-> c[a][2]]
  BY <1>1, <1>2, <1>3 DEF New, AllSeen, SeenIn
<1>5. PICK image : image = Image(prog)
  OBVIOUS
<1>6. DOMAIN prog = 1 .. Len(prog)
  BY ProgramIs
<1>7. ASSUME NEW a \in DOMAIN image
      PROVE  a \in UserPages /\ FromFile(c[a]) /\ image[a] = FileData
  <2>1. a \in UserPages /\ image[a] = FileData
    BY <1>5 DEF Image
  <2>2. PICK k \in DOMAIN prog : prog[k].start <= a /\ a < prog[k].end
    BY <1>5 DEF Image
  <2>3. prog[k] \in Segments /\ k \in 1 .. Len(prog)
    BY <1>6, ProgramIs
  <2>4. prog[k].start \in Int /\ prog[k].end \in Int /\ a \in Int
    <3>1. NV \in Nat
      BY DEF SpaceConstantsOK
    <3> QED BY <2>1, <2>3, <3>1 DEF Segments, UserPages
  <2>5. a \in prog[k].start .. prog[k].end - 1
    BY <2>2, <2>4
  <2> QED BY <1>3, <2>1, <2>3, <2>5
<1>8. DOMAIN image \subseteq DOMAIN New[p] /\ \A a \in DOMAIN image : New[p][a] = image[a]
  BY <1>4, <1>7 DEF FromFile
<1>9. Memory!OthersKeep(p, Old, New)
  BY OthersAre
<1> QED BY <1>5, <1>8, <1>9 DEF Memory!Exec

\* do_pgfault(), for UserMemory.
LEMMA AppearIs ==
  ASSUME NEW p \in Procs, OthersSee(p), mms' = mms, mms[p].root # 0, NEW a \in UserPages,
         CellsOf(p)[a] = <<>>, NEW c, c # <<>>, CellsOf(p)' = [CellsOf(p) EXCEPT ![a] = c]
  PROVE  Memory!Appear(p, Old, New)
<1>1. PICK x : x = CellsOf(p)
  OBVIOUS
<1>2. PICK y : y = CellsOf(p)'
  OBVIOUS
<1>3. DOMAIN x = UserPages /\ y = [x EXCEPT ![a] = c] /\ x[a] = <<>>
  BY <1>1, <1>2 DEF CellsOf, Cells
<1>4. Old[p] = [b \in {d \in UserPages : x[d] # <<>>} |-> x[b][2]]
  BY <1>1 DEF Old, AllSeen, SeenIn, CellsOf
<1>5. New[p] = [b \in {d \in UserPages : y[d] # <<>>} |-> y[b][2]]
  BY <1>2 DEF New, AllSeen, SeenIn, CellsOf
<1>6. a \notin DOMAIN Old[p] /\ DOMAIN New[p] = DOMAIN Old[p] \cup {a}
  BY <1>3, <1>4, <1>5
<1>7. \A b \in DOMAIN Old[p] : New[p][b] = Old[p][b]
  BY <1>3, <1>4, <1>5
<1>8. Memory!OthersKeep(p, Old, New)
  BY OthersAre
<1> QED BY <1>6, <1>7, <1>8 DEF Memory!Appear

\* A store, for UserMemory.
LEMMA WriteIs ==
  ASSUME NEW p \in Procs, OthersSee(p), mms' = mms, mms[p].root # 0, NEW a \in UserPages,
         CellsOf(p)[a] # <<>>, NEW v \in Values, NEW w,
         CellsOf(p)' = [CellsOf(p) EXCEPT ![a] = <<w, v>>]
  PROVE  Memory!Write(p, Old, New)
<1>1. PICK x : x = CellsOf(p)
  OBVIOUS
<1>2. PICK y : y = CellsOf(p)'
  OBVIOUS
<1>3. DOMAIN x = UserPages /\ y = [x EXCEPT ![a] = <<w, v>>] /\ x[a] # <<>>
  BY <1>1, <1>2 DEF CellsOf, Cells
<1>4. Old[p] = [b \in {d \in UserPages : x[d] # <<>>} |-> x[b][2]]
  BY <1>1 DEF Old, AllSeen, SeenIn, CellsOf
<1>5. New[p] = [b \in {d \in UserPages : y[d] # <<>>} |-> y[b][2]]
  BY <1>2 DEF New, AllSeen, SeenIn, CellsOf
<1>6. {d \in UserPages : y[d] # <<>>} = {d \in UserPages : x[d] # <<>>}
  BY <1>3
<1>7. New[p] = [Old[p] EXCEPT ![a] = v] /\ a \in DOMAIN Old[p]
  BY <1>3, <1>4, <1>5, <1>6
<1>8. \A q \in Procs : q # p => New[q] = Old[q]
  BY DEF OthersSee, Old, New, AllSeen
<1>9. New = [Old EXCEPT ![p][a] = v]
  <2>1. New = [Old EXCEPT ![p] = [Old[p] EXCEPT ![a] = v]]
    BY <1>7, <1>8 DEF Old, New, AllSeen
  <2> QED BY <2>1
<1> QED BY <1>7, <1>9 DEF Memory!Write

\* Every step keeps the address spaces apart, and only a store changes what is there.
LEMMA SpaceStep ==
  ASSUME SpaceConstantsOK, SpaceInv, SpaceNext
  PROVE  /\ SpaceInv'
         /\ \/ New = Old \/ Memory!Kernel(Old, New)
            \/ \E p \in Procs : Memory!Write(p, Old, New)
               /\ \E a \in UserPages, v \in Values : Store(p, a, v)
<1>1. ASSUME Stopped PROVE New = Old
  BY <1>1 DEF Stopped, Old, New
<1>2. ASSUME NEW p \in Procs, Exec(p)
      PROVE  SpaceInv' /\ (New = Old \/ Memory!Kernel(Old, New))
  <2>1. /\ SpaceInv'
        /\ \/ Stopped
           \/ OthersSee(p) /\ mms' = [mms EXCEPT ![p] = NoMm]
           \/ OthersSee(p) /\ \E prog \in Programs : HasProgram(p, prog)'
    BY <1>2, ExecKeeps
  <2>2. CASE OthersSee(p) /\ mms' = [mms EXCEPT ![p] = NoMm]
    <3>1. Memory!Exit(p, Old, New)
      BY <2>2, ExitIs
    <3> QED BY <2>1, <3>1 DEF Memory!Kernel
  <2>3. CASE OthersSee(p) /\ \E prog \in Programs : HasProgram(p, prog)'
    <3>1. Memory!Exec(p, Old, New)
      BY <2>3, ExecIs
    <3> QED BY <2>1, <3>1 DEF Memory!Kernel
  <2> QED BY <1>1, <2>1, <2>2, <2>3
<1>3. ASSUME NEW p \in Procs, NEW q \in Procs, Fork(p, q)
      PROVE  SpaceInv' /\ (New = Old \/ Memory!Kernel(Old, New))
  <2>1. /\ SpaceInv'
        /\ \/ Stopped
           \/ /\ OthersSee(q) /\ p # q /\ mms[q].root = 0
              /\ SeenIn(frames', mms'[q]) = SeenIn(frames, mms[p])
    BY <1>3, ForkKeeps
  <2>2. CASE ~ Stopped
    <3>1. Memory!Fork(p, q, Old, New) /\ q \in Procs \ {p}
      BY <2>1, <2>2, ForkIs
    <3> QED BY <2>1, <3>1 DEF Memory!Kernel
  <2> QED BY <1>1, <2>1, <2>2
<1>4. ASSUME NEW p \in Procs, Exit(p)
      PROVE  SpaceInv' /\ Memory!Kernel(Old, New)
  <2>1. SpaceInv' /\ OthersSee(p) /\ mms' = [mms EXCEPT ![p] = NoMm]
    BY <1>4, ExitKeeps
  <2>2. Memory!Exit(p, Old, New)
    BY <2>1, ExitIs
  <2> QED BY <2>1, <2>2 DEF Memory!Kernel
<1>5. ASSUME NEW p \in Procs, NEW a \in UserPages, NEW v \in Values, Store(p, a, v)
      PROVE  SpaceInv' /\ Memory!Write(p, Old, New)
  <2>1. /\ SpaceInv' /\ OthersSee(p) /\ mms' = mms /\ mms[p].root # 0
        /\ CellsOf(p)[a] # <<>>
        /\ \E w : CellsOf(p)' = [CellsOf(p) EXCEPT ![a] = <<w, v>>]
    BY <1>5, SpaceStoreKeeps
  <2> QED BY <2>1, WriteIs
<1>6. ASSUME NEW p \in Procs, NEW a \in UserPages, NEW write \in BOOLEAN, NEW v \in Values,
             Fault(p, a, write, v)
      PROVE  SpaceInv' /\ (New = Old \/ Memory!Kernel(Old, New))
  <2>1. /\ SpaceInv'
        /\ \/ Stopped
           \/ /\ OthersSee(p) /\ mms' = mms /\ mms[p].root # 0 /\ CellsOf(p)[a] = <<>>
              /\ \E c : c # <<>> /\ CellsOf(p)' = [CellsOf(p) EXCEPT ![a] = c]
    BY <1>6, SpaceFaultKeeps
  <2>2. CASE ~ Stopped
    <3>1. Memory!Appear(p, Old, New)
      BY <2>1, <2>2, AppearIs
    <3> QED BY <2>1, <3>1 DEF Memory!Kernel
  <2> QED BY <1>1, <2>1, <2>2
<1> QED BY <1>2, <1>3, <1>4, <1>5, <1>6 DEF SpaceNext

\* The same of a step that may be a stutter, for the properties.
LEMMA SpaceSteps ==
  ASSUME SpaceConstantsOK, SpaceInv, [SpaceNext]_spaceVars
  PROVE  /\ SpaceInv'
         /\ [Memory!Next]_([p \in Procs |-> Seen(p)]) /\ [OnlyStores]_spaceVars
<1>0. [p \in Procs |-> Seen(p)] = Old /\ [p \in Procs |-> Seen(p)]' = New
  BY MemoryIs DEF Old, New
<1>1. CASE UNCHANGED spaceVars
  <2>1. frames' = frames /\ mms' = mms /\ halted' = halted
    BY <1>1 DEF spaceVars
  <2>2. SpaceInv' /\ New = Old
    BY <2>1 DEF SpaceInv, New, Old
  <2> QED BY <1>0, <1>1, <2>2
<1>2. CASE SpaceNext
  <2>1. /\ SpaceInv'
        /\ \/ New = Old \/ Memory!Kernel(Old, New)
           \/ \E p \in Procs : Memory!Write(p, Old, New)
              /\ \E a \in UserPages, v \in Values : Store(p, a, v)
    BY <1>2, SpaceStep
  <2>2. CASE New = Old \/ Memory!Kernel(Old, New)
    <3>1. Memory!KernelKeeps
      BY <1>0, <2>2, Zenon DEF Memory!KernelKeeps
    <3>2. New = Old \/ Memory!Next
      BY <1>0, <2>2, Zenon DEF Memory!Next
    <3> QED BY <1>0, <2>1, <3>1, <3>2 DEF OnlyStores
  <2>3. CASE \E p \in Procs : Memory!Write(p, Old, New)
               /\ \E a \in UserPages, v \in Values : Store(p, a, v)
    <3>1. Memory!Next
      BY <1>0, <2>3, Zenon DEF Memory!Next
    <3>2. OnlyStores
      BY <2>3 DEF OnlyStores
    <3> QED BY <2>1, <3>1, <3>2
  <2> QED BY <2>1, <2>2, <2>3
<1> QED BY <1>1, <1>2

\* No process has memory at first.
LEMMA MemoryStarts ==
  ASSUME SpaceInit
  PROVE  Memory!Init
<1>1. \A p \in Procs : mms[p].root = 0
  BY DEF SpaceInit, NoMm
<1>2. \A p \in Procs : Seen(p) = <<>>
  BY <1>1 DEF Seen
<1> QED BY <1>2 DEF Memory!Init

\* Every frame that is allocated is a directory of one process, or one entry leads to it and
\* its count is one, or it is an empty table that exit_range() left; nothing else is, and
\* pages are mapped in areas only, as the areas allow (pmm.c, page_insert, page_remove_pte
\* and exit_range; vmm.c, do_pgfault).
THEOREM FramesHold ==
  SpaceSpec /\ SpaceConstantsOK => [](FramesExact /\ MappedInAreas)
<1> SUFFICES ASSUME SpaceConstantsOK PROVE SpaceSpec => [](FramesExact /\ MappedInAreas)
  OBVIOUS
<1>1. SpaceInit => SpaceInv
  BY SpaceStarts
<1>2. SpaceInv /\ [SpaceNext]_spaceVars => SpaceInv'
  BY SpaceSteps
<1>3. SpaceInv => FramesExact /\ MappedInAreas
  BY SpaceExact, SpaceInAreas
<1> QED BY <1>1, <1>2, <1>3, PTL DEF SpaceSpec

\* What a process finds in its memory is what it stored last, what fork() gave it or what
\* its program's file holds, whatever the other processes do (pmm.c, copy_range; proc.c,
\* load_icode; vmm.c, exit_mmap).
THEOREM SpacesKeepMemory == SpaceSpec /\ SpaceConstantsOK => ImplementsMemory
<1> SUFFICES ASSUME SpaceConstantsOK PROVE SpaceSpec => ImplementsMemory
  OBVIOUS
<1>1. SpaceInit => SpaceInv /\ Memory!Init
  BY SpaceStarts, MemoryStarts
<1>2. SpaceInv /\ [SpaceNext]_spaceVars =>
        SpaceInv' /\ [Memory!Next]_([p \in Procs |-> Seen(p)]) /\ [OnlyStores]_spaceVars
  BY SpaceSteps
<1>3. SpaceSpec => Memory!Spec
  BY <1>1, <1>2, PTL DEF SpaceSpec, Memory!Spec
<1>4. SpaceSpec => [][OnlyStores]_spaceVars
  BY <1>1, <1>2, PTL DEF SpaceSpec
<1> QED BY <1>3, <1>4 DEF ImplementsMemory
=============================================================================
