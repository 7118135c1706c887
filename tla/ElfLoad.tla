------------------------------- MODULE ElfLoad -------------------------------
(***************************************************************************)
(* load_icode(), lab8/kern/process/proc.c, byte by byte: one segment of a  *)
(* program comes into new pages, with zeros behind what the file has, and  *)
(* the arguments come onto the stack.  What module AddrSpace says about    *)
(* pages of a program rests on this.                                       *)
(***************************************************************************)
EXTENDS Integers, Sequences, FiniteSets, SequencesExt, FiniteSetsExt

CONSTANTS
  PB,          \* PGSIZE
  Long,        \* sizeof(long) and sizeof(char *)
  IntBytes,    \* sizeof(int)
  MaxVa,       \* the segments that are tried begin below
  MaxSize,     \* the most bytes one has
  ArgLengths   \* the lengths of arguments that are tried

ConstantsOK ==
  /\ {PB, Long, IntBytes, MaxVa, MaxSize} \subseteq Nat \ {0}
  /\ ArgLengths \subseteq Nat

VARIABLES
  seg,     \* [va, filesz, memsz]: the program header
  pages,   \* the new pages by address, with what each byte holds
  start,   \* the next byte of the segment
  la,      \* behind the page that was added last
  offset,  \* the next byte of the file, from p_offset
  phase,   \* which loop of the code is at work
  stack    \* [args, strings, uargv, sp]: lengths and places of the arguments

vars == <<seg, pages, start, la, offset, phase, stack>>

\* A byte holds a byte of the file, by its place there, or one of these.
Zero == -1
Junk == -2

TypeOK ==
  /\ seg \in [va : Nat, filesz : Nat, memsz : Nat]
  /\ \A a \in DOMAIN pages : pages[a] \in [0 .. PB - 1 -> -2 .. MaxSize]
  /\ {start, la, offset} \subseteq Nat
  /\ phase \in {"file", "tail", "bss", "loaded", "done"}

\* load_icode() has read the header, tested p_filesz <= p_memsz and mapped the area.
Init ==
  /\ seg \in {s \in [va : 0 .. MaxVa - 1, filesz : 0 .. MaxSize, memsz : 1 .. MaxSize] :
                s.filesz <= s.memsz}
  /\ pages = <<>> /\ offset = 0 /\ phase = "file"
  /\ start = seg.va /\ la = (seg.va \div PB) * PB
  /\ stack = <<>>

-----------------------------------------------------------------------------
\* The new page at la gets the bytes, counted from 0, from its byte off on.
NewPage(page, off, bytes) ==
  pages' = [a \in DOMAIN pages \cup {page} |->
              IF a # page THEN pages[a]
              ELSE [i \in 0 .. PB - 1 |->
                      IF i - off \in DOMAIN bytes THEN bytes[i - off] ELSE Junk]]

\* How much of the page at la belongs to what ends at end.
SizeIn(end) ==
  LET size == PB - (start - la) IN IF end < la + PB THEN size - (la + PB - end) ELSE size

FileEnd == seg.va + seg.filesz
MemEnd  == seg.va + seg.memsz

\* (3.4) one round of the loop that reads from the file.
ReadPage ==
  /\ phase = "file" /\ start < FileEnd
  /\ NewPage(la, start - la, [i \in 0 .. SizeIn(FileEnd) - 1 |-> offset + i])
  /\ start' = start + SizeIn(FileEnd)
  /\ offset' = offset + SizeIn(FileEnd)
  /\ la' = la + PB
  /\ UNCHANGED <<seg, phase, stack>>

FileRead ==
  /\ phase = "file" /\ ~ (start < FileEnd)
  /\ phase' = IF start < la THEN IF start = MemEnd THEN "loaded" ELSE "tail" ELSE "bss"
  /\ UNCHANGED <<seg, pages, start, la, offset, stack>>

\* Fault: the tail is cleared up to the end of the page only if the segment ends there.
TailShort == IF MemEnd < la THEN 0 ELSE la - start

\* How many bytes of the last page that was read are cleared.
TailSize ==
  LET off == start + PB - la size == PB - off IN IF MemEnd < la THEN size - (la - MemEnd) ELSE size

\* What is behind the file's last byte in its page becomes zero.
ZeroTail ==
  LET off == start + PB - la
  IN  /\ phase = "tail"
      /\ pages' = [pages EXCEPT ![la - PB] =
                     [i \in DOMAIN @ |-> IF off <= i /\ i < off + TailSize THEN Zero ELSE @[i]]]
      /\ start' = start + TailSize
      /\ phase' = "bss"
      /\ UNCHANGED <<seg, la, offset, stack>>

\* (3.5) one round of the loop for pages without anything of the file.
ZeroPage ==
  /\ phase = "bss" /\ start < MemEnd
  /\ NewPage(la, start - la, [i \in 0 .. SizeIn(MemEnd) - 1 |-> Zero])
  /\ start' = start + SizeIn(MemEnd) /\ la' = la + PB
  /\ UNCHANGED <<seg, offset, phase, stack>>

BssDone ==
  /\ phase = "bss" /\ ~ (start < MemEnd) /\ phase' = "loaded"
  /\ UNCHANGED <<seg, pages, start, la, offset, stack>>

ArgBytes(len) == len + 1

\* The bytes that the first k arguments take.
ArgsSize(args, k) == SumFunction([j \in 1 .. k |-> ArgBytes(args[j])])

\* (6) the places of the arguments below USTACKTOP, which is 0 here.
SetupArgs(args) ==
  LET top   == - (ArgsSize(args, Len(args)) \div Long + 1) * Long
      uargv == top - Len(args) * Long
  IN  /\ phase = "loaded" /\ phase' = "done"
      /\ stack' = [args |-> args, uargv |-> uargv, sp |-> uargv - IntBytes,
                   strings |-> [k \in DOMAIN args |-> top + ArgsSize(args, k - 1)]]
      /\ UNCHANGED <<seg, pages, start, la, offset>>

Next ==
  \/ ReadPage \/ FileRead \/ ZeroTail \/ ZeroPage \/ BssDone
  \/ \E argc \in 1 .. 2 : \E args \in [1 .. argc -> ArgLengths] : SetupArgs(args)

Spec == Init /\ [][Next]_vars

-----------------------------------------------------------------------------
ByteAt(a) == pages[(a \div PB) * PB][a % PB]

\* When a segment is loaded there are the pages it touches and no others, its bytes
\* hold the file and then zeros, wherever it begins and ends within pages; before
\* that no page is added a second time, and where the assertion behind the first
\* memset is, it holds (proc.c, load_icode).
LoadExact ==
  /\ phase \in {"loaded", "done"} =>
       /\ DOMAIN pages = {(a \div PB) * PB : a \in seg.va .. MemEnd - 1}
       /\ \A i \in 0 .. seg.memsz - 1 :
            ByteAt(seg.va + i) = IF i < seg.filesz THEN i ELSE Zero
  /\ \A a \in DOMAIN pages : a < la
  /\ (phase = "bss" /\ start <= la) =>
       (MemEnd < la /\ start = MemEnd) \/ (MemEnd >= la /\ start = la)

\* The strings with their zeros, the array of pointers to them and argc lie above
\* the stack pointer and below the top, and do not overlap (proc.c, load_icode (6)).
ArgsApart ==
  phase = "done" =>
    LET argc   == Len(stack.args)
        Bytes(at, n) == at .. at + n - 1
        areas  == {Bytes(stack.strings[k], stack.args[k] + 1) : k \in 1 .. argc}
                  \cup {Bytes(stack.uargv, argc * Long), Bytes(stack.sp, IntBytes)}
    IN  /\ Cardinality(UNION areas)
             = SumFunction(stack.args) + argc + argc * Long + IntBytes
        /\ UNION areas \subseteq stack.sp .. -1
        /\ stack.uargv % Long = 0
=============================================================================
