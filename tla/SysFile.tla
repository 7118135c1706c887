------------------------------ MODULE SysFile ------------------------------
(***************************************************************************)
(* sysfile_read() and sysfile_write() of lab8/kern/fs/sysfile.c: one call  *)
(* that moves bytes between a file and user memory, a buffer at a time,    *)
(* while others change the file that is read, a page may be missing at any *)
(* place of the user's buffer and the disk may fail.  mem[a] is the byte   *)
(* at address a; byte k of the file begins as k.                           *)
(***************************************************************************)
EXTENDS Vma

CONSTANTS
  PB,       \* bytes of a page
  IoBuf,    \* IOBUF_SIZE
  FileLen,  \* bytes of the file at first
  Lengths,  \* the lengths that are asked for
  Layouts   \* the lists of areas of the process

ConstantsOK ==
  /\ {NV, PB, IoBuf, FileLen} \subseteq Nat \ {0} /\ Lengths \subseteq Nat \ {0}
  /\ \A l \in Layouts : l \in Seq(Areas) /\ AreasSorted(l, NoArea)

VARIABLES
  areas, file, pos, mem,
  call,   \* the call: op, base, len, copied, ret, the piece in the buffer, where it began
  seen    \* all bytes that file_read() gave to the call

vars == <<areas, file, pos, mem, call, seen>>

Addresses == 0 .. NV * PB - 1
Fresh(a) == 100 + a          \* what the user's buffer holds at first
NoCall == [at |-> "user"]

Init ==
  /\ areas \in Layouts
  /\ file = [k \in 1 .. FileLen |-> k] /\ pos \in 0 .. FileLen
  /\ mem = [a \in Addresses |-> Fresh(a)]
  /\ call = NoCall /\ seen = <<>>

-----------------------------------------------------------------------------
\* user_mem_check() of a range of bytes, page by page.
Reaches(lo, len, write) ==
  UserMemCheck(areas, NoArea, lo \div PB, (lo + len + PB - 1) \div PB, write)

\* sysfile_read() and sysfile_write() up to the loop.
Begin(op, base, len) ==
  /\ call.at = "user"
  /\ call' = [at |-> op, op |-> op, base |-> base, len |-> len, copied |-> 0, ret |-> "ok",
              piece |-> 0, from |-> pos, clean |-> TRUE]
  /\ UNCHANGED <<areas, file, pos, mem, seen>>

Request == Min({IoBuf, call.len - call.copied})
Target == call.base + call.copied

\* Fault: bytes that were copied are not counted.
AdvancedOne(c, n) == [c EXCEPT !.copied = @ + 1]

\* base, len and copied after n bytes.
Advanced(c, n) == [c EXCEPT !.copied = @ + n]

\* The loop goes on, or ends after an error and at the length.
Turned(c) ==
  IF c.ret # "ok" \/ c.copied = c.len THEN [c EXCEPT !.at = "back"]
  ELSE [c EXCEPT !.at = c.op]

\* file_read() into the buffer: what there is from pos on, or less and an error.
ReadPiece ==
  LET there == Max({0, Min({Request, Len(file) - pos})})
  IN  /\ call.at = "read"
      /\ \E n \in 0 .. there, failed \in BOOLEAN :
           /\ ~ failed => n = there
           /\ seen' = seen \o SubSeq(file, pos + 1, pos + n)
           /\ pos' = pos + n
           /\ \E c \in {[call EXCEPT !.piece = n, !.clean = @ /\ ~ failed,
                                     !.ret = IF failed THEN "failed" ELSE "ok"]} :
                call' = [c EXCEPT !.at = IF n = 0 THEN "back" ELSE "copy"]
      /\ UNCHANGED <<areas, file, mem>>

\* copy_to_user() of the buffer under lock_mm(), all of it or nothing.
CopyOut ==
  LET n == call.piece
  IN  /\ call.at = "copy"
      /\ IF Reaches(Target, n, TRUE)
         THEN /\ mem' = [a \in Addresses |->
                           IF a \in Target .. Target + n - 1
                           THEN seen[Len(seen) - n + 1 + a - Target] ELSE mem[a]]
              /\ call' = Turned(Advanced(call, n))
         ELSE /\ call' = Turned([call EXCEPT !.ret = IF @ = "ok" THEN "inval" ELSE @])
              /\ UNCHANGED mem
      /\ UNCHANGED <<areas, file, pos, seen>>

\* copy_from_user() and file_write() of one buffer; the disk may take less.
WritePiece ==
  /\ call.at = "write"
  /\ IF ~ Reaches(Target, Request, FALSE)
     THEN call' = Turned([call EXCEPT !.ret = "inval"]) /\ UNCHANGED <<file, pos>>
     ELSE \E n \in 0 .. Request, failed \in BOOLEAN :
            /\ ~ failed => n = Request
            /\ file' = [k \in 1 .. Max({Len(file), pos + n}) |->
                          IF k \in pos + 1 .. pos + n THEN mem[Target + k - pos - 1] ELSE file[k]]
            /\ pos' = pos + n
            /\ call' = Turned([Advanced(call, n) EXCEPT
                                 !.clean = @ /\ ~ failed,
                                 !.ret = IF failed THEN "failed" ELSE "ok"])
  /\ UNCHANGED <<areas, mem, seen>>

\* While a read waits for a lock another process truncates the file or writes it.
Other ==
  /\ call.at \in {"read", "copy"}
  /\ \/ \E n \in 0 .. Len(file) - 1 : file' = SubSeq(file, 1, n)
     \/ \E k \in DOMAIN file : file[k] # 0 /\ file' = [file EXCEPT ![k] = 0]
  /\ call' = [call EXCEPT !.clean = FALSE]
  /\ UNCHANGED <<areas, pos, mem, seen>>

Next ==
  \/ \E op \in {"read", "write"}, base \in Addresses, len \in Lengths : Begin(op, base, len)
  \/ ReadPiece \/ CopyOut \/ WritePiece \/ Other

Spec == Init /\ [][Next]_vars

-----------------------------------------------------------------------------
\* When a call returns, the bytes it counts are those that were moved, in order and
\* without a gap, and nothing else has changed; the position has moved by as much,
\* and by one buffer more at most when the user's memory refused what had been read;
\* with nobody else at the file and no error of the disk, a short count means the
\* end of the file or memory that refuses (sysfile.c, sysfile_read, sysfile_write).
TransfersExact ==
  call.at = "back" =>
    LET moved   == pos - call.from
        counted == {a \in Addresses : call.base <= a /\ a < call.base + call.copied}
        Refused(n, write) ==
          ~ Usable(areas, Target \div PB, (Target + n + PB - 1) \div PB, write)
            \/ Target + n > NV * PB
        short == call.clean /\ call.copied < call.len
    IN  IF call.op = "read"
        THEN /\ moved = Len(seen)
             /\ \A a \in Addresses :
                  mem[a] = IF a \in counted THEN seen[a - call.base + 1] ELSE Fresh(a)
             /\ moved # call.copied =>
                  /\ Refused(call.piece, TRUE)
                  /\ moved - call.copied \in 1 .. IoBuf
             /\ short => moved # call.copied \/ pos >= Len(file)
        ELSE /\ moved = call.copied
             /\ \A k \in DOMAIN file :
                  file[k] = IF k \in call.from + 1 .. pos
                            THEN mem[call.base + k - call.from - 1] ELSE k
             /\ short => Refused(Request, FALSE)
=============================================================================
